SPECIFICATION BindingSpec
INVARIANT BindingSafe
