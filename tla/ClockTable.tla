----------------------------- MODULE ClockTable -----------------------------
(***************************************************************************)
(* The clock tables of QcomPlatformClockInitLib: msm8974-clock.c, which    *)
(* the build uses, and msm8994-clock.c, which lies beside it.  A clock is  *)
(* a record tagged with its operations:                                    *)
(*   "cxo"     the crystal, always on                                      *)
(*   "pll"     a PLL enabled by a vote                                     *)
(*   "rcg"     a root clock generator: a frequency table, the function     *)
(*             that programs it ("hid" or "mnd"), whether the table starts *)
(*             it at rcg_dummy_freq or at no frequency, and whether its    *)
(*             configuration registers are given                           *)
(*   "branch"  a gate behind a root: parent, has_sibling, bcr_reg given    *)
(*   "vote"    a gate enabled by one bit of a vote register                *)
(*   "reset"   a reset line only                                           *)
(* Frequencies are in units of 100 Hz and dividers are doubled (div2), so  *)
(* that every value of the tables is an integer.                           *)
(***************************************************************************)
EXTENDS Integers, Sequences

None == "none"
ExternalPlls == {"edppll_270", "edppll_350", "hdmipll"}

\* The rows of a frequency table: F takes the system clock multiplexer, F_MM
\* the multimedia one, F_MDSS that one again with no source clock to enable.
F(f, s, div2, m, n) ==
    [freq |-> f, src |-> s, mux |-> "sys", div2 |-> div2, m |-> m, n |-> n]
F_MM(f, s, div2, m, n) ==
    [freq |-> f, src |-> s, mux |-> "mm", div2 |-> div2, m |-> m, n |-> n]
F_MDSS(f, s, div2, m, n) == F_MM(f, s, div2, m, n)

\* What clk_enable(nf->src_clk) is given: nothing for the external PLLs.
SrcClk(row) == IF row.src \in ExternalPlls THEN None ELSE row.src

\* The multiplexer values of the two files (BVAL keeps three bits of them).
SourceVal(row) ==
    CASE row.src = "cxo"                                -> 0
      [] row.src = "gpll0" /\ row.mux = "sys"           -> 1
      [] row.src = "gpll4"                              -> 5
      [] row.src = "gpll0" /\ row.mux = "mm"            -> 5
      [] row.src \in {"edppll_270", "edppll_350"}       -> 4
      [] row.src = "hdmipll"                            -> 3

Cxo == [ops |-> "cxo", rate |-> 192000]
Pll(rate) == [ops |-> "pll", rate |-> rate]
Rcg(how, tbl) == [ops |-> "rcg", how |-> how, tbl |-> tbl, dummy |-> TRUE, cfgReg |-> TRUE]
RcgNoFreq(how, tbl) == [Rcg(how, tbl) EXCEPT !.dummy = FALSE]
NoCfgReg(rcg) == [rcg EXCEPT !.cfgReg = FALSE]
Branch(parent) == [ops |-> "branch", parent |-> parent, sibling |-> FALSE, bcr |-> FALSE]
Sibling(parent) == [Branch(parent) EXCEPT !.sibling = TRUE]
WithBcr(b) == [b EXCEPT !.bcr = TRUE]
Vote(bit) == [ops |-> "vote", bit |-> bit]
Reset == [ops |-> "reset"]

\* The clocks of all sections of a file, each in one of them.
Table(sections) ==
    [ c \in UNION { DOMAIN sections[i] : i \in DOMAIN sections } |->
        sections[CHOOSE i \in DOMAIN sections : c \in DOMAIN sections[i]][c] ]

\* Tables the two files have in common, row for row.
SdccFreqs == << F(1440, "cxo", 32, 3, 25), F(4000, "cxo", 24, 1, 4),
    F(200000, "gpll0", 30, 1, 2), F(250000, "gpll0", 24, 1, 2),
    F(500000, "gpll0", 24, 0, 0), F(1000000, "gpll0", 12, 0, 0),
    F(2000000, "gpll0", 6, 0, 0) >>
UartFreqs == << F(36864, "gpll0", 2, 96, 15625), F(73728, "gpll0", 2, 192, 15625),
    F(147456, "gpll0", 2, 384, 15625), F(160000, "gpll0", 10, 2, 15),
    F(192000, "cxo", 2, 0, 0), F(240000, "gpll0", 10, 1, 5),
    F(320000, "gpll0", 2, 4, 75), F(400000, "gpll0", 30, 0, 0),
    F(464000, "gpll0", 2, 29, 375), F(480000, "gpll0", 25, 0, 0),
    F(512000, "gpll0", 2, 32, 375), F(560000, "gpll0", 2, 7, 75),
    F(589824, "gpll0", 2, 1536, 15625), F(600000, "gpll0", 20, 0, 0) >>
UsbHsFreqs == << F(750000, "gpll0", 16, 0, 0) >>
CeFreqs == << F(500000, "gpll0", 24, 0, 0), F(1000000, "gpll0", 12, 0, 0) >>
CxoMmFreqs == << F_MM(192000, "cxo", 2, 0, 0) >>
AxiFreqs == << F_MM(192000, "cxo", 2, 0, 0), F_MM(1000000, "gpll0", 12, 0, 0) >>
MdpFreqs == << F_MM(750000, "gpll0", 16, 0, 0), F_MM(2400000, "gpll0", 5, 0, 0) >>
EdpLinkFreqs ==
    << F_MDSS(1620000, "edppll_270", 4, 0, 0), F_MDSS(2700000, "edppll_270", 22, 0, 0) >>
EdpPixelFreqs ==
    << F_MDSS(1385000, "edppll_350", 4, 0, 0), F_MDSS(3500000, "edppll_350", 22, 0, 0) >>
Usb30Freqs == << F(1250000, "gpll0", 2, 5, 24) >>

-----------------------------------------------------------------------------
(* msm8974-clock.c, section by section. *)

Sources8974 == [cxo |-> Cxo, gpll0 |-> Pll(6000000)]

Sdcc8974 ==
  [ sdcc1_apps_clk_src |-> Rcg("mnd", SdccFreqs),
    gcc_sdcc1_apps_clk |-> Branch("sdcc1_apps_clk_src"),
    gcc_sdcc1_ahb_clk  |-> Sibling(None),
    gcc_sdcc1_cdccal_sleep_clk |-> Sibling(None),
    gcc_sdcc1_cdccal_ff_clk    |-> Sibling(None),
    sdcc2_apps_clk_src |-> Rcg("mnd", SdccFreqs),
    gcc_sdcc2_apps_clk |-> Branch("sdcc2_apps_clk_src"),
    gcc_sdcc2_ahb_clk  |-> Sibling(None) ]

Uart8974 ==
  [ blsp2_uart6_apps_clk_src |-> Rcg("mnd", UartFreqs),
    gcc_blsp2_uart6_apps_clk |-> Branch("blsp2_uart6_apps_clk_src"),
    gcc_blsp2_ahb_clk        |-> Vote(15) ]

UsbHs8974 ==
  [ usb_hs_system_clk_src |-> Rcg("hid", UsbHsFreqs),
    gcc_usb_hs_system_clk |-> Branch("usb_hs_system_clk_src"),
    gcc_usb_hs_ahb_clk    |-> Sibling(None) ]

Ce8974 ==
  [ ce2_clk_src |-> Rcg("hid", CeFreqs), gcc_ce2_clk |-> Vote(2),
    gcc_ce2_ahb_clk |-> Vote(0), gcc_ce2_axi_clk |-> Vote(1),
    ce1_clk_src |-> Rcg("hid", CeFreqs), gcc_ce1_clk |-> Vote(5),
    gcc_ce1_ahb_clk |-> Vote(3), gcc_ce1_axi_clk |-> Vote(4) ]

I2c8974 == [ gcc_blsp2_qup5_i2c_apps_clk |-> Branch("cxo") ]

Display8974 ==
  [ dsi_esc0_clk_src |-> RcgNoFreq("hid", CxoMmFreqs),
    dsi_esc1_clk_src |-> RcgNoFreq("hid", CxoMmFreqs),
    vsync_clk_src    |-> RcgNoFreq("hid", CxoMmFreqs),
    mdp_axi_clk_src  |-> RcgNoFreq("hid", AxiFreqs),
    mdss_esc0_clk    |-> Branch("dsi_esc0_clk_src"),
    mdss_esc1_clk    |-> Branch("dsi_esc1_clk_src"),
    mdss_axi_clk     |-> Branch("mdp_axi_clk_src"),
    mmss_mmssnoc_axi_clk |-> Branch("mdp_axi_clk_src"),
    mmss_s0_axi_clk  |-> Branch("mdp_axi_clk_src"),
    mdp_ahb_clk      |-> Sibling(None) ]

Mdp8974 ==
  [ mdss_mdp_clk_src |-> Rcg("hid", MdpFreqs),
    mdss_mdp_clk     |-> Sibling("mdss_mdp_clk_src"),
    mdss_mdp_lut_clk |-> Sibling("mdss_mdp_clk_src"),
    mdss_vsync_clk   |-> Branch("vsync_clk_src") ]

Edp8974 ==
  [ edpaux_clk_src    |-> NoCfgReg(RcgNoFreq("hid", CxoMmFreqs)),
    mdss_edpaux_clk   |-> Branch("edpaux_clk_src"),
    edplink_clk_src   |-> NoCfgReg(Rcg("hid", EdpLinkFreqs)),
    edppixel_clk_src  |-> NoCfgReg(Rcg("mnd", EdpPixelFreqs)),
    mdss_edplink_clk  |-> Branch("edplink_clk_src"),
    mdss_edppixel_clk |-> Branch("edppixel_clk_src") ]

Usb30_8974 ==
  [ usb30_master_clk_src      |-> Rcg("mnd", Usb30Freqs),
    gcc_usb30_master_clk      |-> Branch("usb30_master_clk_src"),
    gcc_sys_noc_usb30_axi_clk |-> Sibling(None) ]

\* The names clients ask for: two of them lead to the same BLSP2 vote.
Lookup8974 ==
  [ sdc1_iface_clk |-> "gcc_sdcc1_ahb_clk",     sdc1_core_clk |-> "gcc_sdcc1_apps_clk",
    gcc_sdcc1_cdccal_sleep_clk |-> "gcc_sdcc1_cdccal_sleep_clk",
    gcc_sdcc1_cdccal_ff_clk |-> "gcc_sdcc1_cdccal_ff_clk",
    sdc2_iface_clk |-> "gcc_sdcc2_ahb_clk",     sdc2_core_clk |-> "gcc_sdcc2_apps_clk",
    uart12_iface_clk |-> "gcc_blsp2_ahb_clk",   uart12_core_clk |-> "gcc_blsp2_uart6_apps_clk",
    usb_iface_clk |-> "gcc_usb_hs_ahb_clk",     usb_core_clk |-> "gcc_usb_hs_system_clk",
    ce2_ahb_clk |-> "gcc_ce2_ahb_clk",          ce2_axi_clk |-> "gcc_ce2_axi_clk",
    ce2_core_clk |-> "gcc_ce2_clk",             ce2_src_clk |-> "ce2_clk_src",
    ce1_ahb_clk |-> "gcc_ce1_ahb_clk",          ce1_axi_clk |-> "gcc_ce1_axi_clk",
    ce1_core_clk |-> "gcc_ce1_clk",             ce1_src_clk |-> "ce1_clk_src",
    blsp2_ahb_clk |-> "gcc_blsp2_ahb_clk",
    blsp2_qup5_i2c_apps_clk |-> "gcc_blsp2_qup5_i2c_apps_clk",
    mdp_ahb_clk |-> "mdp_ahb_clk",              mdss_esc0_clk |-> "mdss_esc0_clk",
    mdss_esc1_clk |-> "mdss_esc1_clk",          mdss_axi_clk |-> "mdss_axi_clk",
    mmss_mmssnoc_axi_clk |-> "mmss_mmssnoc_axi_clk",
    mmss_s0_axi_clk |-> "mmss_s0_axi_clk",      mdss_vsync_clk |-> "mdss_vsync_clk",
    mdss_mdp_clk_src |-> "mdss_mdp_clk_src",    mdss_mdp_clk |-> "mdss_mdp_clk",
    mdss_mdp_lut_clk |-> "mdss_mdp_lut_clk",    edp_pixel_clk |-> "mdss_edppixel_clk",
    edp_link_clk |-> "mdss_edplink_clk",        edp_aux_clk |-> "mdss_edpaux_clk",
    usb30_iface_clk |-> "gcc_sys_noc_usb30_axi_clk",
    usb30_master_clk |-> "gcc_usb30_master_clk" ]

Clocks8974 ==
    Table(<< Sources8974, Sdcc8974, Uart8974, UsbHs8974, Ce8974, I2c8974, Display8974,
             Mdp8974, Edp8974, Usb30_8974 >>)

-----------------------------------------------------------------------------
(* msm8994-clock.c, section by section. *)

Sources8994 == [cxo |-> Cxo, gpll0 |-> Pll(6000000), gpll4 |-> Pll(16000000)]

UartFreqs8994 == Append(UartFreqs, F(631600, "gpll0", 19, 0, 0))
Uart8994 ==
  [ blsp1_uart2_apps_clk_src |-> Rcg("mnd", UartFreqs8994),
    gcc_blsp1_uart2_apps_clk |-> Branch("blsp1_uart2_apps_clk_src"),
    gcc_blsp1_ahb_clk        |-> Vote(17) ]

UsbHs8994 ==
  [ usb_hs_system_clk_src |-> Rcg("hid", UsbHsFreqs),
    gcc_usb_hs_system_clk |-> Branch("usb_hs_system_clk_src"),
    gcc_usb_hs_ahb_clk    |-> Sibling(None) ]

Sdcc1Freqs8994 ==
    SubSeq(SdccFreqs, 1, 5) \o
        << F(960000, "gpll4", 12, 0, 0), F(1920000, "gpll4", 4, 0, 0),
           F(3840000, "gpll4", 2, 0, 0) >>
Sdcc8994 ==
  [ sdcc1_apps_clk_src |-> Rcg("mnd", Sdcc1Freqs8994),
    gcc_sdcc1_apps_clk |-> Branch("sdcc1_apps_clk_src"),
    gcc_sdcc1_ahb_clk  |-> Sibling(None),
    sdcc2_apps_clk_src |-> Rcg("mnd", SdccFreqs),
    gcc_sdcc2_apps_clk |-> Branch("sdcc2_apps_clk_src"),
    gcc_sdcc2_ahb_clk  |-> Sibling(None) ]

MockUtmiFreqs == << F(600000, "gpll0", 20, 0, 0) >>
PhyAuxFreqs == << F(12000, "cxo", 32, 0, 0) >>
Usb30_8994 ==
  [ gcc_sys_noc_usb30_axi_clk |-> Sibling(None),
    gcc_usb2b_phy_sleep_clk   |-> WithBcr(Sibling(None)),
    usb30_master_clk_src      |-> Rcg("mnd", Usb30Freqs),
    gcc_usb30_master_clk      |-> WithBcr(Branch("usb30_master_clk_src")),
    usb30_mock_utmi_clk_src   |-> Rcg("hid", MockUtmiFreqs),
    gcc_usb30_mock_utmi_clk   |-> Branch("usb30_mock_utmi_clk_src"),
    gcc_usb30_sleep_clk       |-> Sibling(None),
    usb30_phy_aux_clk_src     |-> Rcg("hid", PhyAuxFreqs),
    gcc_usb30_phy_aux_clk     |-> Branch("usb30_phy_aux_clk_src"),
    gcc_usb30_pipe_clk        |-> WithBcr(Sibling(None)),
    gcc_usb30_phy_reset       |-> Reset,
    gcc_usb_phy_cfg_ahb2phy_clk |-> Sibling(None) ]

AxiFreqs8994 == Append(AxiFreqs, F_MM(3000000, "gpll0", 4, 0, 0))
Display8994 ==
  [ Display8974 EXCEPT !.mdp_axi_clk_src = RcgNoFreq("hid", AxiFreqs8994) ]

MdpFreqs8994 == Append(MdpFreqs, F_MM(3000000, "gpll0", 4, 0, 0))
Mdp8994 == [ Mdp8974 EXCEPT !.mdss_mdp_clk_src = Rcg("hid", MdpFreqs8994) ]

Edp8994 == Edp8974

HdmiPclks ==
    << 742500, 252000, 270000, 270300, 270700, 650000, 1080000, 1485000, 2685000, 2970000 >>
HdmiFreqs == [i \in 1..10 |-> F_MDSS(HdmiPclks[i], "hdmipll", 2, 0, 0)]
Hdmi8994 ==
  [ mmss_misc_ahb_clk |-> Sibling(None),
    mdss_hdmi_ahb_clk |-> Sibling(None),
    hdmi_clk_src      |-> Rcg("hid", CxoMmFreqs),
    mdss_hdmi_clk     |-> Branch("hdmi_clk_src"),
    extpclk_clk_src   |-> Rcg("hid", HdmiFreqs),
    mdss_extpclk_clk  |-> Branch("extpclk_clk_src") ]

I2cFreqs8994 == << F(192000, "cxo", 2, 0, 0), F(500000, "gpll0", 32, 0, 0) >>
I2c8994 ==
  [ gcc_blsp1_qup2_i2c_apps_clk_src |-> Rcg("hid", I2cFreqs8994),
    gcc_blsp1_qup2_i2c_apps_clk |-> Branch("gcc_blsp1_qup2_i2c_apps_clk_src") ]

Lookup8994 ==
  [ sdc1_iface_clk |-> "gcc_sdcc1_ahb_clk",     sdc1_core_clk |-> "gcc_sdcc1_apps_clk",
    sdc2_iface_clk |-> "gcc_sdcc2_ahb_clk",     sdc2_core_clk |-> "gcc_sdcc2_apps_clk",
    uart2_iface_clk |-> "gcc_blsp1_ahb_clk",    uart2_core_clk |-> "gcc_blsp1_uart2_apps_clk",
    usb_iface_clk |-> "gcc_usb_hs_ahb_clk",     usb_core_clk |-> "gcc_usb_hs_system_clk",
    usb2b_phy_sleep_clk |-> "gcc_usb2b_phy_sleep_clk",
    usb30_master_clk |-> "gcc_usb30_master_clk",
    usb30_iface_clk |-> "gcc_sys_noc_usb30_axi_clk",
    usb30_mock_utmi_clk |-> "gcc_usb30_mock_utmi_clk",
    usb30_sleep_clk |-> "gcc_usb30_sleep_clk",  usb30_phy_aux_clk |-> "gcc_usb30_phy_aux_clk",
    usb30_pipe_clk |-> "gcc_usb30_pipe_clk",    usb30_phy_reset |-> "gcc_usb30_phy_reset",
    usb_phy_cfg_ahb2phy_clk |-> "gcc_usb_phy_cfg_ahb2phy_clk",
    mdp_ahb_clk |-> "mdp_ahb_clk",              mdss_esc0_clk |-> "mdss_esc0_clk",
    mdss_esc1_clk |-> "mdss_esc1_clk",          mdss_axi_clk |-> "mdss_axi_clk",
    mmss_mmssnoc_axi_clk |-> "mmss_mmssnoc_axi_clk",
    mmss_s0_axi_clk |-> "mmss_s0_axi_clk",      mdss_vsync_clk |-> "mdss_vsync_clk",
    mdss_mdp_clk_src |-> "mdss_mdp_clk_src",    mdss_mdp_clk |-> "mdss_mdp_clk",
    mdss_mdp_lut_clk |-> "mdss_mdp_lut_clk",    mmss_misc_ahb_clk |-> "mmss_misc_ahb_clk",
    edp_pixel_clk |-> "mdss_edppixel_clk",      edp_link_clk |-> "mdss_edplink_clk",
    edp_aux_clk |-> "mdss_edpaux_clk",          hdmi_ahb_clk |-> "mdss_hdmi_ahb_clk",
    hdmi_core_clk |-> "mdss_hdmi_clk",          hdmi_extp_clk |-> "mdss_extpclk_clk",
    qupF9924000_ahb_iface_clk |-> "gcc_blsp1_ahb_clk",
    gcc_qupF9924000_i2c_apps_clk_src |-> "gcc_blsp1_qup2_i2c_apps_clk_src",
    gcc_qupF9924000_i2c_apps_clk |-> "gcc_blsp1_qup2_i2c_apps_clk" ]

Clocks8994 ==
    Table(<< Sources8994, Uart8994, UsbHs8994, Sdcc8994, Usb30_8994, Display8994, Mdp8994,
             Edp8994, Hdmi8994, I2c8994 >>)

Chips == {"msm8974", "msm8994"}
Clocks(chip) == IF chip = "msm8974" THEN Clocks8974 ELSE Clocks8994
Lookup(chip) == IF chip = "msm8974" THEN Lookup8974 ELSE Lookup8994
=============================================================================
