\* Both tables, several groups of clients: one clock alone under the MMC set-up
\* calls, branches that share a root, votes that share a register (two names of
\* one clock among them), roots that share a PLL, a branch without its own rate
\* and a reset line.
CONSTANTS
    ChipsUsed = {"msm8974", "msm8994"}
    NameGroups = {{"sdc1_core_clk"}, {"mdss_axi_clk", "mmss_s0_axi_clk"},
                  {"ce2_ahb_clk", "uart12_iface_clk", "blsp2_ahb_clk"},
                  {"ce2_src_clk", "uart12_core_clk"},
                  {"mdss_mdp_clk", "usb30_phy_reset", "blsp2_qup5_i2c_apps_clk"}}
    Slots = {1}
    Rates = {160000, 192000, 1000000}
    LeftOn = {"gcc_sdcc1_apps_clk"}
    MaxCount = 2
    MaxSource = 3
SPECIFICATION ClockSpec
CHECK_DEADLOCK FALSE
INVARIANT BooksMatchHardware
INVARIANT RateAsRecorded
INVARIANT MmcClockServed
PROPERTY CallsAreLocal
