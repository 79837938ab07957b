SPECIFICATION FairSpec
CONSTANTS
  Prog <- IoctlCalls
  Windows <- CardWindows
  First <- FirstValues
  p1 = p1
  p2 = p2
  Proc = {p1, p2}
  Nil = Nil
  Own = Own
  Soft = {"g_channel1", "g_channel2", "tbl", "tblslot"}
  Careless = {"set_board_stat", "get_runinfo_ex_clear", "get_channel2global", "get_try_group",
              "get_group", "set_hdlc_cfg", "get_hdlc_ge_stat", "get_hdlc_ge_stat_clear"}
  MaxFaults = 1
  Modes = {0, 1}
  GroupRate = "c11"
INVARIANTS GroupsCommitted
CHECK_DEADLOCK FALSE
