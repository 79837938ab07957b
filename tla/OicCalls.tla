------------------------------ MODULE OicCalls ------------------------------
(***************************************************************************)
(* The calls of the interface card driver and the windows of its cards: the *)
(* commands of oic_ioctl, several times where the arguments decide which    *)
(* registers are accessed.                                                  *)
(***************************************************************************)
EXTENDS OicPrograms, GfpPrograms, SdhPrograms, TLC

CONSTANTS
  Modes,    \* modes of the link map that callers set
  GroupRate \* channel rate of the groups they set: "c12", "c4" or "c11"

Groups == <<[id |-> 0, links |-> 2], [id |-> 256, links |-> 1],
            [id |-> 1, links |-> 0], [id |-> 1, links |-> 1]>>
\* Both calls go through set_info_rule: a list of one is enough for the second.
TryGroups == <<[id |-> 1, links |-> 1]>>

OicCalls ==
  [get_fpga_version |-> get_fpga_version, get_ddr_status |-> get_ddr_status,
   set_bd_startup |-> set_bd_startup, get_bd_startup |-> get_bd_startup,
   set_synctime |-> set_synctime,
   set_cfg |-> set_cfginfo(Cfg, {"ethertype", "slot"}),
   get_cfg |-> get_cfginfo(Cfg, {"ethertype", "slot"}),
   set_cfg_ex |-> set_cfginfo(CfgEx, {"devid", "slotex"}),
   get_cfg_ex |-> get_cfginfo(CfgEx, {"dstip", "devid"}),
   get_runinfo |-> get_runinfo, get_in_stat |-> get_in_stat,
   set_64k_ch_tran |-> set_64k_ch_tran, set_2m_ch_tran |-> set_2m_ch_tran,
   set_2m_ch_valid |-> set_2m_ch_valid, get_2m_ch_valid |-> get_2m_ch_valid,
   set_pl_cfgch |-> set_pl_cfgch({0} \cup Proc), set_pl_rstch |-> set_pl_rstch,
   set_pl_tbl_info |-> set_pl_tbl_info, set_pl_age_ch |-> set_pl_age_ch,
   get_pl_match |-> get_pl_match, get_is_sigch |-> get_is_sigch,
   set_silence_range |-> set_silence_range, get_silence_range |-> get_silence_range,
   get_silence_result |-> get_silence_result,
   set_silence_timeout |-> set_silence_timeout, get_silence_timeout |-> get_silence_timeout]

ModeName == <<"set_pl_mode_0", "set_pl_mode_1", "set_pl_mode_2", "set_pl_mode_3">>
ModeCalls == [n \in {ModeName[m + 1] : m \in Modes} |->
                set_pl_mode((CHOOSE i \in 1 .. 4 : ModeName[i] = n) - 1)]

GfpCalls ==
  [get_au4_status |-> get_au4_status, get_slink_info |-> get_slink_info,
   get_slink_info_hp |-> get_slink_info_hp,
   get_runinfo_ex |-> get_runinfo_ex(FALSE), get_runinfo_ex_clear |-> get_runinfo_ex(TRUE),
   set_slink_info_start |-> set_slink_info_start, set_slink_info_end |-> set_slink_info_end,
   get_channel2global |-> get_channel2global,
   get_try_result |-> get_try_result(TRUE), get_try_result_none |-> get_try_result(FALSE),
   get_try_group |-> get_try_group, get_group |-> get_group,
   set_hdlc_cfg |-> set_hdlc_cfg, get_hdlc_ge_stat |-> get_hdlc_ge_stat(FALSE),
   get_hdlc_ge_stat_clear |-> get_hdlc_ge_stat(TRUE),
   get_hdlc_chstat |-> get_hdlc_chstat, get_hdlc_local_schan |-> get_hdlc_local_schan,
   get_hdlc_config_schan |-> get_hdlc_config_schan, get_hdlc_db_status |-> get_hdlc_db_status,
   set_spu_selnum |-> set_spu_selnum, get_spu_selnum |-> get_spu_selnum,
   set_forward_on |-> set_forward(1), set_forward_off |-> set_forward(0),
   set_forward_rule |-> set_forward_rule,
   forward_1_on |-> set_channel_forward(0, "one", 1),
   forward_1_off |-> set_channel_forward(0, "one", 0),
   forward_2_on |-> set_channel_forward(0, "two", 1),
   forward_33_on |-> set_channel_forward(1, "one", 1)]

GroupCalls == [set_group |-> set_group(GroupRate, Groups),
               set_try_group |-> set_try_group("c4", TryGroups)]

SdhCalls ==
  [set_local_rule |-> set_local_rule(FALSE, 1), set_local_rule_hp |-> set_local_rule(TRUE, 2),
   set_global_rule |-> set_global_rule(FALSE, 1), set_global_rule_hp |-> set_global_rule(TRUE, 0),
   set_inner_rule |-> set_inner_rule(TRUE), set_inner_rule_off |-> set_inner_rule(FALSE),
   set_e1user |-> set_e1user("local"), set_e1linkmap |-> set_e1linkmap("global"),
   set_e164k |-> set_e164k("other"), set_e1gfp |-> set_e1gfp("global"),
   set_sel |-> set_sel, set_board_info |-> set_board_info, get_board_info |-> get_board_info,
   get_e1_info |-> get_e1_info, set_board_stat |-> set_board_stat,
   stat_clear |-> set_board_stat_type("clear"), stat_pkts |-> set_board_stat_type("pkts"),
   stat_bytes |-> set_board_stat_type("bytes")]

IoctlCalls == OicCalls @@ ModeCalls @@ GfpCalls @@ GroupCalls @@ SdhCalls
-----------------------------------------------------------------------------
(* The windows.  Without a strobe what is read follows the select registers; *)
(* Fetched windows copy the content to a register of their own.              *)
Window(addr, data, dir, rd, out, plain) ==
  [addr |-> addr, data |-> data, dir |-> dir, rd |-> rd, out |-> out, plain |-> plain]
Win(addr, data) == Window(addr, data, NoReg, NoReg, NoReg, NoReg)
Fetched(addr, data, rd, out) == Window(addr, data, NoReg, rd, out, NoReg)
PlainRegs == {"vrr", "dar", "dsr", "bcr", "etr", "srl", "srh", "tout", "tbl", "tblslot",
              "scan_status", "selnum", "startup", "ver", "fpgaid"}
ScanAt == <<"addr_h", "addr_l">>

OicWindows ==
  [time |-> Win(<<>>, <<"ser", "usr">>),
   cfg |-> Fetched(<<"itr">>, <<"wvr">>, "rer", "rvr"),
   oir |-> Win(<<"ptr">>, <<>>), auptr |-> Win(<<"ptr">>, <<>>), eccr |-> Win(<<"ptr">>, <<>>),
   chnum |-> Win(<<"ptr", "str">>, <<>>), frames |-> Win(<<"ptr", "str">>, <<>>),
   v5 |-> Win(<<"ptr", "enr">>, <<>>), sync |-> Win(<<"ptr", "enr">>, <<>>),
   bvr |-> Win(<<"bsr">>, <<>>),
   tran64k |-> Win(<<"btcr">>, <<"btvr">>), tran2m |-> Win(<<"tbcr">>, <<"tbvr">>),
   valid |-> Window(<<"vcr">>, <<"wrr">>, "sel", NoReg, "rdr", NoReg),
   cic |-> Win(<<"cicr">>, <<"csr">>),
   sig |-> Win(<<"adr0", "adr1">>, <<>>), silence |-> Win(<<"schr", "sclr">>, <<>>)]

GfpWindows ==
  [info |-> Win(<<"select_port", "select_chan", "select_info">>, <<>>),
   ram1 |-> Win(<<"mif_cfg_op", "ram_group", "ram_addr">>, <<"d3", "d2", "d1", "d0">>),
   ram2 |-> Win(<<"mif_cfg_op", "ram_group", "ram_addr">>, <<"d0">>),
   commit |-> Win(<<"mif_cfg_op">>, <<>>),
   rams |-> Win(<<"mif_cfg_op", "ram_addr", "select_info">>, <<>>),
   scan_res |-> Win(<<"group_id">>, <<>>), ge_stat |-> Win(<<"ge", "select_info">>, <<>>),
   svc |-> Win(<<"cfg_op">>, <<"cfg_data">>),
   scan1 |-> Fetched(ScanAt, <<>>, "scan_op", "scan_data"),
   scan2 |-> Fetched(ScanAt, <<>>, "scan_op", "scan_data"),
   scan4 |-> Fetched(ScanAt, <<>>, "scan_op", "scan_data"),
   scan5 |-> Fetched(ScanAt, <<>>, "scan_op", "scan_data"),
   rule |-> Win(<<"list_ch">>, <<"rule_h", "rule_l">>), mask |-> Win(<<"reg_sel">>, <<"reg_val">>)]

SdhWindows ==
  [ch_en |-> Win(<<"sw_ch_sel", "sw_e1_sel">>, <<"sw_ch_en">>),
   list |-> Win(<<"cfg_type", "cfg_ch", "ext_reg">>, <<"info_l", "info_h">>),
   refer |-> Win(<<"cfg_refer">>, <<>>), mis_cnt |-> Win(<<"mis_cnt_sel">>, <<>>)]

CardWindows == OicWindows @@ GfpWindows @@ SdhWindows
          @@ [r \in PlainRegs |-> Window(<<>>, <<>>, NoReg, NoReg, NoReg, r)]

Halves == [one |-> 0, two |-> 0]
\* The registers that are not 0 at first, and their values.
FirstValues ==
  [csr |-> [mode |-> 0, ts |-> 0], mis_cnt_clr |-> [clr |-> 0, unit |-> 0],
   g_channel1 |-> Halves, g_channel2 |-> Halves, reg_val |-> Halves,
   rvr |-> <<>>, rdr |-> <<>>, scan_data |-> <<>>, scan_op |-> <<0, 0>>, task_sel |-> "-", cfg_type |-> "-",
   cfg_op |-> "-"]
=============================================================================
