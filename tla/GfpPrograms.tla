----------------------------- MODULE GfpPrograms -----------------------------
(***************************************************************************)
(* The handlers of oic/oicdrv/oicfops.c for cards with the FPGA of struct   *)
(* gfp_fpga_reg, as register programs (see OicPrograms for what is left     *)
(* out).  The build without IN_X86, which no makefile defines.              *)
(***************************************************************************)
EXTENDS RegProgram

Idx2 == <<0, 1>>  \* bound of every loop

(* Information of a port and channel: three select registers, no strobe. *)

get_info_rule(port, chan, info) ==
  Locked(Put1("select_port", port) \o Put1("select_chan", chan)
           \o Put1("select_info", info) \o Read1("info", <<port, chan, info>>))
EachInfo(port, chan) == LET One(j) == get_info_rule(port, chan, j) IN Each(Idx2, One)

get_au4_status     == Ignored(EachInfo(Own, 0))
get_slink_info     == EachInfo(Own, Own)
get_slink_info_hp  == EachInfo(Own, 0)
get_runinfo_ex(clear) ==
  LET Port1(i) == EachInfo(i, 0)
  IN (IF clear THEN Bare(Put1("clear_bcode", 15) \o Put1("clear_bcode", 0)) ELSE <<>>)
       \o Each(Idx2, Port1)
set_slink_info_start == Locked(Put1("refresh_en", 0))
set_slink_info_end   == Locked(Put1("refresh_en", 1))
get_channel2global   ==
  Bare(Put1("select_port", Own) \o Put1("select_chan", Own) \o Put1("select_info", 9)
         \o Read1("info", <<Own, Own, 9>>))
-----------------------------------------------------------------------------
(* Groups.  An entry of the first RAM has the number of links of the group  *)
(* and where they start in the second RAM; mix & 4 selects the RAM, an edge *)
(* of mix & 2 stores, an edge of mix & 1 commits.  A group is [id, links].  *)

MaxGroup == 256  \* TRY_GROUP_MAXNUM, SET_GROUP_MAXNUM, TRY_LINK_MAXNUM, SET_LINK_MAXNUM

\* Mutant: C12 is not known.
GroupOp_NoC12(type, rate) == IF rate = "c4" THEN IF type = "try" THEN 3 ELSE 4 ELSE 0

\* The value of mif_cfg_op, or 0 where the handler gives up.
GroupOp(type, rate) ==
  CASE rate = "c4"  -> IF type = "try" THEN 3 ELSE 4
    [] rate = "c12" -> IF type = "try" THEN 1 ELSE 2
    [] OTHER        -> 0

\* The steps for group g, whose links start at from (8 bits of address).
LinkSteps(op, from, j) ==
  LET a == (from + j) % 256
  IN Put1("ram_addr", a) \o Put1("d0", Own) \o Put1("mix", 4)
       \o StoreAt("mix", 6, "ram2", <<op, Own, a>>, <<Own>>)
GroupSteps(op, g, from) ==
  LET Link(j) == LinkSteps(op, from, j)
  IN Put1("ram_addr", g.id) \o Put1("mix", 0)
       \o IF g.links \notin 1 .. MaxGroup THEN <<>>
          ELSE Put1("d3", op) \o Put1("d2", g.links) \o Put1("d1", from % 256) \o Put1("d0", Own)
                 \o Put1("mix", 0)
                 \o StoreAt("mix", 2, "ram1", <<op, Own, g.id>>,
                            <<op, g.links, from % 256, Own>>)
                 \o Put1("mix", 4) \o Each([i \in 1 .. g.links |-> i - 1], Link)

\* A group with an id out of range is skipped, one with a wrong number of links
\* after its address was set; an unknown rate returns with the lock held.
set_info_rule(type, rate, groups) ==
  LET op == GroupOp(type, rate)
      valid == SelectSeq(groups, LAMBDA g : g.id < MaxGroup)
      One(acc, g) ==
        [steps |-> acc.steps \o GroupSteps(op, g, acc.from),
         from  |-> IF g.links \in 1 .. MaxGroup THEN acc.from + g.links ELSE acc.from]
      all == FoldLeft(One, [steps |-> <<>>, from |-> 0], valid)
      start == Put1("ram_group", Own)
  IN IF op = 0
     THEN Abandoned(start)
     ELSE Locked(start \o Put1("mif_cfg_op", op) \o all.steps
                   \o Put1("mix", 0) \o StoreAt("mix", 1, "commit", <<op>>, <<>>))

set_group(rate, groups)     == set_info_rule("set", rate, groups)
set_try_group(rate, groups) == set_info_rule("try", rate, groups)

get_try_result(ready) ==
  LET Group(i) == Put1("group_id", i) \o Read1("scan_res", <<i>>)
  IN Bare(Plain("scan_status")) \o (IF ready THEN Locked(Each(Idx2, Group)) ELSE <<>>)

\* The RAMs are read through the select registers of get_info_rule, without the lock;
\* the two calls differ in what they read of an entry, so that one entry is enough for
\* the first.
ReadRams(ids, infos) ==
  LET Entry(i) == LET Info(x) == Put1("select_info", x) \o Read1("rams", <<128, i, x>>)
                  IN Put1("ram_addr", i) \o Each(infos, Info)
  IN Bare(Put1("mif_cfg_op", 128) \o Each(ids, Entry))
get_try_group == ReadRams(<<0>>, <<32, 35>>)
get_group     == ReadRams(Idx2, <<33, 34, 35>>)
-----------------------------------------------------------------------------
(* HDLC.  The settings and the statistics of the GE ports take no lock.     *)

HdlcPart(op) ==
  Put1("task_sel", "hdlc") \o Put1("cfg_op", op) \o Put1("cfg_data", Own)
    \o StoreAt("task_sel", "hdlc|80", "svc", <<op>>, <<Own>>)
set_hdlc_cfg == Bare(HdlcPart("len") \o HdlcPart("scan_mode"))

get_hdlc_ge_stat(clear) ==
  LET Ge(i) == LET Info(x) == Put1("select_info", x) \o Read1("ge_stat", <<i, x>>)
               IN Put1("ge", i) \o Each(<<18, 19>>, Info)
  IN Bare((IF clear THEN Put1("ge_clr", 0) \o Put1("ge_clr", 1) ELSE <<>>)
            \o Each(Idx2, Ge))

\* Table k of the scan: the entry is fetched on the edge of the strobe bit.
ScanTable(w, k) ==
  LET Entry(i) ==
        Put1("scan_op", <<k, 0>>) \o Put1("addr_h", i) \o Put1("addr_l", 0)
          \o FetchAt("scan_op", <<k, 1>>, w, <<i, 0>>) \o Read1(w, <<i, 0>>)
  IN Each(Idx2, Entry)
get_hdlc_chstat       == Locked(ScanTable("scan4", 4))
get_hdlc_local_schan  ==
  Locked(Put1("task_sel", "hdlc") \o Put1("task_sel", "hdlc|80") \o ScanTable("scan1", 1))
get_hdlc_config_schan == Locked(Put1("task_sel", "hdlc|80") \o ScanTable("scan2", 2))
get_hdlc_db_status    == Locked(Put1("task_sel", "hdlc|80") \o ScanTable("scan5", 5))
-----------------------------------------------------------------------------
(* Forwarding.  g_channel1 and g_channel2 are what the driver last wrote to  *)
(* the two halves of the channel mask; a channel of a half is "one" or "two".*)

set_spu_selnum  == Locked(Put1("selnum", Own))
get_spu_selnum  == Locked(Plain("selnum"))
set_forward(en) == Locked(Put1("forward_en", en))
set_forward_rule ==
  Locked(Put1("list_ch", Own) \o Put1("rule_h", Own) \o Put1("rule_l", Own) \o Put1("rule_en", 0)
           \o StoreAt("rule_en", 1, "rule", <<Own>>, <<Own, Own>>))
set_channel_forward(half, ch, flag) ==
  LET shadow == IF half = 0 THEN "g_channel1" ELSE "g_channel2"
  IN Locked(Put1("reg_sel", half)
              \o Load1(shadow) \o Set1("modify", shadow, ch, [old \in {0, 1} |-> flag])
              \o Load1(shadow) \o Set1("pass", "reg_val", ch, [old \in {0, 1} |-> old])
              \o Put1("reg_cfg_en", 0) \o StoreAt("reg_cfg_en", 1, "mask", <<half>>, <<>>))
=============================================================================
