----------------------------- MODULE SdhPrograms -----------------------------
(***************************************************************************)
(* The handlers of oic/oicdrv/oicfops.c for cards with the FPGA of struct   *)
(* sdh_fpga_reg, as register programs (see OicPrograms for what is left     *)
(* out).  hp tells which of the two FPGA types, oicdev->sdhtype, the card   *)
(* has: high order or low order paths.                                      *)
(***************************************************************************)
EXTENDS RegProgram

Idx3 == <<0, 1>>  \* bound of every loop

ChEn(e1, en) ==
  Locked(Put1("sw_ch_sel", Own) \o Put1("sw_e1_sel", e1) \o Put1("sw_ch_en", en)
           \o Put1("sw_cfg_en", 0) \o StoreAt("sw_cfg_en", 1, "ch_en", <<Own, e1>>, <<en>>))
sdh_cfg_channle_en(hp, en) == ChEn(IF hp THEN 0 ELSE Own, en)

\* The list that maps paths to au4 has no further address and no ratio.
Unless_au4(type, x) == IF type = "hp_to_lp_au4" THEN 0 ELSE x
\* Mutant: the strobe is not taken back, so that it has no edge.
ListEntry_NoEdge(type, chan, ext, sel, hi) ==
  Locked(Put1("cfg_type", type) \o Put1("cfg_ch", chan) \o Put1("ext_reg", ext)
           \o Put1("info_l", sel) \o Put1("info_h", hi)
           \o StoreAt("list_en", 1, "list", <<type, chan, ext>>, <<sel, hi>>))
ListEntry(type, chan, ext, sel, hi) ==
  Locked(Put1("cfg_type", type) \o Put1("cfg_ch", chan) \o Put1("ext_reg", ext)
           \o Put1("info_l", sel) \o Put1("info_h", hi) \o Put1("list_en", 0)
           \o StoreAt("list_en", 1, "list", <<type, chan, ext>>, <<sel, hi>>))
sdh_cfg_rule(type, chan, addr, sel, ratio) ==
  ListEntry(type, chan, Unless_au4(type, addr), sel, Unless_au4(type, ratio))

\* A rule spreads the calls of a protocol over selectors; the others get none.
SelRule(type, valid_num) ==
  LET One(i) == IF i < valid_num THEN sdh_cfg_rule(type, Own, i, Own, 1)
                                 ELSE sdh_cfg_rule(type, Own, i, 0, 0)
  IN Each(Idx3, One)
set_local_rule(hp, n)  == SelRule(IF hp THEN "hp_local" ELSE "lp_local", n)
set_global_rule(hp, n) == SelRule(IF hp THEN "hp_global" ELSE "lp_global", n)

\* The source is off while its rule changes.  Each part is a section of its own.
set_inner_rule(enable) ==
  sdh_cfg_channle_en(TRUE, 0)
    \o IF enable THEN sdh_cfg_rule("hp_to_lp_sel", Own, 0, Own, 1)
                        \o sdh_cfg_rule("hp_to_lp_au4", Own, 0, Own, 0)
                        \o sdh_cfg_channle_en(TRUE, 1)
       ELSE <<>>

\* An E1: whose it is, which selectors it has, and at last that it is on.  An
\* unknown kind of rule ends the call before the last two.
E1Map(user, dev, sels, byRule, rule, last) ==
  LET Entry(type) == sdh_cfg_rule(type, Own, Own, Own, Own)
  IN Entry(user) \o Entry(dev) \o Each(sels, Entry)
       \o IF rule \in DOMAIN byRule THEN Entry(byRule[rule]) \o last ELSE <<>>
On == sdh_cfg_channle_en(FALSE, Own)

set_e1user(rule) ==
  E1Map("e1user", "devmap", <<>>,
        [local |-> "local_e1user", global |-> "global_e1user"], rule, On)
set_e1linkmap(rule) ==
  E1Map("e1user", "devmap", <<"lp_sel">>,
        [local |-> "local_lm", global |-> "global_lm"], rule, On)
set_e164k(rule) ==
  E1Map("e1user", "devmap", <<"64kppp_sel">>,
        [local |-> "local_64kppp", global |-> "global_64kppp"], rule, On)
set_e1gfp(rule) ==
  E1Map("e1gfp_user", "e1gfp_devmap", <<>>,
        [local |-> "local_e1gfp", global |-> "global_e1gfp"], rule, <<>>)

set_sel        == Locked(Put1("selnum3", Own))
set_board_info == Locked(Put1("fpgaid", Own) \o Put1("chassisid_slot", Own))
get_board_info == Bare(Plain("startup") \o Plain("ver") \o Plain("fpgaid"))
\* Mutant: returns without mutex_unlock.
get_e1_info_Held ==
  LET One(x) == Put1("cfg_refer", x) \o Read1("refer", <<x>>)
  IN Abandoned(Each(<<48, 49, 49, 50>>, One))
get_e1_info ==
  LET One(x) == Put1("cfg_refer", x) \o Read1("refer", <<x>>)
  IN Locked(Each(<<48, 49, 49, 50>>, One))

\* Counters.  A failing select inside sdh_board_stat is not noticed by its caller.
set_board_stat ==
  LET sdh_board_stat(x) == Put1("mis_cnt_sel", x) \o Read1("mis_cnt", <<x>>)
  IN Heedless(Each(<<16, 17, 18>>, sdh_board_stat))

\* The clear bit is toggled, or the unit of the counters chosen; both are parts of
\* one register.
set_board_stat_type(type) ==
  LET Set(part, v) == Load1("mis_cnt_clr") \o Set1("modify", "mis_cnt_clr", part, [old \in {0, 1} |-> v])
  IN Locked(CASE type = "clear" -> Set("clr", 0) \o Set("clr", 1)
              [] type = "pkts"  -> Set("unit", 0)
              [] type = "bytes" -> Set("unit", 1))
=============================================================================
