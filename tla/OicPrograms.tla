----------------------------- MODULE OicPrograms -----------------------------
(***************************************************************************)
(* The handlers of oic/oicdrv/oicfops.c for cards with the FPGA of struct   *)
(* fpga_reg, as register programs.  A register of several bytes is one      *)
(* register here, and a loop over ports, channels, bytes, selectors or      *)
(* entries runs over Idx.  What a caller asks for is its mark, Own; only    *)
(* arguments that decide which registers are accessed are parameters.       *)
(***************************************************************************)
EXTENDS RegProgram

Idx == <<0, 1>>  \* bound of every loop
-----------------------------------------------------------------------------
(* Version, start-up and time. *)

get_fpga_version == Locked(Plain("vrr") \o Plain("dar"))
get_ddr_status   == Locked(Plain("dsr"))
set_bd_startup   == Locked(Put1("bcr", Own))
get_bd_startup   == Locked(Plain("bcr"))
set_synctime     == Locked(Put1("ser", Own) \o Put1("usr", Own) \o Put1("ter", 0)
                             \o StoreAt("ter", 1, "time", <<>>, <<Own, Own>>))

(* The information of the board: one locked section for each field that the *)
(* mask selects, in this order, and one window access for each byte.        *)
Cfg   == <<"dstmac", "srcmac", "ethertype", "slot">>
CfgEx == <<"dstmac", "srcmac", "dstip", "srcip", "dstport", "srcport", "devid", "slotex">>
ByteSel ==
  [dstmac |-> <<0, 1>>, srcmac |-> <<16, 17>>, ethertype |-> <<33, 32>>, slot |-> <<48>>,
   dstip |-> <<35, 34>>, srcip |-> <<51, 50>>, dstport |-> <<65, 64>>,
   srcport |-> <<81, 80>>, devid |-> <<97, 96>>, slotex |-> <<112>>]

PutByte(a) == Put1("itr", a) \o Put1("wvr", Own) \o Put1("wer", 0)
                \o StoreAt("wer", 1, "cfg", <<a>>, <<Own>>)
GetByte(a) == Put1("itr", a) \o Put1("rer", 0) \o FetchAt("rer", 1, "cfg", <<a>>)
                \o Read1("cfg", <<a>>)
Masked(order, mask) == SelectSeq(order, LAMBDA f : f \in mask)

set_cfginfo(order, mask) ==
  LET Field(f) == Locked(Each(ByteSel[f], PutByte)) IN Each(Masked(order, mask), Field)
get_cfginfo(order, mask) ==
  LET Field(f) == Locked(Each(IF f = "ethertype" THEN <<32, 33>> ELSE ByteSel[f], GetByte))
  IN Each(Masked(order, mask), Field)
-----------------------------------------------------------------------------
(* Run information and statistics of the ports. *)

get_runinfo ==
  LET Rate(i, s) == Put1("str", s) \o Read1("chnum", <<i, s>>) \o Read1("frames", <<i, s>>)
      Of(i) == Put1("ptr", i) \o Read1("oir", <<i>>) \o Rate(i, 0) \o Rate(i, 1)
  IN Locked(Each(Idx, Of) \o Plain("etr"))

get_in_stat ==
  LET Bcode(i) == LET One(k) == Put1("bsr", 3 * i + k) \o Read1("bvr", <<3 * i + k>>)
                  IN Each(<<0, 1, 2>>, One)
      Auptr(i) == Put1("ptr", i) \o Read1("auptr", <<i>>)
      V5(i)   == LET E1(j) == Put1("enr", j) \o Read1("v5", <<i, j>>)
                 IN Put1("ptr", i) \o Each(Idx, E1)
      Sync(i) == LET E1(j) == Put1("enr", j) \o Read1("sync", <<i, j>>)
                 IN Put1("ptr", i) \o Read1("eccr", <<i>>) \o Each(Idx, E1)
  IN Locked(Each(Idx, Bcode) \o Each(Idx, Auptr) \o Each(Idx, V5) \o Each(Idx, Sync))

(* Channels that are transferred, and their validity. *)
set_64k_ch_tran ==
  Locked(Put1("btcr", Own) \o Put1("btvr", Own) \o Put1("bter", 0)
           \o StoreAt("bter", 1, "tran64k", <<Own>>, <<Own>>))
set_2m_ch_tran ==
  Locked(Put1("tbcr", Own) \o Put1("tbvr", Own) \o Put1("tber", 0)
           \o StoreAt("tber", 1, "tran2m", <<Own>>, <<Own>>))
set_2m_ch_valid ==
  Locked(Put1("sel", 0) \o Put1("vcr", Own) \o Put1("wrr", Own) \o Put1("ver", 0)
           \o StoreAt("ver", 1, "valid", <<Own>>, <<Own>>))
get_2m_ch_valid ==
  Locked(Put1("sel", 1) \o Put1("vcr", Own) \o Put1("ver", 0)
           \o FetchAt("ver", 1, "valid", <<Own>>) \o Read1("valid", <<Own>>))
-----------------------------------------------------------------------------
(* The link map.  The two low bits of csr are the mode, the others the time  *)
(* slot of the channel.  The table of matches, tbl, belongs to the driver.   *)

\* (data & 0xfd) | (mode & 0x03): bit 0 of the mode before is kept.
NewMode(m) == [old \in 0 .. 3 |-> IF old % 2 = 1 /\ m % 2 = 0 THEN m + 1 ELSE m]

\* Mutant: without the lock.
set_pl_mode_Bare(m) == Bare(Load1("csr") \o Set1("modify", "csr", "mode", NewMode(m)))
set_pl_mode(m) == Locked(Load1("csr") \o Set1("modify", "csr", "mode", NewMode(m)))

set_pl_cfgch(slots) ==
  Locked(Put1("cicr", Own) \o Load1("csr")
           \o Set1("modify", "csr", "ts", [old \in slots |-> Own])
           \o Put1("cer", 0) \o StoreAt("cer", 1, "cic", <<Own>>, <<>>))
set_pl_rstch    == Locked(Put1("tbl", 0) \o Put1("plr", 1) \o Put1("plr", 0))
set_pl_tbl_info == Locked(Put1("tblslot", Own))
set_pl_age_ch   ==
  Locked(Put1("age1", 0) \o Put1("age1", 1) \o Put1("age2", 0) \o Put1("age2", 1))

\* The table is filled under the lock and copied to the caller after it.
get_pl_match == Locked(Put1("plr", 2) \o Put1("plr", 0) \o Put1("tbl", 1)
                         \o Put1("plr", 4) \o Put1("plr", 0) \o Put1("tbl", 2))
                  \o Bare(Plain("tbl") \o Plain("tblslot"))

(* Signalling channels and silence. *)
get_is_sigch ==
  LET Entry(i) == Put1("adr0", i) \o Put1("adr1", 16) \o Read1("sig", <<i, 16>>)
  IN Locked(Each(Idx, Entry) \o Put1("adr1", 16) \o Put1("adr1", 48) \o Put1("adr1", 0))
set_silence_range   == Locked(Put1("srl", Own) \o Put1("srh", Own))
get_silence_range   == Locked(Plain("srl") \o Plain("srh"))
get_silence_result  ==
  Locked(Put1("schr", Own) \o Put1("sclr", Own) \o Read1("silence", <<Own, Own>>))
set_silence_timeout == Locked(Put1("tout", Own))
get_silence_timeout == Locked(Plain("tout"))
=============================================================================
