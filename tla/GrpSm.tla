-------------------------------- MODULE GrpSm --------------------------------
(***************************************************************************)
(* The search for the virtual groups of a fiber: the library grpsm          *)
(* (oic/oiclib/grpsm.c) and the study of the cascade application that drives*)
(* it (oic/cascade/cascadeapp.c).                                           *)
(*                                                                          *)
(* A link is a channel of the fiber; what its overhead says of it is the    *)
(* sequence number sq in its virtual group, the multiframe number mfi, and  *)
(* with LCAS the group identifier and whether it is the last member.  Which *)
(* links belong together is not known.  grpsm_get gives candidates, the     *)
(* board tries them in batches of at most MaxLink links, study reports how  *)
(* many were tried and which carried frames, and asks for more until        *)
(* grpsm_get has none.  LCAS groups are given once, at first.  Groups of    *)
(* plain virtual concatenation are given one length per round; the round is *)
(* repeated with the links that are left when not all of it was tried.      *)
(*                                                                          *)
(* What was really sent is not known to the program: the groups of the far  *)
(* end, and whether the board is honest and confirms these only.            *)
(***************************************************************************)
EXTENDS Integers, SequencesExt

CONSTANTS
  MaxSent,   \* bound: virtual groups of a fiber
  MaxLen,    \* bound: links of a virtual group
  Services,  \* service types of the links
  Mfis,      \* multiframe numbers of the links
  Gids,      \* group identifiers, of links with LCAS
  MfiDist,   \* multiframe numbers are counted modulo this
  Threshold, \* GRPSM_LO_MFI_DELTA_THRESHOLD
  MaxLink    \* MAX_LINK: the links the board tries at a time

ASSUME GrpSmAssumption ==
  /\ MaxSent \in Nat /\ MaxLen \in Nat \ {0}
  /\ MfiDist \in Nat /\ Mfis \subseteq 0 .. MfiDist - 1
  /\ Threshold \in Nat
  /\ {} \notin Gids \* pre_gid and cur_gid
  /\ MaxLink \in Nat /\ MaxLen <= MaxLink

VARIABLES
  sent,       \* the virtual groups of the fiber
  honest,     \* the board confirms nothing but groups that were sent
  pc,         \* "get", "try"; "done" at the end of study, "quit" when it is stopped
  lcas,       \* fiber->lcas: the links with LCAS, a bundle for every service
  vcs,        \* fiber->vcs: the other links, [sqlinks, sq_status, sq_pre]
  lcas_got, vc_partial,
  given,      \* m_objGroupCfg: the groups given last
  tried,      \* m_nPreTryGroupNum: how many of them have been tried
  passed,     \* the ones with result = 1
  confirmed,  \* m_objSetGroup: the groups confirmed
  offered, attempted  \* history: groups given and groups tried for this fiber

ctl  == <<lcas, vcs, lcas_got, vc_partial>>
vars == <<sent, honest, pc, ctl, given, tried, passed, confirmed, offered, attempted>>

Sq == 0 .. MaxLen - 1

\* A virtual group as it is sent; not every member is received (vc_valid).
Groups(l, gids) ==
  [svc : Services, len : 1 .. MaxLen, mfi : Mfis, lcas : {l}, gid : gids, lost : {-1} \cup Sq]
Plains == {g \in Groups(FALSE, {{}}) : g.lost = -1}
Anys   == {g \in Groups(FALSE, {{}}) \cup Groups(TRUE, Gids) : g.lost < g.len}
\* The fleets of a run: whole groups without LCAS, or fewer groups of any kind with
\* at most one member missing.  The services are named in the order of the links.
Fleets ==
  LET few == UNION {[1 .. n -> Anys] : n \in 1 .. MaxSent - 1}
  IN {s \in [1 .. MaxSent -> Plains]
            \cup {f \in few : \A i, j \in DOMAIN f : f[i].lost # -1 /\ f[j].lost # -1 => i = j} :
        \A svc \in Services : s[1].svc <= svc}

Whole(n)    == [i \in 1 .. sent[n].len |-> <<n, i - 1>>]
Received(n) == sent[n].lost = -1

\* The link table of the fiber, by channels: the members of the groups one after the other.
LinkInfo(s) ==
  FlattenSeq([n \in DOMAIN s |->
    [i \in 1 .. s[n].len |->
       [channel |-> <<n, i - 1>>, vc_valid |-> s[n].lost # i - 1, svc_type |-> s[n].svc,
        is_lcas |-> s[n].lcas, is_last_member |-> i = s[n].len,
        mfi |-> s[n].mfi, sq |-> i - 1, gid |-> s[n].gid]]])
-----------------------------------------------------------------------------
\* The elements of s that are in S, in their order.
Keep(s, S) == FlattenSeq([i \in DOMAIN s |-> IF s[i] \in S THEN <<s[i]>> ELSE <<>>])

\* grpsm_init_fiber and grpsm_init_svc: the links of a service, by sequence numbers.
\* One more sequence number has never links, so that there is a first free one.
ServicesOf(links) ==
  FlattenSeq([i \in DOMAIN links |->
    IF \E j \in 1 .. i - 1 : links[j].svc_type = links[i].svc_type THEN <<>> ELSE <<links[i].svc_type>>])
Usable(links, is_lcas) == Keep(links, {l \in Range(links) : l.vc_valid /\ l.is_lcas = is_lcas})
Bundles(links, is_lcas) ==
  LET of == Usable(links, is_lcas)
      svcs == ServicesOf(of)
  IN [k \in DOMAIN svcs |-> [i \in 0 .. MaxLen |->
        Keep(of, {l \in Range(of) : l.svc_type = svcs[k] /\ l.sq = i})]]

FirstFree(sqlinks) ==
  CHOOSE i \in DOMAIN sqlinks : sqlinks[i] = <<>> /\ \A j \in 0 .. i - 1 : sqlinks[j] # <<>>

Channels(ls) == [i \in DOMAIN ls |-> ls[i].channel]

\* Mutant: the multiframe number is not compared.
Matches_Gid(lm, l) == lm.gid \cap l.gid # {}

\* grpsm_get_lcas_from_svc: for every last member, the first link that matches it
\* at each sequence number below its own.
Matches(lm, l) == lm.gid \cap l.gid # {} /\ lm.mfi = l.mfi
get_lcas_from_svc(sqlinks) ==
  LET top == FirstFree(sqlinks)
      lmlinks == FlattenSeq([i \in 1 .. top |->
                   Keep(sqlinks[top - i], {l \in Range(sqlinks[top - i]) : l.is_last_member})])
      found(lm, j) == Keep(sqlinks[j], {l \in Range(sqlinks[j]) : Matches(lm, l)})
      ok == Keep(lmlinks, {lm \in Range(lmlinks) : \A j \in 0 .. lm.sq - 1 : found(lm, j) # <<>>})
      group(lm) == [i \in 1 .. lm.sq + 1 |-> IF i = lm.sq + 1 THEN lm ELSE Head(found(lm, i - 1))]
  IN [n \in DOMAIN ok |-> Channels(group(ok[n]))]

get_lcas == FlattenSeq([k \in DOMAIN lcas |-> get_lcas_from_svc(lcas[k])])

near_mfi(blink, l) ==
  LET d == IF blink.mfi >= l.mfi THEN blink.mfi - l.mfi ELSE l.mfi - blink.mfi
  IN d <= Threshold \/ MfiDist - d <= Threshold

\* grpsm_init_sqlinks: the links that can be in one group with blink, which is at sq.
init_sqlinks(sqlinks, blink, sq) ==
  [i \in 0 .. sq |-> IF i = sq THEN <<blink>>
                     ELSE Keep(sqlinks[i], {l \in Range(sqlinks[i]) : near_mfi(blink, l)})]

\* Mutant: cm keeps the value it had for the first sequence numbers.
cfg_from_sqlinks_Cm(sqlinks, sq) ==
  LET num(i) == Len(sqlinks[i])
      cm[i \in 0 .. sq + 1] == IF i = 0 THEN 1 ELSE cm[i - 1] * num(i - 1)
  IN [x \in 1 .. cm[sq + 1] |-> [i \in 1 .. sq + 1 |->
        sqlinks[i - 1][((x - 1) % num(i - 1)) + 1].channel]]

\* Every choice of a link for each sequence number; the choice of group x at number
\* i is a digit of x (the loops over times, num and cm).  num_groups and cm are ints of
\* the code; here the product of the counts is taken to fit in them.
cfg_from_sqlinks(sqlinks, sq) ==
  LET num(i) == Len(sqlinks[i])
      cm[i \in 0 .. sq + 1] == IF i = 0 THEN 1 ELSE cm[i - 1] * num(i - 1)
  IN [x \in 1 .. cm[sq + 1] |-> [i \in 1 .. sq + 1 |->
        sqlinks[i - 1][(((x - 1) \div cm[i - 1]) % num(i - 1)) + 1].channel]]

get_vcs_from_svc_sq(sqlinks, sq) ==
  FlattenSeq([b \in DOMAIN sqlinks[sq] |->
    LET near == init_sqlinks(sqlinks, sqlinks[sq][b], sq)
    IN IF \E i \in 0 .. sq : near[i] = <<>> THEN <<>> ELSE cfg_from_sqlinks(near, sq)])

\* The length of the next round: the first sequence number from start on that has
\* more links than the next one, since groups must end there.
\* Mutant: the first one that has fewer links than the next one.
find_sq_Equal(sqlinks, start, sq_max) ==
  LET drops == {i \in start .. sq_max - 1 : Len(sqlinks[i]) < Len(sqlinks[i + 1])}
  IN IF drops = {} THEN sq_max ELSE CHOOSE i \in drops : \A j \in drops : i <= j

find_sq(sqlinks, start, sq_max) ==
  LET drops == {i \in start .. sq_max - 1 : Len(sqlinks[i]) > Len(sqlinks[i + 1])}
  IN IF drops = {} THEN sq_max ELSE CHOOSE i \in drops : \A j \in drops : i <= j

\* grpsm_get_vcs_from_svc: the state of the service after it, and the groups it gives.
get_vcs_from_svc(svc, partial) ==
  LET top == FirstFree(svc.sqlinks)
      start == IF svc.sq_status = "got" THEN svc.sq_pre + 1 ELSE 0
      sq == IF partial THEN svc.sq_pre ELSE find_sq(svc.sqlinks, start, top - 1)
  IN IF svc.sq_status = "finished" THEN [svc |-> svc, cfg |-> <<>>]
     ELSE IF ~partial /\ start > top - 1
     THEN [svc |-> [svc EXCEPT !.sq_status = "finished"], cfg |-> <<>>]
     ELSE [svc |-> [svc EXCEPT !.sq_status = "got", !.sq_pre = sq],
           cfg |-> get_vcs_from_svc_sq(svc.sqlinks, sq)]

\* Mutant: the links of the groups that passed stay.
remove_olinks_Not(svc, groups) == svc

\* grpsm_remove_olinks_from_svc: the links of the groups that passed are not free any more.
remove_olinks(svc, groups) ==
  LET taken == UNION {Range(g) : g \in groups}
  IN [svc EXCEPT !.sqlinks =
        [i \in DOMAIN @ |-> Keep(@[i], {l \in Range(@[i]) : l.channel \notin taken})]]
-----------------------------------------------------------------------------
\* grpsm_push at the start of study.  The handle is used for one fiber after the
\* other; grpsm_exit forgets what the last one left, lcas_got too.
Init ==
  /\ sent \in Fleets
  /\ honest \in BOOLEAN
  /\ pc = "get"
  /\ lcas = Bundles(LinkInfo(sent), TRUE)
  /\ vcs = LET plain == Bundles(LinkInfo(sent), FALSE) IN
           [k \in DOMAIN plain |->
              [sqlinks |-> plain[k], sq_status |-> "default", sq_pre |-> 0]]
  /\ lcas_got = FALSE /\ vc_partial = FALSE
  /\ given = <<>> /\ tried = 0 /\ passed = {}
  /\ confirmed = {} /\ offered = {} /\ attempted = {}

\* What Get does with the answer of grpsm_get: study ends when there is none.
Answer(cfg) ==
  /\ given' = cfg
  /\ tried' = 0 /\ passed' = {}
  /\ offered' = offered \cup Range(cfg)
  /\ pc' = IF cfg = <<>> THEN "done" ELSE "try"
  /\ UNCHANGED <<sent, honest, confirmed, attempted>>

\* grpsm_get_vc: one round, without the links of the groups that passed.
get_vc(partial, done) ==
  LET of(k) == get_vcs_from_svc(remove_olinks(vcs[k], done), partial)
  IN /\ vcs' = [k \in DOMAIN vcs |-> of(k).svc]
     /\ Answer(FlattenSeq([k \in DOMAIN vcs |-> of(k).cfg]))

GetLcas ==
  /\ pc = "get" /\ given = <<>> /\ get_lcas # <<>>
  /\ Answer(get_lcas)
  /\ UNCHANGED ctl

\* Mutant: a round is complete when one batch of it was tried.
partly_Never == FALSE

\* Some of the groups given were not tried.
partly == tried < Len(given)

GetVc ==
  /\ pc = "get" /\ (given = <<>> => get_lcas = <<>>)
  /\ lcas_got' = TRUE
  /\ vc_partial' = (lcas_got /\ partly)
  /\ get_vc(vc_partial', IF lcas_got THEN {given[i] : i \in passed} ELSE {})
  /\ UNCHANGED lcas

\* The end of the batch of try that starts after group from: as many groups as the
\* board has links for.
Links(from, to) == Len(FlattenSeq(SubSeq(given, from + 1, to)))
BatchEnd(from) ==
  CHOOSE to \in from .. Len(given) :
    /\ Links(from, to) <= MaxLink
    /\ to < Len(given) => Links(from, to + 1) > MaxLink

\* What the board may say of a batch of groups.
Verdicts(groups) ==
  LET right == groups \cap {Whole(n) : n \in {m \in DOMAIN sent : Received(m)}}
  IN SUBSET (IF honest THEN right ELSE groups)

\* A batch of try.  It stops after a batch with a success.
TryBatch ==
  /\ pc = "try"
  /\ LET to == BatchEnd(tried)
         batch == tried + 1 .. to
     IN \E ok \in Verdicts({given[i] : i \in batch}) :
        /\ tried' = to
        /\ passed' = passed \cup {i \in batch : given[i] \in ok}
        /\ confirmed' = confirmed \cup ok
        /\ attempted' = attempted \cup {given[i] : i \in batch}
        /\ pc' = IF ok # {} \/ to = Len(given) THEN "get" ELSE "try"
  /\ UNCHANGED <<sent, honest, ctl, given, offered>>

\* ap_is_running is FALSE: the loops of study and try end.
Quit ==
  /\ pc \in {"get", "try"}
  /\ pc' = "quit"
  /\ UNCHANGED <<sent, honest, ctl, given, tried, passed, confirmed, offered, attempted>>

Next == GetLcas \/ GetVc \/ TryBatch \/ Quit

Spec == Init /\ [][Next]_vars

\* study runs on: in its loop it takes another step, so that this is the weak
\* fairness of Next, whose guards come to this.  Nobody has to stop it.
Studying == pc \in {"get", "try"}
FairSpec == Spec /\ (<>[]Studying => []<><<TRUE>>_vars)
-----------------------------------------------------------------------------
Taken == UNION {Range(g) : g \in confirmed}
Plain(g) == ~sent[g[1][1]].lcas

\* The links that are free, at number sq of service k, and the groups of length sq + 1
\* that they can make: a link for each number, each near the last one.
Free(svc, sq) ==
  {l \in Range(LinkInfo(sent)) :
     l.vc_valid /\ ~l.is_lcas /\ l.svc_type = svc /\ l.sq = sq /\ l.channel \notin Taken}
Candidates(svc, sq) ==
  LET one[i \in Sq] == Free(svc, i)
      all == {f \in [0 .. sq -> UNION {one[i] : i \in 0 .. sq}] : \A i \in 0 .. sq : f[i] \in one[i]}
  IN {[i \in 1 .. sq + 1 |-> f[i - 1].channel] : f \in {g \in all : \A i \in 0 .. sq : near_mfi(g[sq], g[i])}}
ServiceNo(k) == ServicesOf(Usable(LinkInfo(sent), FALSE))[k]

\* A round gives every group of its length that the free links can make, each
\* once, and none with a link of a confirmed group, although the groups are
\* numbered by arithmetic on the counts of links and the links are taken out of
\* the tables only at the next call (grpsm_cfg_from_sqlinks, grpsm_remove_olinks).
\* Where the product of the counts does not fit an int the code may do otherwise.
RoundExact ==
  pc = "try" /\ tried = 0 /\ Plain(given[1]) =>
    /\ Range(given) = UNION {Candidates(ServiceNo(k), vcs[k].sq_pre) :
                               k \in {j \in DOMAIN vcs : vcs[j].sq_status = "got"}}
    /\ Cardinality(Range(given)) = Len(given)

\* A group with LCAS is in the first answer when its members are all received and no
\* other group of the service has an identifier and the multiframe number of it,
\* whatever the other groups are and whatever they have lost (grpsm_get_lcas_from_svc).
LcasGiven ==
  pc \in {"try", "done"} =>
    \A n \in DOMAIN sent :
      /\ sent[n].lcas /\ Received(n)
      /\ \A m \in DOMAIN sent \ {n} :
           sent[m].lcas /\ sent[m].svc = sent[n].svc /\ sent[m].mfi = sent[n].mfi =>
             sent[m].gid \cap sent[n].gid = {}
      => Whole(n) \in offered

\* No virtual group is passed over: when every member of every group is received
\* and the board confirms nothing wrong, each group has been given when the study
\* ends, although a round is skipped where the counts of links do not drop, and the
\* board may miss a group (grpsm_get_vcs_from_svc).
NonePassedOver ==
  pc = "done" /\ honest /\ (\A n \in DOMAIN sent : Received(n)) =>
    \A n \in DOMAIN sent : ~sent[n].lcas => Whole(n) \in offered

\* "no more groups" is the truth: what was given and not tried has been given
\* again, or has lost a link to a confirmed group (num_trygroups of grpsm_get).
NothingLeft ==
  pc = "done" =>
    \A g \in offered : Plain(g) => g \in attempted \/ Range(g) \cap Taken # {}

\* A study ends: a repeated round has fewer links each time (study, grpsm_get).
StudyEnds == Studying ~> ~Studying
=============================================================================
