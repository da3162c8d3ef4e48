-------------------------- MODULE AuthzCacheProofs --------------------------
(***************************************************************************)
(* Proofs about AuthzCache for every number of processes, requests,        *)
(* administrators, users, groups and scopes, and for all bounds.           *)
(*                                                                         *)
(* Typed bounds version and generation by counting the edits under way.    *)
(* GroupsInv is about what a request has read and is about to store.       *)
(* DataInv says of which version signatures and pages are.  GenInv says    *)
(* what the holder of a generation (a process, a request, an entry) may    *)
(* have missed: only what was announced later than the time kept with it.  *)
(***************************************************************************)
EXTENDS AuthzCache, FiniteSetTheorems, TLAPS

--------------------------------------------------------------------------------
(* Types *)

\* Administrators' requests that will still write grants, and that will still bump.
Writing == {a \in Admin : Doing(a, "global")}
Bumping == {a \in Admin : \/ adm[a].pc \in {"forget", "incr", "global", "local"}
                          \/ Doing(a, "del") /\ adm[a].bump}

\* What bounds the version and the generation.
Counted ==
    /\ ver + Cardinality(Writing) <= edits
    /\ gen + Cardinality(Bumping) <= edits + 1
    /\ Cardinality(Bumping) <= edits

\* A request that is served has a process, and what it memoises is no failed read.
Served ==
    \A r \in Req :
        /\ ~At(r, "idle") => req[r].process \in Proc
        /\ At(r, "gen-memo") => req[r].g # 0

Typed == TypeOK /\ Counted /\ Served

\* Counting in a set that grows by at most one element.
LEMMA CountGrow ==
    ASSUME NEW S \in SUBSET Admin, NEW T \in SUBSET Admin, NEW a, T \subseteq S \cup {a}
    PROVE  /\ Cardinality(S) \in Nat /\ Cardinality(T) \in Nat
           /\ Cardinality(T) <= Cardinality(S) + 1
<1>1. IsFiniteSet(S) /\ IsFiniteSet(T)
  BY AuthzCacheAssumption, FS_Subset
<1>2. /\ IsFiniteSet(S \cup {a})
      /\ Cardinality(S \cup {a}) = IF a \in S THEN Cardinality(S) ELSE Cardinality(S) + 1
  BY <1>1, FS_AddElement
<1>3. Cardinality(T) <= Cardinality(S \cup {a})
  BY <1>2, FS_Subset
<1> QED
  BY <1>1, <1>2, <1>3, FS_CardinalityType

\* Counting in a set that does not grow.
LEMMA CountSame ==
    ASSUME NEW S \in SUBSET Admin, NEW T \in SUBSET S
    PROVE  /\ Cardinality(S) \in Nat /\ Cardinality(T) \in Nat
           /\ Cardinality(T) <= Cardinality(S)
  BY AuthzCacheAssumption, FS_Subset, FS_CardinalityType

\* Counting in a set that loses an element.
LEMMA CountDrop ==
    ASSUME NEW S \in SUBSET Admin, NEW a \in S, NEW T \in SUBSET (S \ {a})
    PROVE  /\ Cardinality(S) \in Nat /\ Cardinality(T) \in Nat
           /\ Cardinality(T) + 1 <= Cardinality(S)
<1>1. IsFiniteSet(S)
  BY AuthzCacheAssumption, FS_Subset
<1>2. IsFiniteSet(S \ {a}) /\ Cardinality(S \ {a}) = Cardinality(S) - 1
  BY <1>1, FS_RemoveElement
<1>3. Cardinality(T) <= Cardinality(S \ {a}) /\ IsFiniteSet(T)
  BY <1>2, FS_Subset
<1> QED
  BY <1>1, <1>2, <1>3, FS_CardinalityType

\* The initial state has the types.
LEMMA TypedInit == Init => Typed
<1> SUFFICES ASSUME Init PROVE Typed
  OBVIOUS
<1> USE AuthzCacheAssumption
<1>1. TypeOK
  <2>1. NoRequest \in Requests
    BY DEF NoRequest, Requests, ReqPhases, GroupSets, Times, Gens, Sigs, Vers
  <2>2. NoEdit \in EditRequests
    BY DEF NoEdit, EditRequests, AdmPhases
  <2>3. 0 \in Vers /\ 0 \in Gens /\ 0 \in Times
    BY DEF Vers, Gens, Times
  <2>4. bumped \in [Gens -> Bumps]
    BY <2>3 DEF Init, Bumps
  <2>5. /\ groupsKey \in [User -> GroupSets \cup {None}]
        /\ sigKey \in [Gens \X GroupSets -> SigEntries \cup {None}]
        /\ pageKey \in [Gens \X Sigs -> PageEntries \cup {None}]
        /\ memo \in [Proc -> Memos \cup {None}]
    BY DEF Init
  <2>6. req \in [Req -> Requests] /\ adm \in [Admin -> EditRequests]
    BY <2>1, <2>2 DEF Init
  <2>7. /\ ver \in Vers /\ gen \in Gens /\ clock \in Times
        /\ lists \in 0 .. MaxLists /\ edits \in 0 .. MaxEdits /\ faults \in 0 .. MaxFaults
    BY <2>3 DEF Init
  <2>8. /\ scopes \in [Group -> SUBSET Scope] /\ member \in [User -> SUBSET Group]
        /\ regressed \in BOOLEAN /\ loose \subseteq User
    BY DEF Init
  <2> QED
    BY <2>4, <2>5, <2>6, <2>7, <2>8 DEF TypeOK
<1>2. Writing = {} /\ Bumping = {}
  BY DEF Init, Writing, Bumping, Doing, NoEdit
<1>3. Counted
  BY <1>2, FS_EmptySet DEF Init, Counted
<1>4. Served
  BY DEF Init, Served, At, NoRequest
<1> QED
  BY <1>1, <1>3, <1>4 DEF Typed

\* A step that leaves administrators alone keeps the counts.
LEMMA CountedReq ==
    ASSUME Typed, UNCHANGED <<adm, ver, edits>>, gen' \in {gen, 1}
    PROVE  Counted'
<1>1. Writing' = Writing /\ Bumping' = Bumping
  BY DEF Writing, Bumping, Doing
<1>2. gen \in Nat /\ ver \in Nat /\ edits \in Nat
  BY AuthzCacheAssumption DEF Typed, TypeOK, Gens, Vers
<1>3. Cardinality(Bumping) \in Nat
  BY CountSame DEF Bumping
<1> QED
  BY <1>1, <1>2, <1>3 DEF Typed, Counted

\* A request stays a request when it begins or ends.
LEMMA RequestBegins ==
    /\ NoRequest \in Requests
    /\ \A p \in Proc, t \in Times :
          [NoRequest EXCEPT !.pc = "groups", !.process = p, !.start = t] \in Requests
<1>1. NoRequest \in Requests
  BY AuthzCacheAssumption DEF NoRequest, Requests, ReqPhases, GroupSets, Times, Gens, Sigs, Vers
<1> QED
  BY <1>1 DEF Requests, ReqPhases

\* A request stays a request when it gets groups.
LEMMA RequestGroups ==
    ASSUME NEW q \in Requests
    PROVE  /\ [q EXCEPT !.late = TRUE] \in Requests
           /\ \A gs \in GroupSets :
                 /\ [q EXCEPT !.pc = "gen", !.groups = gs, !.late = FALSE] \in Requests
                 /\ [q EXCEPT !.pc = "groups-set", !.groups = gs] \in Requests
  BY DEF Requests, ReqPhases

\* A request stays a request when it gets a generation.
LEMMA RequestGen ==
    ASSUME NEW q \in Requests
    PROVE  /\ \A t \in Times : [q EXCEPT !.pc = "gen-read", !.now = t] \in Requests
           /\ \A g \in Gens :
                 /\ [q EXCEPT !.pc = "sig", !.g = g, !.now = 0, !.blind = (g = 0)] \in Requests
                 /\ [q EXCEPT !.pc = "page", !.g = g, !.now = 0] \in Requests
<1>1. 0 \in Times
  BY AuthzCacheAssumption DEF Times
<1>2. \A t \in Times : [q EXCEPT !.pc = "gen-read", !.now = t] \in Requests
  BY DEF Requests, ReqPhases
<1>3. ASSUME NEW g \in Gens
      PROVE  [q EXCEPT !.pc = "sig", !.g = g, !.now = 0, !.blind = (g = 0)] \in Requests
  BY <1>1 DEF Requests, ReqPhases
<1>4. ASSUME NEW g \in Gens PROVE [q EXCEPT !.pc = "page", !.g = g, !.now = 0] \in Requests
  BY <1>1 DEF Requests, ReqPhases
<1> QED
  BY <1>2, <1>3, <1>4

\* A request stays a request when it reads the generation.
LEMMA RequestRead ==
    ASSUME NEW q \in Requests, NEW g \in Gens, NEW pc \in ReqPhases
    PROVE  [q EXCEPT !.pc = pc, !.g = g] \in Requests
  BY DEF Requests

\* A request stays a request when it gets a signature or a page.
LEMMA RequestSig ==
    ASSUME NEW q \in Requests, NEW sig \in Sigs, NEW v \in Vers
    PROVE  /\ [q EXCEPT !.pc = "gen", !.turn = 2, !.sig = sig, !.sver = v] \in Requests
           /\ [q EXCEPT !.pc = "sig-set", !.sig = sig, !.sver = v] \in Requests
           /\ [q EXCEPT !.pc = "page-set", !.rows = sig, !.qver = v] \in Requests
  BY DEF Requests, ReqPhases

\* What a group set is granted is a signature.
LEMMA EffectiveType == TypeOK => \A gs \in GroupSets : Effective(gs) \in Sigs
  BY DEF TypeOK, Effective, GroupSets, Sigs

\* Every step of a list request keeps the types.
LEMMA TypeReq ==
    ASSUME TypeOK, Served, NEW r \in Req, ReqStep(r)
    PROVE  TypeOK'
<1> USE AuthzCacheAssumption
<1>0. req[r] \in Requests /\ persona[r] \in User
  BY DEF TypeOK
<1>1. ASSUME NEW p \in Proc, Start(r, p) PROVE TypeOK'
  <2>1. req' \in [Req -> Requests]
    BY <1>1, RequestBegins DEF Start, TypeOK
  <2>2. lists' \in 0 .. MaxLists
    BY <1>1 DEF Start, TypeOK
  <2> QED
    BY <1>1, <2>1, <2>2 DEF Start, TypeOK, database, entries, history
<1>2. CASE Groups(r)
  <2>1. member[persona[r]] \in GroupSets
    BY <1>0 DEF TypeOK, GroupSets
  <2>2. ASSUME NEW gs \in GroupSets PROVE WithGroups(r, gs) \in Requests
    BY <1>0, RequestGroups, RequestBegins DEF WithGroups
  <2>3. CASE groupsKey[persona[r]] # None /\ req' = [req EXCEPT ![r] = WithGroups(r, groupsKey[persona[r]])]
    <3>1. groupsKey[persona[r]] \in GroupSets
      BY <1>0, <2>3 DEF TypeOK
    <3>2. req' \in [Req -> Requests]
      BY <2>2, <2>3, <3>1 DEF TypeOK
    <3> QED
      BY <1>2, <3>2 DEF Groups, TypeOK, database, entries, history
  <2>4. CASE req' = [req EXCEPT ![r].pc = "groups-set", ![r].groups = member[persona[r]]]
    <3>1. [req[r] EXCEPT !.pc = "groups-set", !.groups = member[persona[r]]] \in Requests
      BY <1>0, <2>1, RequestGroups
    <3>2. req' \in [Req -> Requests]
      BY <2>4, <3>1 DEF TypeOK
    <3> QED
      BY <1>2, <3>2 DEF Groups, TypeOK, database, entries, history
  <2> QED
    BY <1>2, <2>3, <2>4 DEF Groups
<1>3. CASE GroupsSet(r)
  <2>1. req[r].groups \in GroupSets
    BY <1>0 DEF Requests
  <2>2. WithGroups(r, req[r].groups) \in Requests
    BY <1>0, <2>1, RequestGroups, RequestBegins DEF WithGroups
  <2> QED
    BY <1>0, <1>3, <2>1, <2>2 DEF GroupsSet, TypeOK, database
<1>4. ASSUME NEW g \in Gens PROVE WithGen(r, g) \in Requests
  BY <1>0, RequestGen DEF WithGen
<1>5. CASE Gen(r)
  <2>1. req[r].process \in Proc
    BY <1>5 DEF Gen, Served, At
  <2>2. 0 \in Gens /\ clock \in Times
    BY DEF Gens, TypeOK
  <2>3. Fresh(memo[req[r].process], clock) => memo[req[r].process].v \in Gens
    BY <2>1 DEF Fresh, TypeOK, Memos
  <2>4. [req[r] EXCEPT !.pc = "gen-read", !.now = clock] \in Requests
    BY <1>0, <2>2, RequestGen
  <2>6. req' \in [Req -> Requests]
    BY <1>4, <1>5, <2>2, <2>3, <2>4 DEF Gen, TypeOK
  <2>5. faults' \in 0 .. MaxFaults
    BY <1>5 DEF Gen, Works, Fault, TypeOK
  <2> QED
    BY <1>5, <2>5, <2>6 DEF Gen, TypeOK, database, entries, history
<1>6. CASE GenRead(r)
  <2>1. req' \in [Req -> Requests]
    BY <1>0, <1>6, RequestRead DEF GenRead, TypeOK, ReqPhases
  <2> QED
    BY <1>6, <2>1 DEF GenRead, TypeOK, database, entries, history
<1>7. CASE GenInit(r)
  <2>1. 1 \in Gens
    BY DEF Gens
  <2>2. req' \in [Req -> Requests]
    BY <1>0, <1>7, <2>1, RequestRead DEF GenInit, TypeOK, ReqPhases
  <2>3. regressed' \in BOOLEAN
    BY <1>7 DEF GenInit
  <2> QED
    BY <1>7, <2>1, <2>2, <2>3 DEF GenInit, TypeOK, database, entries, history
<1>8. CASE GenMemo(r)
  <2>1. req[r].g \in Gens /\ req[r].g # 0 /\ req[r].now \in Times
    BY <1>0, <1>8 DEF GenMemo, Served, Requests
  <2>2. [v |-> req[r].g, at |-> req[r].now] \in Memos
    BY <2>1 DEF Memos
  <2>3. memo' \in [Proc -> Memos \cup {None}] /\ req' \in [Req -> Requests]
    BY <1>4, <1>8, <2>1, <2>2 DEF GenMemo, TypeOK
  <2> QED
    BY <1>8, <2>3 DEF GenMemo, TypeOK, database, entries, history
<1>9. ASSUME NEW sig \in Sigs, NEW v \in Vers PROVE WithSig(r, sig, v) \in Requests
  BY <1>0, RequestSig DEF WithSig
<1>10. CASE Signature(r)
  <2> DEFINE k == SigKeyOf(req[r].g, req[r].groups)
  <2> SUFFICES req' \in [Req -> Requests]
    BY <1>10 DEF Signature, TypeOK, database, entries, history
  <2>1. req[r].groups \in GroupSets /\ k \in Gens \X GroupSets
    BY <1>0 DEF Requests, SigKeyOf
  <2>2. sigKey[k] # None => sigKey[k].sig \in Sigs /\ sigKey[k].ver \in Vers
    BY <2>1 DEF TypeOK, SigEntries
  <2>3. Effective(req[r].groups) \in Sigs /\ ver \in Vers
    BY <2>1, EffectiveType DEF TypeOK
  <2>4. CASE /\ sigKey[k] # None
             /\ req' = [req EXCEPT ![r] = WithSig(r, sigKey[k].sig, sigKey[k].ver)]
    BY <1>9, <2>2, <2>4 DEF TypeOK
  <2>5. CASE req' = [req EXCEPT ![r].pc = "sig-set", ![r].sig = Effective(req[r].groups),
                                ![r].sver = ver]
    <3>1. [req[r] EXCEPT !.pc = "sig-set", !.sig = Effective(req[r].groups), !.sver = ver]
              \in Requests
      BY <1>0, <2>3, RequestSig
    <3> QED
      BY <2>5, <3>1 DEF TypeOK
  <2> QED
    BY <1>10, <2>4, <2>5 DEF Signature
<1>11. CASE SigSet(r)
  <2>1. /\ req[r].sig \in Sigs /\ req[r].sver \in Vers
        /\ req[r].g \in Gens /\ req[r].groups \in GroupSets
    BY <1>0 DEF Requests
  <2>2. [sig |-> req[r].sig, ver |-> req[r].sver] \in SigEntries
    BY <2>1 DEF SigEntries
  <2>3. /\ sigKey' \in [Gens \X GroupSets -> SigEntries \cup {None}]
        /\ req' \in [Req -> Requests]
    BY <1>9, <1>11, <2>1, <2>2 DEF SigSet, TypeOK, SigKeyOf
  <2> QED
    BY <1>11, <2>3 DEF SigSet, TypeOK, database, history
<1>12. CASE Page(r)
  <2>1. Effective(req[r].groups) \in Sigs /\ ver \in Vers
    BY <1>0, EffectiveType DEF TypeOK, Requests
  <2>2. [req[r] EXCEPT !.pc = "page-set", !.rows = Effective(req[r].groups), !.qver = ver]
            \in Requests
    BY <1>0, <2>1, RequestSig
  <2>3. req' \in [Req -> Requests]
    BY <1>12, <2>2, RequestBegins DEF Page, TypeOK
  <2> QED
    BY <1>12, <2>3 DEF Page, TypeOK, database, entries, history
<1>13. CASE PageSet(r)
  <2>1. req[r].rows \in Sigs /\ Overlapped(r) \in BOOLEAN
    BY <1>0 DEF Requests, Overlapped
  <2>2. [rows |-> req[r].rows, overlap |-> Overlapped(r)] \in PageEntries
    BY <2>1 DEF PageEntries
  <2>3. /\ pageKey' \in [Gens \X Sigs -> PageEntries \cup {None}]
        /\ req' \in [Req -> Requests]
    BY <1>13, <2>2, RequestBegins DEF PageSet, TypeOK
  <2> QED
    BY <1>13, <2>3 DEF PageSet, TypeOK, database, history
<1> QED
  BY <1>1, <1>2, <1>3, <1>5, <1>6, <1>7, <1>8, <1>10, <1>11, <1>12, <1>13 DEF ReqStep

\* Every step of a list request leaves requests served.
LEMMA ServedReq ==
    ASSUME TypeOK, Served, NEW r \in Req, ReqStep(r)
    PROVE  Served'
<1>1. req \in [Req -> Requests]
  BY DEF TypeOK
<1>2. ASSUME NEW q, req' = [req EXCEPT ![r] = q],
             q.pc # "idle" => q.process \in Proc,
             q.pc = "gen-memo" => q.g # 0
      PROVE  Served'
  BY <1>1, <1>2 DEF Served, At
<1>3. ASSUME NEW p \in Proc, Start(r, p) PROVE Served'
  BY <1>2, <1>3 DEF Start, NoRequest
<1>4. ASSUME ~At(r, "idle") PROVE req[r].process \in Proc
  BY <1>4 DEF Served
<1>5. ASSUME NEW gs, ~At(r, "idle"), req' = [req EXCEPT ![r] = WithGroups(r, gs)]
      PROVE  Served'
  <2>1. CASE gs = {}
    <3>1. WithGroups(r, gs) = NoRequest /\ NoRequest.pc = "idle"
      BY <2>1 DEF WithGroups, NoRequest
    <3> QED
      BY <1>2, <1>5, <3>1
  <2>2. CASE gs # {}
    <3>1. WithGroups(r, gs).pc = "gen" /\ WithGroups(r, gs).process = req[r].process
      BY <1>1, <2>2 DEF WithGroups, Requests
    <3> QED
      BY <1>2, <1>4, <1>5, <3>1
  <2> QED
    BY <2>1, <2>2
<1>12. ASSUME NEW gs, ~At(r, "idle"),
              req' = [req EXCEPT ![r].pc = "groups-set", ![r].groups = gs]
       PROVE  Served'
  BY <1>1, <1>4, <1>12 DEF Served, At, Requests
<1>13. CASE Groups(r) \/ GroupsSet(r)
  BY <1>5, <1>12, <1>13 DEF Groups, GroupsSet, At
<1>14. ASSUME NEW g, ~At(r, "idle"), req' = [req EXCEPT ![r] = WithGen(r, g)]
       PROVE  Served'
  <2>1. /\ WithGen(r, g).pc \in {"sig", "page"}
        /\ WithGen(r, g).process = req[r].process
    BY <1>1 DEF WithGen, Requests
  <2> QED
    BY <1>2, <1>4, <1>14, <2>1
<1>6. CASE Gen(r)
  <2>1. ASSUME req' = [req EXCEPT ![r].pc = "gen-read", ![r].now = clock] PROVE Served'
    BY <1>1, <1>4, <1>6, <2>1 DEF Gen, Served, At, Requests
  <2> QED
    BY <1>6, <1>14, <2>1 DEF Gen, At
<1>7. CASE GenRead(r)
  BY <1>1, <1>4, <1>7 DEF GenRead, Served, At, Requests
<1>8. CASE GenInit(r)
  BY <1>1, <1>4, <1>8 DEF GenInit, Served, At, Requests
<1>9. CASE GenMemo(r)
  BY <1>9, <1>14 DEF GenMemo, At
<1>15. ASSUME NEW sig, NEW v, ~At(r, "idle"), req' = [req EXCEPT ![r] = WithSig(r, sig, v)]
       PROVE  Served'
  <2>1. WithSig(r, sig, v).pc = "gen" /\ WithSig(r, sig, v).process = req[r].process
    BY <1>1 DEF WithSig, Requests
  <2> QED
    BY <1>2, <1>4, <1>15, <2>1
<1>16. ASSUME NEW sig, ~At(r, "idle"),
              req' = [req EXCEPT ![r].pc = "sig-set", ![r].sig = sig, ![r].sver = ver]
       PROVE  Served'
  BY <1>1, <1>4, <1>16 DEF Served, At, Requests
<1>10. CASE Signature(r) \/ SigSet(r)
  BY <1>10, <1>15, <1>16 DEF Signature, SigSet, At
<1>11. CASE Page(r) \/ PageSet(r)
  BY <1>1, <1>4, <1>11 DEF Page, PageSet, NoRequest, Served, At, Requests
<1> QED
  BY <1>3, <1>6, <1>7, <1>8, <1>9, <1>10, <1>11, <1>13 DEF ReqStep

\* An administrator's request stays one when it goes on.
LEMMA EditUpdates ==
    ASSUME TypeOK, NEW a \in Admin
    PROVE  /\ NoEdit \in EditRequests
           /\ \A pc \in AdmPhases : [adm[a] EXCEPT !.pc = pc] \in EditRequests
           /\ \A us \in SUBSET User :
                 /\ [adm[a] EXCEPT !.pc = "del", !.users = us] \in EditRequests
                 /\ [adm[a] EXCEPT !.pc = "forget", !.users = us] \in EditRequests
                 /\ [adm[a] EXCEPT !.users = us] \in EditRequests
                 /\ AfterDel(a, us) \in EditRequests
           /\ \A x \in Group, us \in SUBSET User :
                 [pc |-> "global", users |-> us, group |-> x, bump |-> TRUE] \in EditRequests
<1>1. adm[a] \in EditRequests
  BY DEF TypeOK
<1>2. NoEdit \in EditRequests
  BY DEF NoEdit, EditRequests, AdmPhases
<1>3. \A pc \in AdmPhases : [adm[a] EXCEPT !.pc = pc] \in EditRequests
  BY <1>1 DEF EditRequests
<1>4. \A us \in SUBSET User :
         /\ [adm[a] EXCEPT !.pc = "del", !.users = us] \in EditRequests
         /\ [adm[a] EXCEPT !.pc = "forget", !.users = us] \in EditRequests
         /\ [adm[a] EXCEPT !.users = us] \in EditRequests
  BY <1>1 DEF EditRequests, AdmPhases
<1>5. \A us \in SUBSET User : AfterDel(a, us) \in EditRequests
  BY <1>2, <1>4 DEF AfterDel
<1>6. \A x \in Group, us \in SUBSET User :
         [pc |-> "global", users |-> us, group |-> x, bump |-> TRUE] \in EditRequests
  BY DEF EditRequests, AdmPhases
<1> QED
  BY <1>2, <1>3, <1>4, <1>5, <1>6

\* Every step of an administrator's request keeps the types.
LEMMA TypeAdmin ==
    ASSUME TypeOK, Counted, NEW a \in Admin, AdminStep(a)
    PROVE  TypeOK'
<1> USE AuthzCacheAssumption
<1>0. adm[a] \in EditRequests /\ edits \in Nat /\ ver \in Nat /\ gen \in Nat
  BY DEF TypeOK, Vers, Gens
<1>1. ASSUME Act(a) PROVE edits' \in 0 .. MaxEdits
  BY <1>1 DEF Act, TypeOK
<1>2. ASSUME NEW x \in Group, NEW S \in Sigs, CommitGrants(a, x, S) PROVE TypeOK'
  <2>1. ver + 1 <= edits + 1 /\ edits < MaxEdits
    BY <1>0, <1>2, CountSame DEF CommitGrants, Act, Counted, Writing
  <2>2. ver' \in Vers
    BY <1>0, <1>2, <2>1 DEF CommitGrants, Vers
  <2>3. scopes' \in [Group -> SUBSET Scope]
    BY <1>2 DEF CommitGrants, Sigs, TypeOK
  <2>4. adm' \in [Admin -> EditRequests]
    BY <1>2, EditUpdates DEF CommitGrants, TypeOK, AdmPhases
  <2> QED
    BY <1>1, <1>2, <2>2, <2>3, <2>4 DEF CommitGrants, TypeOK, entries, history
<1>3. CASE Flush(a)
  <2>1. adm' \in [Admin -> EditRequests]
    BY <1>3, EditUpdates DEF Flush, TypeOK, AdmPhases
  <2> QED
    BY <1>1, <1>3, <2>1 DEF Flush, TypeOK, database, entries, history
<1>4. ASSUME NEW p \in Proc, Forget(a, p) PROVE TypeOK'
  <2>1. adm' \in [Admin -> EditRequests]
    BY <1>4, EditUpdates DEF Forget, TypeOK, AdmPhases
  <2> QED
    BY <1>4, <2>1 DEF Forget, TypeOK, database, entries, history
<1>5. CASE Incr(a)
  <2>1. a \in Bumping
    BY <1>5 DEF Incr, Bumping, Doing
  <2>2. Cardinality({}) = 0 /\ {} \in SUBSET (Bumping \ {a})
    BY FS_EmptySet
  <2>3. 1 <= Cardinality(Bumping) /\ Cardinality(Bumping) \in Nat
    BY <2>1, <2>2, CountDrop DEF Bumping
  <2>4. gen + 1 \in Gens
    BY <1>0, <2>3 DEF Counted, Gens, TypeOK
  <2>5. [ver |-> ver, at |-> clock] \in Bumps
    BY DEF TypeOK, Bumps
  <2>6. gen' \in Gens /\ bumped' \in [Gens -> Bumps]
    BY <1>5, <2>4, <2>5 DEF Incr, TypeOK
  <2>7. faults' \in 0 .. MaxFaults
    BY <1>5 DEF Incr, Works, Fault, TypeOK
  <2>8. adm' \in [Admin -> EditRequests]
    BY <1>5, EditUpdates DEF Incr, TypeOK
  <2> QED
    BY <1>5, <2>6, <2>7, <2>8 DEF Incr, TypeOK, database, entries
<1>6. ASSUME NEW users \in SUBSET User, Overtake(users) PROVE req' \in [Req -> Requests]
  BY <1>6, RequestGroups DEF Overtake, TypeOK
<1>7. ASSUME NEW u \in User, NEW gs \in SUBSET Group, CommitMembership(a, u, gs) PROVE TypeOK'
  <2>1. adm' \in [Admin -> EditRequests]
    <3>1. [adm[a] EXCEPT !.pc = "del", !.users = {u}] \in EditRequests
      BY EditUpdates
    <3> QED
      BY <1>7, <3>1 DEF CommitMembership, TypeOK
  <2>2. member' \in [User -> SUBSET Group]
    BY <1>7 DEF CommitMembership, TypeOK
  <2>3. req' \in [Req -> Requests] /\ edits' \in 0 .. MaxEdits
    BY <1>1, <1>6, <1>7 DEF CommitMembership
  <2> QED
    BY <1>7, <2>1, <2>2, <2>3 DEF CommitMembership, TypeOK, entries, history
<1>8. ASSUME NEW u \in User, Del(a, u) PROVE TypeOK'
  <2>1. adm[a].users \ {u} \in SUBSET User
    BY <1>0 DEF EditRequests
  <2>2. adm' \in [Admin -> EditRequests]
    BY <1>8, <2>1, EditUpdates DEF Del, TypeOK
  <2>3. groupsKey' \in [User -> GroupSets \cup {None}] /\ loose' \subseteq User
    BY <1>8 DEF Del, TypeOK
  <2>4. faults' \in 0 .. MaxFaults
    BY <1>8 DEF Del, Works, Fault, TypeOK
  <2> QED
    BY <1>8, <2>2, <2>3, <2>4 DEF Del, TypeOK, database
<1>9. ASSUME NEW x \in Group, DeleteGroup(a, x) PROVE TypeOK'
  <2>1. {u \in User : x \in member[u]} \in SUBSET User
    OBVIOUS
  <2>2. adm' \in [Admin -> EditRequests]
    BY <1>9, <2>1, EditUpdates DEF DeleteGroup, TypeOK
  <2> QED
    BY <1>1, <1>9, <2>2 DEF DeleteGroup, TypeOK, database, entries, history
<1>10. CASE DeleteGlobal(a)
  <2>1. a \in Writing
    BY <1>10 DEF DeleteGlobal, Writing
  <2>2. Cardinality({}) = 0 /\ {} \in SUBSET (Writing \ {a})
    BY FS_EmptySet
  <2>3. 1 <= Cardinality(Writing) /\ Cardinality(Writing) \in Nat
    BY <2>1, <2>2, CountDrop DEF Writing
  <2>4. ver' \in Vers
    BY <1>0, <1>10, <2>3 DEF DeleteGlobal, Counted, Vers, TypeOK
  <2>5. scopes' \in [Group -> SUBSET Scope]
    BY <1>10 DEF DeleteGlobal, TypeOK
  <2>6. adm' \in [Admin -> EditRequests]
    BY <1>10, EditUpdates DEF DeleteGlobal, TypeOK, AdmPhases
  <2> QED
    BY <1>10, <2>4, <2>5, <2>6 DEF DeleteGlobal, TypeOK, entries, history
<1>11. CASE DeleteLocal(a)
  <2> DEFINE were == {u \in User : adm[a].group \in member[u]}
             pc == IF adm[a].users = {} THEN "forget" ELSE "del"
  <2>1. adm[a].users \in SUBSET User /\ were \in SUBSET User
    BY <1>0 DEF EditRequests
  <2>2. [AfterDel(a, adm[a].users) EXCEPT !.pc = pc] \in EditRequests
    <3>1. AfterDel(a, adm[a].users) \in EditRequests /\ pc \in AdmPhases
      BY <2>1, EditUpdates DEF AdmPhases
    <3> QED
      BY <3>1 DEF EditRequests
  <2>3. CASE /\ Works
             /\ member' = [u \in User |-> member[u] \ {adm[a].group}]
             /\ Overtake(were)
             /\ adm' = [adm EXCEPT ![a] = AfterDel(a, adm[a].users), ![a].pc = pc]
             /\ loose' = loose \cup (were \ adm[a].users)
    <3>1. adm' \in [Admin -> EditRequests]
      BY <2>2, <2>3 DEF TypeOK
    <3>2. member' \in [User -> SUBSET Group] /\ loose' \subseteq User /\ faults' = faults
      BY <2>1, <2>3 DEF TypeOK, Works
    <3>3. req' \in [Req -> Requests]
      BY <1>6, <2>1, <2>3
    <3> QED
      BY <1>11, <3>1, <3>2, <3>3 DEF DeleteLocal, TypeOK, entries
  <2>4. CASE Fault /\ adm' = [adm EXCEPT ![a] = NoEdit] /\ UNCHANGED <<member, req, loose>>
    <3>1. adm' \in [Admin -> EditRequests]
      BY <2>4, EditUpdates DEF TypeOK
    <3>2. faults' \in 0 .. MaxFaults
      BY <2>4 DEF TypeOK, Fault
    <3> QED
      BY <1>11, <2>4, <3>1, <3>2 DEF DeleteLocal, TypeOK, entries
  <2> QED
    BY <1>11, <2>3, <2>4 DEF DeleteLocal
<1>12. ASSUME NEW u \in User, NEW x \in Group,
              NEW gs \in {member[u] \cup {x}, member[u] \ {x}, {}}, CommitMembership(a, u, gs)
       PROVE  TypeOK'
  <2>1. gs \in SUBSET Group
    BY DEF TypeOK
  <2> QED
    BY <1>7, <1>12, <2>1
<1> QED
  BY <1>2, <1>3, <1>4, <1>5, <1>8, <1>9, <1>10, <1>11, <1>12 DEF AdminStep

\* The counts, when a request is taken up, goes on, or ends with its bump.
LEMMA CountedAdmin ==
    ASSUME TypeOK, Counted, NEW a \in Admin, AdminStep(a)
    PROVE  Counted'
<1> USE AuthzCacheAssumption
<1>0. edits \in Nat /\ ver \in Nat /\ gen \in Nat /\ adm \in [Admin -> EditRequests]
  BY DEF TypeOK, Vers, Gens
<1>1. /\ Writing \in SUBSET Admin /\ Bumping \in SUBSET Admin
      /\ Writing' \in SUBSET Admin /\ Bumping' \in SUBSET Admin
  BY DEF Writing, Bumping
<1>2. ASSUME edits' = edits + 1, gen' = gen,
             Bumping' \subseteq Bumping \cup {a},
             \/ ver' = ver /\ Writing' \subseteq Writing \cup {a}
             \/ ver' = ver + 1 /\ Writing' \subseteq Writing
      PROVE  Counted'
  <2>1. Cardinality(Bumping') <= Cardinality(Bumping) + 1
    BY <1>1, <1>2, CountGrow
  <2>2. CASE ver' = ver /\ Writing' \subseteq Writing \cup {a}
    <3>1. /\ Cardinality(Writing') <= Cardinality(Writing) + 1
          /\ Cardinality(Writing) \in Nat /\ Cardinality(Writing') \in Nat
      BY <1>1, <2>2, CountGrow
    <3>2. Cardinality(Bumping) \in Nat /\ Cardinality(Bumping') \in Nat
      BY <1>1, CountSame
    <3> QED
      BY <1>0, <1>2, <2>1, <2>2, <3>1, <3>2 DEF Counted
  <2>3. CASE ver' = ver + 1 /\ Writing' \subseteq Writing
    BY <1>0, <1>1, <1>2, <2>1, <2>3, CountGrow, CountSame DEF Counted
  <2> QED
    BY <1>2, <2>2, <2>3
<1>3. ASSUME edits' = edits, gen' = gen, ver' = ver,
             Bumping' \subseteq Bumping, Writing' \subseteq Writing
      PROVE  Counted'
  BY <1>0, <1>1, <1>3, CountSame DEF Counted
<1>4. ASSUME NEW x \in Group, NEW S \in Sigs, CommitGrants(a, x, S) PROVE Counted'
  BY <1>0, <1>2, <1>4 DEF CommitGrants, Act, Doing, Writing, Bumping, EditRequests
<1>5. CASE Flush(a)
  BY <1>0, <1>2, <1>5 DEF Flush, Act, Doing, Writing, Bumping, EditRequests, database
<1>6. ASSUME NEW p \in Proc, Forget(a, p) PROVE Counted'
  BY <1>0, <1>3, <1>6 DEF Forget, Doing, Writing, Bumping, EditRequests, database
<1>7. CASE Incr(a)
  <2>1. a \in Bumping /\ Bumping' \in SUBSET (Bumping \ {a}) /\ Writing' \in SUBSET Writing
    BY <1>0, <1>7 DEF Incr, NoEdit, Doing, Writing, Bumping, EditRequests
  <2>2. Cardinality(Bumping') + 1 <= Cardinality(Bumping)
    BY <1>1, <2>1, CountDrop
  <2>3. Cardinality(Writing') <= Cardinality(Writing)
    BY <1>1, <2>1, CountSame
  <2>4. gen' \in {gen, gen + 1} /\ ver' = ver /\ edits' = edits
    BY <1>7 DEF Incr, database
  <2> QED
    BY <1>0, <1>1, <2>2, <2>3, <2>4, CountSame DEF Counted
<1>8. ASSUME NEW u \in User, NEW gs, CommitMembership(a, u, gs) PROVE Counted'
  BY <1>0, <1>2, <1>8 DEF CommitMembership, Act, Doing, Writing, Bumping, EditRequests
<1>9. ASSUME NEW u \in User, Del(a, u) PROVE Counted'
  <2> DEFINE left == adm[a].users \ {u}
  <2>1. /\ left # {} => AfterDel(a, left).pc = "del" /\ AfterDel(a, left).bump = adm[a].bump
        /\ left = {} /\ adm[a].bump => AfterDel(a, left).pc = "forget"
        /\ left = {} /\ ~adm[a].bump => AfterDel(a, left).pc = "idle"
    BY <1>0, <1>9 DEF AfterDel, EditRequests, NoEdit, Del, Doing
  <2> HIDE DEF left
  <2>2. adm' = [adm EXCEPT ![a] = AfterDel(a, left)] /\ adm[a].pc = "del"
    BY <1>9 DEF Del, Doing, left
  <2>3. Writing' \subseteq Writing
    BY <1>0, <2>1, <2>2 DEF Writing, Doing
  <2>4. Bumping' \subseteq Bumping
    <3>1. a \in Bumping' => a \in Bumping
      BY <1>0, <2>1, <2>2 DEF Bumping, Doing
    <3>2. \A b \in Admin \ {a} : adm'[b] = adm[b]
      BY <1>0, <2>2
    <3> QED
      BY <3>1, <3>2 DEF Bumping, Doing
  <2> QED
    BY <1>3, <1>9, <2>3, <2>4 DEF Del, database
<1>10. ASSUME NEW x \in Group, DeleteGroup(a, x) PROVE Counted'
  BY <1>0, <1>2, <1>10 DEF DeleteGroup, Act, Doing, Writing, Bumping, EditRequests, database
<1>11. CASE DeleteGlobal(a)
  <2>1. /\ a \in Writing /\ Writing' \in SUBSET (Writing \ {a})
        /\ Bumping' \in SUBSET Bumping
    BY <1>0, <1>11 DEF DeleteGlobal, Doing, Writing, Bumping, EditRequests
  <2>2. Cardinality(Writing') + 1 <= Cardinality(Writing)
    BY <1>1, <2>1, CountDrop
  <2>3. Cardinality(Bumping') <= Cardinality(Bumping)
    BY <1>1, <2>1, CountSame
  <2>4. gen' = gen /\ ver' = ver + 1 /\ edits' = edits
    BY <1>11 DEF DeleteGlobal
  <2> QED
    BY <1>0, <1>1, <2>2, <2>3, <2>4, CountSame DEF Counted
<1>12. CASE DeleteLocal(a)
  <2>1. adm[a].pc = "local"
    BY <1>12 DEF DeleteLocal, Doing
  <2>2. /\ \A b \in Admin \ {a} : adm'[b] = adm[b]
        /\ adm'[a].pc # "global"
    <3>1. ASSUME NEW pc \in {"forget", "del"},
                 adm' = [adm EXCEPT ![a] = AfterDel(a, adm[a].users), ![a].pc = pc]
          PROVE  adm'[a].pc = pc
      BY <1>0, <3>1, EditUpdates DEF EditRequests
    <3> QED
      BY <1>0, <1>12, <3>1 DEF DeleteLocal, NoEdit
  <2>3. Bumping' \subseteq Bumping /\ Writing' \subseteq Writing
    BY <2>1, <2>2 DEF Bumping, Writing, Doing
  <2> QED
    BY <1>3, <1>12, <2>3 DEF DeleteLocal
<1> QED
  BY <1>4, <1>5, <1>6, <1>7, <1>8, <1>9, <1>10, <1>11, <1>12 DEF AdminStep

\* Administrators leave requests served: all they do to one is to mark it late.
LEMMA ServedAdmin ==
    ASSUME TypeOK, Served, NEW a \in Admin, AdminStep(a)
    PROVE  Served'
<1>1. ASSUME NEW users, Overtake(users) PROVE Served'
  BY <1>1 DEF Overtake, TypeOK, Requests, Served, At
<1>2. ASSUME UNCHANGED req PROVE Served'
  BY <1>2 DEF Served, At
<1> QED
  BY <1>1, <1>2 DEF AdminStep, CommitGrants, Flush, Forget, Incr, CommitMembership, Del,
                    DeleteGroup, DeleteGlobal, DeleteLocal

\* The types and what they rest on are inductive.
LEMMA TypedStep == Typed /\ [Next]_vars => Typed'
<1> SUFFICES ASSUME Typed, [Next]_vars PROVE Typed'
  OBVIOUS
<1> USE AuthzCacheAssumption
<1>0. TypeOK /\ Counted /\ Served
  BY DEF Typed
<1>1. ASSUME NEW r \in Req, ReqStep(r) PROVE Typed'
  <2>1. UNCHANGED <<adm, ver, edits>> /\ gen' \in {gen, 1}
    BY <1>1 DEF ReqStep, Start, Groups, GroupsSet, Gen, GenRead, GenInit, GenMemo,
                Signature, SigSet, Page, PageSet, database
  <2> QED
    BY <1>0, <1>1, <2>1, TypeReq, ServedReq, CountedReq DEF Typed
<1>2. ASSUME NEW a \in Admin, AdminStep(a) PROVE Typed'
  BY <1>0, <1>2, TypeAdmin, ServedAdmin, CountedAdmin DEF Typed
<1>3. CASE Tick
  <2>1. clock' \in Times
    BY <1>0, <1>3 DEF Tick, TypeOK, Times
  <2>2. memo' \in [Proc -> Memos \cup {None}]
    BY <1>0, <1>3 DEF Tick, TypeOK
  <2>3. TypeOK'
    BY <1>0, <1>3, <2>1, <2>2 DEF Tick, TypeOK, database, entries, history
  <2>4. Served'
    BY <1>0, <1>3 DEF Tick, Served, At
  <2> QED
    BY <1>3, <2>3, <2>4, CountedReq DEF Tick, Typed, database
<1>4. CASE UNCHANGED vars
  <2>1. TypeOK' /\ Served'
    BY <1>0, <1>4 DEF vars, TypeOK, Served, At, database, entries, history
  <2> QED
    BY <1>4, <2>1, CountedReq DEF vars, Typed, database
<1> QED
  BY <1>1, <1>2, <1>3, <1>4 DEF Next

\* Every reachable state has the types of the module: in particular a process memoises
\* no failed read of the generation, and the versions and generations stay in bounds.
THEOREM TypeCorrect == Spec => []TypeOK
<1>1. Typed => TypeOK
  BY DEF Typed
<1> QED
  BY TypedInit, TypedStep, <1>1, PTL DEF Spec

--------------------------------------------------------------------------------
(* Groups *)

\* What a request is about to store is what the table says, unless it is marked late.
GroupsRead ==
    \A r \in Req : At(r, "groups-set") /\ ~req[r].late => req[r].groups = member[persona[r]]

GroupsInv == GroupsStaleOnlyLate /\ GroupsRead

\* List requests keep the groups' invariant.
LEMMA GroupsReq ==
    ASSUME TypeOK, GroupsInv, NEW r \in Req, ReqStep(r)
    PROVE  GroupsInv'
<1> USE AuthzCacheAssumption
<1>0. req \in [Req -> Requests] /\ persona[r] \in User
  BY DEF TypeOK
<1>1. ASSUME UNCHANGED <<groupsKey, member, loose, adm>>, req'[r].pc # "groups-set",
             \A o \in Req \ {r} : req'[o] = req[o]
      PROVE  GroupsInv'
  BY <1>1 DEF GroupsInv, GroupsStaleOnlyLate, GroupsRead, At, Doing
<1>2. ASSUME NEW gs PROVE WithGroups(r, gs).pc # "groups-set"
  BY <1>0 DEF WithGroups, NoRequest, Requests
<1>3. ASSUME NEW p \in Proc, Start(r, p) PROVE GroupsInv'
  BY <1>0, <1>1, <1>3 DEF Start, NoRequest, database, entries, history
<1>4. CASE Groups(r)
  <2>1. CASE req' = [req EXCEPT ![r] = WithGroups(r, groupsKey[persona[r]])]
    BY <1>0, <1>2, <1>4, <1>1, <2>1 DEF Groups, database, entries, history
  <2>2. CASE req' = [req EXCEPT ![r].pc = "groups-set", ![r].groups = member[persona[r]]]
    <3>1. /\ req'[r].groups = member[persona[r]]
          /\ \A o \in Req \ {r} : req'[o] = req[o]
      BY <1>0, <2>2 DEF Requests
    <3> QED
      BY <1>4, <3>1 DEF Groups, GroupsInv, GroupsStaleOnlyLate, GroupsRead, At, Doing,
                        database, entries, history
  <2> QED
    BY <1>4, <2>1, <2>2 DEF Groups
<1>5. CASE GroupsSet(r)
  <2>1. /\ req'[r].pc # "groups-set"
        /\ \A o \in Req \ {r} : req'[o] = req[o]
    BY <1>0, <1>2, <1>5 DEF GroupsSet
  <2>2. GroupsRead'
    BY <1>5, <2>1 DEF GroupsInv, GroupsRead, At, GroupsSet, database
  <2>3. GroupsStaleOnlyLate'
    BY <1>0, <1>5 DEF GroupsInv, GroupsRead, GroupsStaleOnlyLate, GroupsSet, At, Doing, TypeOK,
                      database
  <2> QED
    BY <2>2, <2>3 DEF GroupsInv
<1>7. ASSUME NEW g PROVE WithGen(r, g).pc \in {"sig", "page"}
  BY <1>0 DEF WithGen, Requests
<1>8. CASE Gen(r)
  <2>1. req'[r].pc # "groups-set" /\ \A o \in Req \ {r} : req'[o] = req[o]
    <3>1. ASSUME NEW g, req' = [req EXCEPT ![r] = WithGen(r, g)] PROVE <2>1!1
      BY <1>0, <1>7, <3>1
    <3>2. ASSUME req' = [req EXCEPT ![r].pc = "gen-read", ![r].now = clock] PROVE <2>1!1
      BY <1>0, <3>2 DEF Requests
    <3> QED
      BY <1>0, <1>7, <1>8 DEF Gen, Requests
  <2> QED
    BY <1>1, <1>8, <2>1 DEF Gen, database, entries, history
<1>9. CASE GenRead(r)
  BY <1>0, <1>1, <1>9 DEF GenRead, Requests, database, entries, history
<1>10. CASE GenInit(r)
  BY <1>0, <1>1, <1>10 DEF GenInit, Requests, database, entries
<1>11. CASE GenMemo(r)
  BY <1>0, <1>1, <1>7, <1>11 DEF GenMemo, database, entries, history
<1>12. CASE Signature(r)
  <2>1. ASSUME NEW sig, NEW v, req' = [req EXCEPT ![r] = WithSig(r, sig, v)]
        PROVE  req'[r].pc # "groups-set" /\ \A o \in Req \ {r} : req'[o] = req[o]
    BY <1>0, <2>1 DEF WithSig, Requests
  <2>2. ASSUME req' = [req EXCEPT ![r].pc = "sig-set", ![r].sig = Effective(req[r].groups),
                                  ![r].sver = ver]
        PROVE  req'[r].pc # "groups-set" /\ \A o \in Req \ {r} : req'[o] = req[o]
    BY <1>0, <2>2 DEF Requests
  <2> QED
    BY <1>1, <1>12, <2>1, <2>2 DEF Signature, database, entries, history
<1>13. CASE SigSet(r)
  BY <1>0, <1>1, <1>13 DEF SigSet, WithSig, Requests, database, history
<1>14. CASE Page(r) \/ PageSet(r)
  BY <1>0, <1>1, <1>14 DEF Page, PageSet, NoRequest, Requests, database, entries, history
<1> QED
  BY <1>3, <1>4, <1>5, <1>8, <1>9, <1>10, <1>11, <1>12, <1>13, <1>14 DEF ReqStep

\* Administrators keep the groups' invariant.
LEMMA GroupsAdmin ==
    ASSUME TypeOK, GroupsInv, NEW a \in Admin, AdminStep(a)
    PROVE  GroupsInv'
<1> USE AuthzCacheAssumption
<1>0. req \in [Req -> Requests] /\ adm \in [Admin -> EditRequests] /\ \A r \in Req : persona[r] \in User
  BY DEF TypeOK
<1>1. ASSUME UNCHANGED <<groupsKey, member, loose, req>>, ~Doing(a, "del"),
             \A b \in Admin \ {a} : adm'[b] = adm[b]
      PROVE  GroupsInv'
  BY <1>1 DEF GroupsInv, GroupsStaleOnlyLate, GroupsRead, At, Doing
<1>2. ASSUME NEW users \in SUBSET User, Overtake(users),
             \A u \in User \ users : member'[u] = member[u]
      PROVE  GroupsRead'
  <2>1. \A r \in Req : persona[r] \notin users => req'[r] = req[r]
    BY <1>2 DEF Overtake
  <2>2. \A r \in Req : persona[r] \in users /\ At(r, "groups-set")' => req'[r].late
    BY <1>0, <1>2 DEF Overtake, At, Requests
  <2> QED
    BY <1>0, <1>2, <2>1, <2>2 DEF GroupsInv, GroupsRead, At
<1>3. ASSUME NEW x \in Group, NEW S \in Sigs, CommitGrants(a, x, S) PROVE GroupsInv'
  BY <1>0, <1>1, <1>3 DEF CommitGrants, Act, Doing, entries, history
<1>4. CASE Flush(a)
  BY <1>0, <1>1, <1>4 DEF Flush, Act, Doing, database, entries, history
<1>5. ASSUME NEW p \in Proc, Forget(a, p) PROVE GroupsInv'
  BY <1>0, <1>1, <1>5 DEF Forget, Doing, database, entries, history
<1>6. CASE Incr(a)
  BY <1>0, <1>1, <1>6 DEF Incr, Doing, database, entries
<1>7. ASSUME NEW u \in User, NEW gs, CommitMembership(a, u, gs) PROVE GroupsInv'
  <2>1. GroupsRead'
    BY <1>2, <1>7 DEF CommitMembership, TypeOK
  <2>2. /\ Doing(a, "del")' /\ adm'[a].users = {u}
        /\ \A b \in Admin \ {a} : adm'[b] = adm[b]
    BY <1>0, <1>7 DEF CommitMembership, Doing, EditRequests
  <2>3. ~Doing(a, "del")
    BY <1>7 DEF CommitMembership, Act, Doing
  <2>4. GroupsStaleOnlyLate'
    BY <1>7, <2>2, <2>3 DEF CommitMembership, GroupsInv, GroupsStaleOnlyLate, Doing, TypeOK,
                            entries, history
  <2> QED
    BY <2>1, <2>4 DEF GroupsInv
<1>8. ASSUME NEW u \in User, Del(a, u) PROVE GroupsInv'
  <2> DEFINE left == adm[a].users \ {u}
  <2>1. left # {} => AfterDel(a, left).pc = "del" /\ AfterDel(a, left).users = left
    BY <1>0, <1>8 DEF AfterDel, EditRequests, Del, Doing
  <2>2. adm'[a] = AfterDel(a, left) /\ \A b \in Admin \ {a} : adm'[b] = adm[b]
    BY <1>0, <1>8 DEF Del
  <2>3. GroupsRead'
    BY <1>8 DEF Del, GroupsInv, GroupsRead, At, database
  <2>4. u \in loose' \/ groupsKey'[u] = None
    BY <1>8 DEF Del, TypeOK
  <2>5. \A o \in User \ {u} : /\ groupsKey'[o] = groupsKey[o] /\ member'[o] = member[o]
                              /\ o \in loose <=> o \in loose'
    BY <1>8 DEF Del, TypeOK, database
  <2>6. ASSUME NEW o \in User \ {u}, NEW b \in Admin, Doing(b, "del"), o \in adm[b].users
        PROVE  Doing(b, "del")' /\ o \in adm'[b].users
    <3>1. CASE b = a
      <4>1. o \in left
        BY <2>6, <3>1
      <4> QED
        BY <2>1, <2>2, <3>1, <4>1 DEF Doing
    <3>2. CASE b # a
      BY <2>2, <2>6, <3>2 DEF Doing
    <3> QED
      BY <3>1, <3>2
  <2> HIDE DEF left
  <2>7. GroupsStaleOnlyLate'
    BY <2>4, <2>5, <2>6 DEF GroupsInv, GroupsStaleOnlyLate
  <2> QED
    BY <2>3, <2>7 DEF GroupsInv
<1>9. ASSUME NEW x \in Group, DeleteGroup(a, x) PROVE GroupsInv'
  BY <1>0, <1>1, <1>9 DEF DeleteGroup, Act, Doing, database, entries, history
<1>10. CASE DeleteGlobal(a)
  BY <1>0, <1>1, <1>10 DEF DeleteGlobal, Doing, entries, history
<1>11. CASE DeleteLocal(a)
  <2> DEFINE x == adm[a].group
             were == {u \in User : x \in member[u]}
             pc == IF adm[a].users = {} THEN "forget" ELSE "del"
  <2>1. CASE Fault /\ adm' = [adm EXCEPT ![a] = NoEdit] /\ UNCHANGED <<member, req, loose>>
    BY <1>0, <1>1, <1>11, <2>1 DEF DeleteLocal, Doing, entries
  <2>2. CASE /\ member' = [u \in User |-> member[u] \ {x}]
             /\ Overtake(were)
             /\ adm' = [adm EXCEPT ![a] = AfterDel(a, adm[a].users), ![a].pc = pc]
             /\ loose' = loose \cup (were \ adm[a].users)
    <3>1. \A u \in User \ were : member'[u] = member[u]
      BY <2>2 DEF TypeOK
    <3>2. GroupsRead'
      BY <1>2, <2>2, <3>1
    <3>3. AfterDel(a, adm[a].users) \in EditRequests
      BY <1>0, EditUpdates DEF EditRequests
    <3>4. adm[a].users # {} => adm'[a].pc = "del" /\ adm'[a].users = adm[a].users
      BY <1>0, <2>2, <3>3 DEF AfterDel, EditRequests
    <3>5. \A b \in Admin \ {a} : adm'[b] = adm[b]
      BY <1>0, <2>2
    <3>6. groupsKey' = groupsKey /\ ~Doing(a, "del")
      BY <1>11 DEF DeleteLocal, Doing, entries
    <3> HIDE DEF x, pc
    <3>7. ASSUME NEW u \in User
          PROVE  (\/ groupsKey[u] \in {None, member[u]}
                  \/ u \in loose
                  \/ \E b \in Admin : Doing(b, "del") /\ u \in adm[b].users)'
      <4>1. CASE u \in were /\ u \in adm[a].users
        BY <3>4, <4>1 DEF Doing
      <4>2. CASE u \in were /\ u \notin adm[a].users
        BY <2>2, <4>2
      <4>3. CASE u \notin were
        <5>1. member'[u] = member[u] /\ groupsKey'[u] = groupsKey[u] /\ (u \in loose => u \in loose')
          BY <2>2, <3>1, <3>6, <4>3
        <5> QED
          BY <3>5, <3>6, <5>1 DEF GroupsInv, GroupsStaleOnlyLate, Doing
      <4> QED
        BY <4>1, <4>2, <4>3
    <3> QED
      BY <3>2, <3>7 DEF GroupsInv, GroupsStaleOnlyLate
  <2> QED
    BY <1>11, <2>1, <2>2 DEF DeleteLocal
<1> QED
  BY <1>3, <1>4, <1>5, <1>6, <1>7, <1>8, <1>9, <1>10, <1>11 DEF AdminStep

\* The groups that are cached are those of the table, or there is a reason why not.
THEOREM GroupsStaleOnlyLateAlways == Spec => []GroupsStaleOnlyLate
<1>1. Init => GroupsInv
  BY DEF Init, GroupsInv, GroupsStaleOnlyLate, GroupsRead, At, NoRequest
<1>2. Typed /\ GroupsInv /\ [Next]_vars => GroupsInv'
  <2> SUFFICES ASSUME TypeOK, GroupsInv, [Next]_vars PROVE GroupsInv'
    BY DEF Typed
  <2>1. CASE Tick \/ UNCHANGED vars
    BY <2>1 DEF Tick, vars, GroupsInv, GroupsStaleOnlyLate, GroupsRead, At, Doing, database,
                entries, history
  <2> QED
    BY <2>1, GroupsReq, GroupsAdmin DEF Next
<1>3. GroupsInv => GroupsStaleOnlyLate
  BY DEF GroupsInv
<1> QED
  BY TypedInit, TypedStep, <1>1, <1>2, <1>3, PTL DEF Spec

--------------------------------------------------------------------------------
(* Versions *)

\* A request q knows the version its signature and its page are of.
DataOf(q) ==
    /\ q.pc \in {"groups", "groups-set"} => q.turn = 1
    /\ q.pc \in {"sig-set", "page", "page-set"} \/ q.turn = 2 =>
          q.sver <= ver /\ (q.sver = ver => q.sig = Effective(q.groups))
    /\ q.pc = "page-set" =>
          /\ q.sver <= q.qver /\ q.qver <= ver
          /\ q.sver = q.qver => q.rows = q.sig

DataReqs == \A r \in Req : DataOf(req[r])

\* An entry knows the version its signature is of.
DataSigs ==
    \A g \in Gens, gs \in GroupSets :
        LET entry == sigKey[<<g, gs>>] IN
        entry # None => entry.ver <= ver /\ (entry.ver = ver => entry.sig = Effective(gs))

DataInv == DataReqs /\ DataSigs

\* List requests keep the versions straight.
LEMMA DataReq ==
    ASSUME TypeOK, DataInv, NEW r \in Req, ReqStep(r)
    PROVE  DataInv'
<1> USE AuthzCacheAssumption
<1>0. /\ req \in [Req -> Requests] /\ req[r] \in Requests /\ ver \in Nat
      /\ DataReqs /\ DataSigs /\ DataOf(req[r])
  BY DEF TypeOK, Vers, DataInv, DataReqs
<1>1. UNCHANGED <<scopes, ver>> /\ \A o \in Req \ {r} : req'[o] = req[o]
  BY <1>0 DEF ReqStep, Start, Groups, GroupsSet, Gen, GenRead, GenInit, GenMemo,
              Signature, SigSet, Page, PageSet, database
<1>3. ASSUME DataOf(req'[r]) PROVE DataReqs'
  BY <1>0, <1>1, <1>3 DEF DataReqs, DataOf, Effective
<1>4. ASSUME UNCHANGED sigKey PROVE DataSigs'
  <2>1. \A gs : Effective(gs)' = Effective(gs)
    BY <1>1 DEF Effective
  <2> QED
    BY <1>0, <1>1, <1>4, <2>1 DEF DataSigs
<1>5. DataOf(NoRequest)
  BY DEF DataOf, NoRequest
<1>6. ASSUME NEW p \in Proc, Start(r, p) PROVE DataInv'
  <2>1. DataOf(req'[r])
    BY <1>0, <1>6 DEF Start, DataOf, NoRequest
  <2> QED
    BY <1>3, <1>4, <1>6, <2>1 DEF Start, DataInv, entries
<1>7. ASSUME NEW gs, req[r].turn = 1 PROVE DataOf(WithGroups(r, gs))
  BY <1>0, <1>5, <1>7 DEF WithGroups, DataOf, Requests
<1>8. CASE Groups(r)
  <2>1. req[r].turn = 1
    BY <1>0, <1>8 DEF Groups, DataOf, At
  <2>2. CASE req' = [req EXCEPT ![r] = WithGroups(r, groupsKey[persona[r]])]
    BY <1>0, <1>3, <1>4, <1>7, <1>8, <2>1, <2>2 DEF Groups, DataInv, entries
  <2>3. CASE req' = [req EXCEPT ![r].pc = "groups-set", ![r].groups = member[persona[r]]]
    <3>1. req'[r].pc = "groups-set" /\ req'[r].turn = 1
      BY <1>0, <2>1, <2>3 DEF Requests
    <3> QED
      BY <1>3, <1>4, <1>8, <3>1 DEF Groups, DataOf, DataInv, entries
  <2> QED
    BY <1>8, <2>2, <2>3 DEF Groups
<1>9. CASE GroupsSet(r)
  <2>1. req[r].turn = 1
    BY <1>0, <1>9 DEF GroupsSet, DataOf, At
  <2> QED
    BY <1>0, <1>3, <1>4, <1>7, <1>9, <2>1 DEF GroupsSet, DataInv
<1>10. ASSUME UNCHANGED sigKey,
              req'[r].pc \in {"gen-read", "gen-init", "gen-memo", "sig", "page"},
              req'[r].pc = "page" => req[r].turn = 2,
              \A f \in {"turn", "sver", "sig", "groups"} : req'[r][f] = req[r][f]
       PROVE  DataInv'
  BY <1>0, <1>3, <1>4, <1>10 DEF DataOf, DataInv
<1>11. ASSUME NEW g, UNCHANGED sigKey, req' = [req EXCEPT ![r] = WithGen(r, g)]
       PROVE  DataInv'
  BY <1>0, <1>10, <1>11 DEF WithGen, Requests
<1>12. CASE Gen(r)
  <2>1. ASSUME req' = [req EXCEPT ![r].pc = "gen-read", ![r].now = clock] PROVE DataInv'
    BY <1>0, <1>10, <1>12, <2>1 DEF Gen, Requests, entries
  <2> QED
    BY <1>11, <1>12, <2>1 DEF Gen, entries
<1>13. CASE GenRead(r)
  BY <1>0, <1>10, <1>13 DEF GenRead, Requests, entries
<1>14. CASE GenInit(r)
  BY <1>0, <1>10, <1>14 DEF GenInit, Requests, entries
<1>15. CASE GenMemo(r)
  BY <1>11, <1>15 DEF GenMemo, entries
<1>16. CASE Signature(r)
  <2> DEFINE k == SigKeyOf(req[r].g, req[r].groups)
  <2>1. CASE /\ sigKey[k] # None
             /\ req' = [req EXCEPT ![r] = WithSig(r, sigKey[k].sig, sigKey[k].ver)]
    <3>1. /\ req'[r].pc = "gen" /\ req'[r].groups = req[r].groups
          /\ req'[r].sig = sigKey[k].sig /\ req'[r].sver = sigKey[k].ver
      BY <1>0, <2>1 DEF WithSig, Requests
    <3>2. req[r].g \in Gens /\ req[r].groups \in GroupSets
      BY <1>0 DEF Requests
    <3>3. /\ sigKey[k].ver <= ver
          /\ sigKey[k].ver = ver => sigKey[k].sig = Effective(req[r].groups)
      BY <1>0, <2>1, <3>2 DEF DataSigs, SigKeyOf
    <3> HIDE DEF k
    <3> QED
      BY <1>3, <1>4, <1>16, <3>1, <3>3 DEF Signature, DataOf, DataInv, entries
  <2>2. CASE req' = [req EXCEPT ![r].pc = "sig-set", ![r].sig = Effective(req[r].groups),
                                ![r].sver = ver]
    <3>1. /\ req'[r].pc = "sig-set" /\ req'[r].groups = req[r].groups
          /\ req'[r].sig = Effective(req[r].groups) /\ req'[r].sver = ver
      BY <1>0, <2>2 DEF Requests
    <3> QED
      BY <1>0, <1>3, <1>4, <1>16, <3>1 DEF Signature, DataOf, DataInv, entries
  <2> QED
    BY <1>16, <2>1, <2>2 DEF Signature
<1>17. CASE SigSet(r)
  <2>1. /\ req'[r].pc = "gen" /\ req'[r].groups = req[r].groups
        /\ req'[r].sig = req[r].sig /\ req'[r].sver = req[r].sver
    BY <1>0, <1>17 DEF SigSet, WithSig, Requests
  <2>2. req[r].sver <= ver /\ (req[r].sver = ver => req[r].sig = Effective(req[r].groups))
    BY <1>0, <1>17 DEF SigSet, At, DataOf
  <2>3. DataReqs'
    BY <1>3, <2>1, <2>2 DEF DataOf
  <2>4. DataSigs'
    <3>1. req[r].g \in Gens /\ req[r].groups \in GroupSets
      BY <1>0 DEF Requests
    <3>2. sigKey' = [sigKey EXCEPT ![<<req[r].g, req[r].groups>>] =
                         [sig |-> req[r].sig, ver |-> req[r].sver]]
      BY <1>17 DEF SigSet, SigKeyOf
    <3>3. \A gs : Effective(gs)' = Effective(gs)
      BY <1>1 DEF Effective
    <3>4. ASSUME NEW g \in Gens, NEW gs \in GroupSets, sigKey'[<<g, gs>>] # None
          PROVE  /\ sigKey'[<<g, gs>>].ver <= ver
                 /\ sigKey'[<<g, gs>>].ver = ver => sigKey'[<<g, gs>>].sig = Effective(gs)
      <4>1. CASE <<g, gs>> = <<req[r].g, req[r].groups>>
        <5>1. sigKey'[<<g, gs>>] = [sig |-> req[r].sig, ver |-> req[r].sver]
          BY <3>1, <3>2, <4>1 DEF TypeOK
        <5>2. gs = req[r].groups
          BY <4>1
        <5> QED
          BY <2>2, <5>1, <5>2
      <4>2. CASE <<g, gs>> # <<req[r].g, req[r].groups>>
        <5>1. sigKey'[<<g, gs>>] = sigKey[<<g, gs>>]
          BY <3>2, <4>2 DEF TypeOK
        <5> QED
          BY <1>0, <3>4, <5>1 DEF DataSigs
      <4> QED
        BY <4>1, <4>2
    <3> QED
      BY <1>1, <3>3, <3>4 DEF DataSigs
  <2> QED
    BY <2>3, <2>4 DEF DataInv
<1>18. CASE Page(r)
  <2>1. CASE req' = [req EXCEPT ![r] = NoRequest]
    BY <1>0, <1>3, <1>4, <1>5, <1>18, <2>1 DEF Page, DataInv, entries
  <2>2. CASE req' = [req EXCEPT ![r].pc = "page-set", ![r].rows = Effective(req[r].groups),
                                ![r].qver = ver]
    <3>1. /\ req'[r].pc = "page-set" /\ req'[r].rows = Effective(req[r].groups)
          /\ req'[r].qver = ver
          /\ \A f \in {"turn", "sver", "sig", "groups"} : req'[r][f] = req[r][f]
      BY <1>0, <2>2 DEF Requests
    <3>2. req[r].sver <= ver /\ (req[r].sver = ver => req[r].sig = Effective(req[r].groups))
      BY <1>0, <1>18 DEF Page, At, DataOf
    <3>3. DataOf(req'[r])
      BY <1>0, <3>1, <3>2 DEF DataOf
    <3> QED
      BY <1>3, <1>4, <1>18, <3>3 DEF Page, DataInv, entries
  <2> QED
    BY <1>18, <2>1, <2>2 DEF Page
<1>19. CASE PageSet(r)
  BY <1>0, <1>3, <1>4, <1>5, <1>19 DEF PageSet, DataInv
<1> QED
  BY <1>6, <1>8, <1>9, <1>12, <1>13, <1>14, <1>15, <1>16, <1>17, <1>18, <1>19 DEF ReqStep

\* Administrators keep the versions straight: what they change gets a version of its own.
LEMMA DataAdmin ==
    ASSUME TypeOK, DataInv, NEW a \in Admin, AdminStep(a)
    PROVE  DataInv'
<1>0. ver \in Nat /\ req \in [Req -> Requests] /\ DataReqs /\ DataSigs
  BY AuthzCacheAssumption DEF TypeOK, Vers, DataInv
<1>1. CASE ver' = ver + 1 /\ UNCHANGED <<sigKey, req>>
  <2>1. \A r \in Req : req[r].sver \in Nat /\ req[r].qver \in Nat
    BY <1>0, AuthzCacheAssumption DEF Requests, Vers
  <2>2. DataReqs'
    BY <1>0, <1>1, <2>1 DEF DataReqs, DataOf
  <2>3. \A g \in Gens, gs \in GroupSets :
           sigKey[<<g, gs>>] # None => sigKey[<<g, gs>>].ver \in Nat
    BY AuthzCacheAssumption DEF TypeOK, SigEntries, Vers
  <2>4. DataSigs'
    BY <1>0, <1>1, <2>3 DEF DataSigs
  <2> QED
    BY <2>2, <2>4 DEF DataInv
<1>2. CASE UNCHANGED <<scopes, ver, sigKey, req>>
  BY <1>2 DEF DataInv, DataReqs, DataSigs, DataOf, Effective
<1>3. ASSUME NEW users, Overtake(users), UNCHANGED <<scopes, ver, sigKey>> PROVE DataInv'
  <2>1. \A r \in Req : \A f \in {"pc", "turn", "sver", "sig", "groups", "qver", "rows"} :
           req'[r][f] = req[r][f]
    BY <1>0, <1>3 DEF Overtake, Requests
  <2>2. DataReqs'
    BY <1>0, <1>3, <2>1 DEF DataReqs, DataOf, Effective
  <2> QED
    BY <1>0, <1>3, <2>2 DEF DataInv, DataSigs, Effective
<1> QED
  BY <1>1, <1>2, <1>3 DEF AdminStep, CommitGrants, Flush, Forget, Incr, CommitMembership, Del,
        DeleteGroup, DeleteGlobal, DeleteLocal, database, entries

--------------------------------------------------------------------------------
(* Generations *)

\* Generations are made in the order of versions, by the clock, and those that have not
\* been made know nothing.
BumpsOk ==
    /\ \A h \in Gens : bumped[h].ver <= ver /\ bumped[h].at <= clock
    /\ \A h \in Gens : h = 0 \/ h > gen => bumped[h].ver = 0
    /\ \A h, k \in Gens : h <= k /\ k <= gen => bumped[h].ver <= bumped[k].ver

\* The generations after g were made at time t or later.
After(g, t) == \A h \in Gens : g < h /\ h <= gen => bumped[h].at >= t

\* Whoever came at start and holds g has missed nothing that is in force.
Recent(g, start) == \A h \in Gens : g < h /\ h <= gen => bumped[h].at + GEN_SOFT > start

MemosOk ==
    \A p \in Proc : memo[p] # None =>
        memo[p].v <= gen /\ memo[p].at <= clock /\ After(memo[p].v, memo[p].at)

SigsOk ==
    \A g \in Gens, gs \in GroupSets :
        sigKey[<<g, gs>>] # None => g <= gen /\ sigKey[<<g, gs>>].ver >= bumped[g].ver

GenOf(q) ==
    /\ q.g <= gen /\ q.start <= clock
    /\ q.pc \in {"gen-read", "gen-init", "gen-memo"} => q.start <= q.now /\ q.now <= clock
    /\ q.pc = "gen-memo" => q.g # 0 /\ After(q.g, q.now)
    /\ q.pc = "sig" => q.blind \/ (q.g # 0 /\ Recent(q.g, q.start))
    /\ q.pc = "sig-set" => q.sver >= bumped[q.g].ver
    /\ q.pc \in {"sig-set", "page", "page-set"} \/ q.turn = 2 => q.blind \/ Knows(q.start, q.sver)

GenReqs == \A r \in Req : GenOf(req[r])

GenInv == regressed \/ (BumpsOk /\ MemosOk /\ SigsOk /\ GenReqs)

\* List requests that leave the generations alone keep the invariant.
LEMMA GenReq ==
    ASSUME TypeOK, Served, GenInv, NEW r \in Req, ReqStep(r), ~GenInit(r)
    PROVE  GenInv'
<1> USE AuthzCacheAssumption
<1>0. req \in [Req -> Requests] /\ req[r] \in Requests /\ GEN_SOFT \in Nat /\ GEN_SOFT > 0
  BY DEF TypeOK
<1>1. CASE regressed
  BY <1>1 DEF ReqStep, Start, Groups, GroupsSet, Gen, GenRead, GenMemo,
              Signature, SigSet, Page, PageSet, history, GenInv
<1> SUFFICES ASSUME ~regressed PROVE GenInv'
  BY <1>1
<1>2. BumpsOk /\ MemosOk /\ SigsOk /\ GenReqs /\ GenOf(req[r])
  BY DEF GenInv, GenReqs
<1>3. /\ UNCHANGED <<gen, bumped, ver, clock>>
      /\ \A o \in Req \ {r} : req'[o] = req[o]
  BY <1>0 DEF ReqStep, Start, Groups, GroupsSet, Gen, GenRead, GenMemo,
              Signature, SigSet, Page, PageSet, database, history
<1>4. BumpsOk'
  BY <1>2, <1>3 DEF BumpsOk
<1>5. ASSUME UNCHANGED memo PROVE MemosOk'
  BY <1>2, <1>3, <1>5 DEF MemosOk, After
<1>6. ASSUME UNCHANGED sigKey PROVE SigsOk'
  BY <1>2, <1>3, <1>6 DEF SigsOk
<1>7. ASSUME GenOf(req'[r]) PROVE GenReqs'
  BY <1>2, <1>3, <1>7 DEF GenReqs, GenOf, After, Recent, Knows
<1>8. ASSUME UNCHANGED <<memo, sigKey>>, GenOf(req'[r]) PROVE GenInv'
  BY <1>4, <1>5, <1>6, <1>7, <1>8 DEF GenInv
<1>9. /\ clock \in Nat /\ gen \in Nat /\ ver \in Nat
      /\ \A h \in Gens : h \in Nat /\ bumped[h].at \in Nat /\ bumped[h].ver \in Nat
      /\ gen \in Gens /\ req[r].g \in Gens /\ req[r].start \in Nat /\ req[r].now \in Nat
      /\ req[r].sver \in Nat
      /\ \A h \in 1 .. gen : h \in Gens
  <2>1. clock \in Times /\ gen \in Gens /\ ver \in Vers /\ bumped \in [Gens -> Bumps]
    BY DEF TypeOK
  <2>2. /\ req[r].g \in Gens /\ req[r].start \in Times /\ req[r].now \in Times
        /\ req[r].sver \in Vers
    BY <1>0 DEF Requests
  <2>3. \A h \in Gens : bumped[h].at \in Times /\ bumped[h].ver \in Vers
    BY <2>1 DEF Bumps
  <2> QED
    BY <2>1, <2>2, <2>3 DEF Times, Gens, Vers
<1>10. GenOf(NoRequest)
  BY <1>9 DEF GenOf, NoRequest
<1>11. ASSUME NEW p \in Proc, Start(r, p) PROVE GenInv'
  <2>1. GenOf(req'[r])
    BY <1>0, <1>9, <1>11 DEF Start, GenOf, NoRequest
  <2> QED
    BY <1>8, <1>11, <2>1 DEF Start, entries
<1>12. ASSUME NEW gs, ~At(r, "idle") PROVE GenOf(WithGroups(r, gs))
  BY <1>0, <1>2, <1>10 DEF WithGroups, GenOf, Requests
<1>13. CASE Groups(r)
  <2>1. CASE req' = [req EXCEPT ![r] = WithGroups(r, groupsKey[persona[r]])]
    BY <1>0, <1>8, <1>12, <1>13, <2>1 DEF Groups, At, entries
  <2>2. CASE req' = [req EXCEPT ![r].pc = "groups-set", ![r].groups = member[persona[r]]]
    <3>1. /\ req'[r].pc = "groups-set"
          /\ \A f \in {"turn", "g", "start", "sver", "blind"} : req'[r][f] = req[r][f]
      BY <1>0, <2>2 DEF Requests
    <3>2. GenOf(req'[r])
      BY <1>2, <3>1 DEF GenOf
    <3> QED
      BY <1>8, <1>13, <3>2 DEF Groups, entries
  <2> QED
    BY <1>13, <2>1, <2>2 DEF Groups
<1>14. CASE GroupsSet(r)
  BY <1>0, <1>8, <1>12, <1>14 DEF GroupsSet, At
\* What has been read recently enough will do for the signature.
<1>15. ASSUME NEW g \in Gens, g <= gen, g = 0 \/ Recent(g, req[r].start)
       PROVE  GenOf(WithGen(r, g))
  <2>1. CASE req[r].turn = 1
    <3>1. /\ WithGen(r, g).pc = "sig" /\ WithGen(r, g).g = g /\ WithGen(r, g).turn = 1
          /\ WithGen(r, g).start = req[r].start /\ (WithGen(r, g).blind <=> g = 0)
      BY <1>0, <2>1 DEF WithGen, Requests
    <3> QED
      BY <1>2, <1>15, <3>1 DEF GenOf
  <2>2. CASE req[r].turn # 1
    <3>1. /\ WithGen(r, g).pc = "page" /\ WithGen(r, g).g = g
          /\ \A f \in {"turn", "start", "sver", "blind"} : WithGen(r, g)[f] = req[r][f]
      BY <1>0, <2>2 DEF WithGen, Requests
    <3>2. req[r].turn = 2
      BY <1>0, <2>2 DEF Requests
    <3> QED
      BY <1>2, <1>15, <3>1, <3>2 DEF GenOf
  <2> QED
    BY <2>1, <2>2
<1>16. CASE Gen(r)
  <2> DEFINE m == memo[req[r].process]
  <2>1. CASE Fresh(m, clock) /\ req' = [req EXCEPT ![r] = WithGen(r, m.v)]
    <3>1. req[r].process \in Proc /\ m # None
      BY <1>16, <2>1 DEF Gen, Served, At, Fresh
    <3>2. m.v \in Gens /\ m.at \in Nat /\ m.v <= gen /\ After(m.v, m.at)
      BY <1>2, <3>1 DEF TypeOK, Memos, MemosOk, Times
    <3>3. clock < m.at + GEN_SOFT /\ req[r].start <= clock
      BY <1>2, <2>1 DEF Fresh, GenOf
    <3> HIDE DEF m
    <3>4. Recent(m.v, req[r].start)
      BY <1>0, <1>9, <3>2, <3>3 DEF After, Recent
    <3>5. GenOf(WithGen(r, m.v))
      BY <1>15, <3>2, <3>4
    <3>6. GenOf(req'[r])
      BY <1>0, <2>1, <3>5
    <3> QED
      BY <1>8, <1>16, <3>6 DEF Gen, entries
  <2>2. CASE req' = [req EXCEPT ![r].pc = "gen-read", ![r].now = clock]
    <3>1. /\ req'[r].pc = "gen-read" /\ req'[r].now = clock
          /\ \A f \in {"turn", "g", "start", "sver", "blind"} : req'[r][f] = req[r][f]
      BY <1>0, <2>2 DEF Requests
    <3>2. GenOf(req'[r])
      BY <1>2, <1>9, <3>1 DEF GenOf
    <3> QED
      BY <1>8, <1>16, <3>2 DEF Gen, entries
  <2>3. CASE req' = [req EXCEPT ![r] = WithGen(r, 0)]
    <3>1. GenOf(WithGen(r, 0))
      BY <1>9, <1>15 DEF Gens
    <3> QED
      BY <1>0, <1>8, <1>16, <2>3, <3>1 DEF Gen, entries
  <2> QED
    BY <1>16, <2>1, <2>2, <2>3 DEF Gen
<1>17. CASE GenRead(r)
  <2>1. /\ req'[r].pc = (IF gen = 0 THEN "gen-init" ELSE "gen-memo") /\ req'[r].g = gen
        /\ \A f \in {"turn", "now", "start", "sver", "blind"} : req'[r][f] = req[r][f]
    BY <1>0, <1>17 DEF GenRead, Requests
  <2>2. req[r].start <= req[r].now /\ req[r].now <= clock
    BY <1>2, <1>17 DEF GenRead, At, GenOf
  <2>3. After(gen, req[r].now)
    BY <1>9 DEF After
  <2>4. GenOf(req'[r])
    BY <1>2, <1>9, <2>1, <2>2, <2>3 DEF GenOf
  <2> QED
    BY <1>8, <1>17, <2>4 DEF GenRead, entries
<1>18. CASE GenMemo(r)
  <2>1. /\ req[r].g <= gen /\ After(req[r].g, req[r].now)
        /\ req[r].start <= req[r].now /\ req[r].now <= clock
    BY <1>2, <1>18 DEF GenMemo, At, GenOf
  <2>2. Recent(req[r].g, req[r].start)
    BY <1>0, <1>9, <2>1 DEF After, Recent
  <2>3. GenOf(req'[r])
    BY <1>0, <1>9, <1>15, <1>18, <2>1, <2>2 DEF GenMemo
  <2>4. MemosOk'
    <3>1. ASSUME NEW p \in Proc, memo'[p] # None
          PROVE  memo'[p].v <= gen /\ memo'[p].at <= clock /\ After(memo'[p].v, memo'[p].at)
      <4>1. CASE p = req[r].process
        <5>1. memo'[p] = [v |-> req[r].g, at |-> req[r].now]
          BY <1>18, <4>1 DEF GenMemo, TypeOK
        <5> QED
          BY <2>1, <5>1
      <4>2. CASE p # req[r].process
        <5>1. memo'[p] = memo[p]
          BY <1>18, <4>2 DEF GenMemo, TypeOK
        <5> QED
          BY <1>2, <3>1, <5>1 DEF MemosOk
      <4> QED
        BY <4>1, <4>2
    <3> QED
      BY <1>3, <3>1 DEF MemosOk, After
  <2> QED
    BY <1>4, <1>6, <1>7, <1>18, <2>3, <2>4 DEF GenMemo, GenInv, entries
\* The signature of a recent generation knows what is in force.
<1>19. ASSUME NEW v \in Vers, v >= bumped[req[r].g].ver,
              req[r].blind \/ (req[r].g # 0 /\ Recent(req[r].g, req[r].start))
       PROVE  req[r].blind \/ Knows(req[r].start, v)
  <2>1. ASSUME NEW h \in 1 .. gen, Recent(req[r].g, req[r].start),
               bumped[h].at + GEN_SOFT <= req[r].start
        PROVE  bumped[h].ver <= v
    <3>3. /\ h \in Gens /\ h \in Nat /\ h <= gen /\ req[r].g \in Nat /\ req[r].g <= gen
          /\ bumped[h].at \in Nat /\ bumped[h].ver \in Nat /\ bumped[req[r].g].ver \in Nat
      <4>1. h \in Gens /\ req[r].g \in Gens
        BY <1>9
      <4>2. /\ h \in Nat /\ bumped[h].at \in Nat /\ bumped[h].ver \in Nat
            /\ req[r].g \in Nat /\ bumped[req[r].g].ver \in Nat
        BY <1>9, <4>1
      <4>3. h <= gen /\ req[r].g <= gen
        BY <1>2, <1>9 DEF GenOf
      <4> QED
        BY <4>1, <4>2, <4>3
    <3>1. h <= req[r].g
      BY <1>0, <1>9, <2>1, <3>3 DEF Recent
    <3>2. bumped[h].ver <= bumped[req[r].g].ver
      BY <1>2, <1>9, <3>1, <3>3 DEF BumpsOk
    <3>4. v \in Nat /\ v >= bumped[req[r].g].ver
      BY <1>19 DEF Vers
    <3> QED
      BY <3>2, <3>3, <3>4
  <2> QED
    BY <1>19, <2>1 DEF Knows
<1>20. CASE Signature(r)
  <2> DEFINE k == SigKeyOf(req[r].g, req[r].groups)
  <2>1. req[r].blind \/ (req[r].g # 0 /\ Recent(req[r].g, req[r].start))
    BY <1>2, <1>20 DEF Signature, At, GenOf
  <2>2. CASE /\ sigKey[k] # None
             /\ req' = [req EXCEPT ![r] = WithSig(r, sigKey[k].sig, sigKey[k].ver)]
    <3>1. k \in Gens \X GroupSets
      BY <1>0 DEF Requests, SigKeyOf
    <3>2. sigKey[k].ver >= bumped[req[r].g].ver /\ sigKey[k].ver \in Vers
      BY <1>2, <1>9, <2>2, <3>1 DEF SigsOk, SigKeyOf, TypeOK, SigEntries, Requests
    <3>3. /\ req'[r].pc = "gen" /\ req'[r].sver = sigKey[k].ver
          /\ \A f \in {"g", "start", "blind"} : req'[r][f] = req[r][f]
      BY <1>0, <2>2 DEF WithSig, Requests
    <3> HIDE DEF k
    <3>4. GenOf(req'[r])
      BY <1>2, <1>19, <2>1, <3>2, <3>3 DEF GenOf
    <3> QED
      BY <1>8, <1>20, <3>4 DEF Signature, entries
  <2>3. CASE req' = [req EXCEPT ![r].pc = "sig-set", ![r].sig = Effective(req[r].groups),
                                ![r].sver = ver]
    <3>1. /\ req'[r].pc = "sig-set" /\ req'[r].sver = ver
          /\ \A f \in {"g", "start", "blind"} : req'[r][f] = req[r][f]
      BY <1>0, <2>3 DEF Requests
    <3>2. ver >= bumped[req[r].g].ver /\ ver \in Vers
      BY <1>2, <1>9 DEF BumpsOk, TypeOK
    <3>3. GenOf(req'[r])
      BY <1>2, <1>19, <2>1, <3>1, <3>2 DEF GenOf
    <3> QED
      BY <1>8, <1>20, <3>3 DEF Signature, entries
  <2> QED
    BY <1>20, <2>2, <2>3 DEF Signature
<1>21. CASE SigSet(r)
  <2>1. /\ req[r].sver >= bumped[req[r].g].ver
        /\ req[r].blind \/ Knows(req[r].start, req[r].sver)
    BY <1>2, <1>21 DEF SigSet, At, GenOf
  <2>2. /\ req'[r].pc = "gen"
        /\ \A f \in {"g", "start", "blind", "sver"} : req'[r][f] = req[r][f]
    BY <1>0, <1>21 DEF SigSet, WithSig, Requests
  <2>3. GenOf(req'[r])
    BY <1>2, <2>1, <2>2 DEF GenOf
  <2>4. SigsOk'
    <3>1. req[r].g \in Gens /\ req[r].groups \in GroupSets
      BY <1>0 DEF Requests
    <3>2. sigKey' = [sigKey EXCEPT ![<<req[r].g, req[r].groups>>] =
                         [sig |-> req[r].sig, ver |-> req[r].sver]]
      BY <1>21 DEF SigSet, SigKeyOf
    <3>3. ASSUME NEW g \in Gens, NEW gs \in GroupSets, sigKey'[<<g, gs>>] # None
          PROVE  g <= gen /\ sigKey'[<<g, gs>>].ver >= bumped[g].ver
      <4>1. CASE <<g, gs>> = <<req[r].g, req[r].groups>>
        <5>1. sigKey'[<<g, gs>>] = [sig |-> req[r].sig, ver |-> req[r].sver] /\ g = req[r].g
          BY <3>1, <3>2, <4>1 DEF TypeOK
        <5> QED
          BY <1>2, <2>1, <5>1 DEF GenOf
      <4>2. CASE <<g, gs>> # <<req[r].g, req[r].groups>>
        <5>1. sigKey'[<<g, gs>>] = sigKey[<<g, gs>>]
          BY <3>2, <4>2 DEF TypeOK
        <5> QED
          BY <1>2, <3>3, <5>1 DEF SigsOk
      <4> QED
        BY <4>1, <4>2
    <3> QED
      BY <1>3, <3>3 DEF SigsOk
  <2> QED
    BY <1>4, <1>5, <1>7, <1>21, <2>3, <2>4 DEF SigSet, GenInv
<1>22. CASE Page(r)
  <2>1. CASE req' = [req EXCEPT ![r] = NoRequest]
    BY <1>0, <1>8, <1>10, <1>22, <2>1 DEF Page, entries
  <2>2. CASE req' = [req EXCEPT ![r].pc = "page-set", ![r].rows = Effective(req[r].groups),
                                ![r].qver = ver]
    <3>1. /\ req'[r].pc = "page-set"
          /\ \A f \in {"g", "start", "blind", "sver"} : req'[r][f] = req[r][f]
      BY <1>0, <2>2 DEF Requests
    <3>2. GenOf(req'[r])
      BY <1>2, <1>22, <3>1 DEF GenOf, Page, At
    <3> QED
      BY <1>8, <1>22, <3>2 DEF Page, entries
  <2> QED
    BY <1>22, <2>1, <2>2 DEF Page
<1>23. CASE PageSet(r)
  BY <1>0, <1>8, <1>10, <1>23 DEF PageSet
<1> QED
  BY <1>11, <1>13, <1>14, <1>16, <1>17, <1>18, <1>20, <1>21, <1>22, <1>23 DEF ReqStep

\* What GenInv needs to know of the types.
LEMMA GenTypes ==
    ASSUME TypeOK
    PROVE  /\ clock \in Nat /\ gen \in Nat /\ ver \in Nat /\ gen \in Gens
           /\ \A h \in Gens : h \in Nat /\ bumped[h].at \in Nat /\ bumped[h].ver \in Nat
           /\ \A h \in 1 .. gen : h \in Gens
           /\ GEN_SOFT \in Nat /\ GEN_SOFT > 0
<1> USE AuthzCacheAssumption
<1>1. clock \in Times /\ gen \in Gens /\ ver \in Vers /\ bumped \in [Gens -> Bumps]
  BY DEF TypeOK
<1>2. \A h \in Gens : bumped[h].at \in Times /\ bumped[h].ver \in Vers
  BY <1>1 DEF Bumps
<1> QED
  BY <1>1, <1>2 DEF Times, Gens, Vers

\* The same of a request.
LEMMA GenReqTypes ==
    ASSUME TypeOK, NEW r \in Req
    PROVE  /\ req[r].g \in Gens /\ req[r].g \in Nat /\ req[r].start \in Nat
           /\ req[r].now \in Nat /\ req[r].sver \in Nat
<1>1. /\ req[r].g \in Gens /\ req[r].start \in Times /\ req[r].now \in Times
      /\ req[r].sver \in Vers
  BY DEF TypeOK, Requests
<1> QED
  BY <1>1, AuthzCacheAssumption DEF Times, Gens, Vers

\* The first SET of the generation finds nobody with a generation, or undoes bumps.
LEMMA GenInitStep ==
    ASSUME TypeOK, GenInv, NEW r \in Req, GenInit(r)
    PROVE  GenInv'
<1> USE AuthzCacheAssumption
<1>1. CASE regressed \/ gen > 1
  BY <1>1 DEF GenInit, GenInv
<1> SUFFICES ASSUME ~regressed, ~(gen > 1) PROVE GenInv'
  BY <1>1
<1>2. BumpsOk /\ MemosOk /\ SigsOk /\ GenReqs
  BY DEF GenInv
<1>3. UNCHANGED <<bumped, ver, clock, memo, sigKey>> /\ gen' = 1 /\ gen \in {0, 1}
  BY GenTypes DEF GenInit, database, entries
<1>4. 0 \in Gens /\ 1 \in Gens /\ Gens \subseteq Nat
  BY DEF Gens
<1>5. bumped[0].ver = 0 /\ (gen = 0 => bumped[1].ver = 0)
  BY <1>2, <1>4 DEF BumpsOk
<1>6. BumpsOk'
  <2>1. ASSUME NEW h \in Gens, NEW k \in Gens, h <= k, k <= 1
        PROVE  bumped[h].ver <= bumped[k].ver
    <3>1. CASE gen = 1
      BY <1>2, <2>1, <3>1 DEF BumpsOk
    <3>2. CASE gen = 0
      <4>1. h \in {0, 1} /\ k \in {0, 1}
        BY <1>4, <2>1
      <4> QED
        BY <1>5, <3>2, <4>1
    <3> QED
      BY <1>3, <3>1, <3>2
  <2>2. \A h \in Gens : h = 0 \/ h > 1 => bumped[h].ver = 0
    BY <1>2, <1>3, <1>4 DEF BumpsOk
  <2> QED
    BY <1>2, <1>3, <2>1, <2>2 DEF BumpsOk
<1>7. MemosOk'
  <2>1. ASSUME NEW p \in Proc, memo[p] # None
        PROVE  memo[p].v <= 1 /\ memo[p].at <= clock /\ After(memo[p].v, memo[p].at)'
    <3>1. memo[p].v \in Nat /\ memo[p].v # 0 /\ memo[p].v <= gen
      BY <1>2, <1>4, <2>1 DEF MemosOk, TypeOK, Memos
    <3>2. gen = 1
      BY <1>3, <3>1
    <3> QED
      BY <1>2, <1>3, <2>1, <3>2 DEF MemosOk, After
  <2> QED
    BY <1>3, <2>1 DEF MemosOk
<1>8. SigsOk'
  BY <1>2, <1>3, <1>4 DEF SigsOk
<1>9. ASSUME NEW o \in Req, o # r PROVE GenOf(req[o])'
  <2>1. GenOf(req[o]) /\ req'[o] = req[o]
    BY <1>2, <1>9 DEF GenReqs, GenInit, TypeOK
  <2>2. CASE gen = 1
    BY <1>3, <2>1, <2>2 DEF GenOf, After, Recent, Knows
  <2>3. CASE gen = 0
    <3>1. req[o].g = 0 /\ req[o].sver \in Nat
      BY <2>1, <2>3, GenReqTypes DEF GenOf
    <3>2. \A v \in Nat : Knows(req[o].start, v)'
      BY <1>3, <1>5, <2>1, <2>3 DEF Knows
    <3> QED
      BY <1>3, <2>1, <3>1, <3>2 DEF GenOf
  <2> QED
    BY <1>3, <2>2, <2>3
<1>10. GenOf(req[r])'
  <2>1. /\ req'[r].pc = "gen-memo" /\ req'[r].g = 1
        /\ \A f \in {"turn", "now", "start", "sver", "blind"} : req'[r][f] = req[r][f]
    BY DEF GenInit, TypeOK, Requests
  <2>2. GenOf(req[r]) /\ req[r].pc = "gen-init"
    BY <1>2 DEF GenReqs, GenInit, At
  <2>3. After(1, req[r].now)'
    <3>1. \A h \in Gens : ~(1 < h /\ h <= gen')
      BY <1>3, <1>4
    <3> QED
      BY <3>1 DEF After
  <2>4. ASSUME NEW t, NEW v \in Nat, Knows(t, v) PROVE Knows(t, v)'
    <3>1. \A h \in 1 .. 1 : h \in 1 .. gen \/ bumped[h].ver = 0
      BY <1>3, <1>5
    <3>2. \A h \in 1 .. 1 : bumped[h].ver <= v \/ bumped[h].ver # 0
      OBVIOUS
    <3> QED
      BY <1>3, <2>4, <3>1, <3>2 DEF Knows
  <2> QED
    BY <1>3, <2>1, <2>2, <2>3, <2>4, GenReqTypes DEF GenOf
<1>11. GenReqs'
  BY <1>9, <1>10 DEF GenReqs
<1> QED
  BY <1>6, <1>7, <1>8, <1>11 DEF GenInv

\* A bump makes a generation that knows every version, now.
LEMMA GenIncr ==
    ASSUME TypeOK, GenInv, gen + 1 \in Gens,
           UNCHANGED <<ver, clock, memo, sigKey, req, regressed>>,
           gen' = gen + 1,
           bumped' = [bumped EXCEPT ![gen + 1] = [ver |-> ver, at |-> clock]]
    PROVE  GenInv'
<1> USE GenTypes
<1> SUFFICES ASSUME ~regressed PROVE GenInv'
  BY DEF GenInv
<1>1. BumpsOk /\ MemosOk /\ SigsOk /\ GenReqs
  BY DEF GenInv
<1>2. /\ bumped'[gen + 1].ver = ver /\ bumped'[gen + 1].at = clock
      /\ \A h \in Gens : h # gen + 1 => bumped'[h] = bumped[h]
  BY DEF TypeOK
<1>3. \A h \in Gens : h <= gen' => h <= gen \/ h = gen + 1
  OBVIOUS
<1>4. BumpsOk'
  <2>1. \A h \in Gens : bumped'[h].ver <= ver /\ bumped'[h].at <= clock
    BY <1>1, <1>2 DEF BumpsOk
  <2>2. \A h \in Gens : h = 0 \/ h > gen + 1 => bumped'[h].ver = 0
    BY <1>1, <1>2 DEF BumpsOk
  <2>3. ASSUME NEW h \in Gens, NEW k \in Gens, h <= k, k <= gen + 1
        PROVE  bumped'[h].ver <= bumped'[k].ver
    <3>1. CASE k = gen + 1
      BY <1>2, <2>1, <3>1
    <3>2. CASE k # gen + 1
      BY <1>1, <1>2, <1>3, <2>3, <3>2 DEF BumpsOk
    <3> QED
      BY <3>1, <3>2
  <2> QED
    BY <2>1, <2>2, <2>3 DEF BumpsOk
<1>5. ASSUME NEW g \in Gens, NEW t \in Nat, t <= clock, After(g, t) PROVE After(g, t)'
  BY <1>2, <1>3, <1>5 DEF After
<1>6. ASSUME NEW g \in Gens, NEW t \in Nat, t <= clock, Recent(g, t) PROVE Recent(g, t)'
  <2>1. clock + GEN_SOFT > t
    BY <1>6
  <2> QED
    BY <1>2, <1>3, <1>6, <2>1 DEF Recent
<1>7. ASSUME NEW v, NEW t \in Nat, t <= clock, Knows(t, v) PROVE Knows(t, v)'
  <2>1. ~(clock + GEN_SOFT <= t)
    BY <1>7
  <2>2. \A h \in 1 .. gen' : h \in 1 .. gen \/ h = gen + 1
    OBVIOUS
  <2>3. \A h \in 1 .. gen : bumped'[h] = bumped[h]
    BY <1>2
  <2> QED
    BY <1>2, <1>7, <2>1, <2>2, <2>3 DEF Knows
<1>8. MemosOk'
  <2>1. ASSUME NEW p \in Proc, memo[p] # None
        PROVE  memo[p].v <= gen' /\ memo[p].at <= clock /\ After(memo[p].v, memo[p].at)'
    <3>1. memo[p].v \in Gens /\ memo[p].at \in Times
      BY <2>1 DEF TypeOK, Memos
    <3>2. memo[p].v \in Nat /\ memo[p].at \in Nat
      BY <3>1, AuthzCacheAssumption DEF Times
    <3> QED
      BY <1>1, <1>5, <2>1, <3>1, <3>2 DEF MemosOk
  <2> QED
    BY <2>1 DEF MemosOk
<1>9. SigsOk'
  BY <1>1, <1>2 DEF SigsOk
<1>10. ASSUME NEW o \in Req PROVE GenOf(req[o])'
  <2>1. GenOf(req[o])
    BY <1>1 DEF GenReqs
  <2>2. /\ req[o].g \in Gens /\ req[o].g \in Nat /\ req[o].start \in Nat
        /\ req[o].now \in Nat /\ req[o].sver \in Nat
    BY GenReqTypes
  <2>3. bumped'[req[o].g] = bumped[req[o].g] /\ req[o].g <= gen'
    BY <1>2, <2>1, <2>2 DEF GenOf
  <2> QED
    BY <1>5, <1>6, <1>7, <2>1, <2>2, <2>3 DEF GenOf
<1> QED
  BY <1>4, <1>8, <1>9, <1>10 DEF GenInv, GenReqs

\* Administrators keep the generations' invariant.
LEMMA GenAdmin ==
    ASSUME Typed, GenInv, NEW a \in Admin, AdminStep(a)
    PROVE  GenInv'
<1>0. TypeOK /\ req \in [Req -> Requests]
  BY DEF Typed, TypeOK
<1>1. CASE regressed
  BY <1>1 DEF AdminStep, CommitGrants, Flush, Forget, Incr, CommitMembership, Del,
              DeleteGroup, DeleteGlobal, DeleteLocal, history, GenInv
<1> SUFFICES ASSUME ~regressed PROVE GenInv'
  BY <1>1
<1>2. BumpsOk /\ MemosOk /\ SigsOk /\ GenReqs
  BY DEF GenInv
\* A committed edit, or a step that is nothing to the generations.
<1>3. ASSUME UNCHANGED <<gen, bumped, clock, sigKey, req>>, ver' \in {ver, ver + 1},
             \A p \in Proc : memo'[p] \in {memo[p], None}
      PROVE  GenInv'
  <2>1. BumpsOk'
    BY <1>0, <1>2, <1>3, GenTypes DEF BumpsOk
  <2>2. MemosOk' /\ SigsOk'
    BY <1>2, <1>3 DEF MemosOk, SigsOk, After
  <2>3. GenReqs'
    BY <1>2, <1>3 DEF GenReqs, GenOf, After, Recent, Knows
  <2> QED
    BY <2>1, <2>2, <2>3 DEF GenInv
\* Requests are marked late, which is nothing to the generations either.
<1>4. ASSUME NEW users, Overtake(users), UNCHANGED <<gen, bumped, clock, sigKey, ver, memo>>
      PROVE  GenInv'
  <2>1. BumpsOk' /\ MemosOk' /\ SigsOk'
    BY <1>2, <1>4 DEF BumpsOk, MemosOk, SigsOk, After
  <2>2. \A r \in Req : \A f \in {"pc", "turn", "g", "now", "start", "sver", "blind"} :
           req'[r][f] = req[r][f]
    BY <1>0, <1>4 DEF Overtake, Requests
  <2>3. ASSUME NEW r \in Req PROVE GenOf(req[r])'
    <3>1. GenOf(req[r])
      BY <1>2 DEF GenReqs
    <3> QED
      BY <1>4, <2>2, <3>1 DEF GenOf, After, Recent, Knows
  <2> QED
    BY <2>1, <2>3 DEF GenInv, GenReqs
<1>5. CASE Incr(a)
  <2>1. CASE Fault /\ UNCHANGED <<gen, bumped>>
    BY <1>3, <1>5, <2>1 DEF Incr, database, entries
  <2>2. CASE gen' = gen + 1 /\ bumped' = [bumped EXCEPT ![gen + 1] = [ver |-> ver, at |-> clock]]
    <3>1. a \in Bumping
      BY <1>5 DEF Incr, Bumping, Doing
    <3>2. Cardinality({}) = 0 /\ {} \in SUBSET (Bumping \ {a})
      BY FS_EmptySet
    <3>3. 1 <= Cardinality(Bumping) /\ Cardinality(Bumping) \in Nat
      BY <3>1, <3>2, CountDrop DEF Bumping
    <3>4. gen + 1 \in Gens
      BY <1>0, <3>3, AuthzCacheAssumption DEF Typed, Counted, Gens, TypeOK
    <3> QED
      BY <1>0, <1>5, <2>2, <3>4, GenIncr DEF Incr, database, entries
  <2> QED
    BY <1>5, <2>1, <2>2 DEF Incr
<1>6. ASSUME NEW p \in Proc, Forget(a, p) PROVE GenInv'
  <2>1. \A o \in Proc : memo'[o] \in {memo[o], None}
    BY <1>0, <1>6 DEF Forget, TypeOK
  <2> QED
    BY <1>3, <1>6, <2>1 DEF Forget, database, entries, history
<1>7. ASSUME NEW u, NEW gs, CommitMembership(a, u, gs) PROVE GenInv'
  BY <1>4, <1>7 DEF CommitMembership, entries, history
<1>8. CASE DeleteLocal(a)
  BY <1>3, <1>4, <1>8 DEF DeleteLocal, entries, history
<1> QED
  BY <1>3, <1>5, <1>6, <1>7, <1>8 DEF AdminStep, CommitGrants, Flush, Del, DeleteGroup,
        DeleteGlobal, database, entries, history

\* Time passes, and what was memoised is forgotten or still there.
LEMMA GenTick ==
    ASSUME TypeOK, GenInv, Tick
    PROVE  GenInv'
<1>0. /\ UNCHANGED <<gen, bumped, ver, sigKey, req, regressed>> /\ clock' = clock + 1
      /\ \A p \in Proc : memo'[p] \in {memo[p], None}
  BY DEF Tick, TypeOK, database, entries, history
<1> SUFFICES ASSUME ~regressed PROVE GenInv'
  BY <1>0 DEF GenInv
<1>1. BumpsOk /\ MemosOk /\ SigsOk /\ GenReqs
  BY DEF GenInv
<1>2. BumpsOk'
  BY <1>0, <1>1, GenTypes DEF BumpsOk
<1>3. MemosOk'
  <2>1. ASSUME NEW p \in Proc, memo[p] # None PROVE memo[p].at \in Nat
    BY <2>1, AuthzCacheAssumption DEF TypeOK, Memos, Times
  <2> QED
    BY <1>0, <1>1, <2>1, GenTypes DEF MemosOk, After
<1>4. SigsOk'
  BY <1>0, <1>1 DEF SigsOk
<1>5. ASSUME NEW r \in Req PROVE GenOf(req[r])'
  <2>1. GenOf(req[r])
    BY <1>1 DEF GenReqs
  <2> QED
    BY <1>0, <2>1, GenTypes, GenReqTypes DEF GenOf, After, Recent, Knows
<1> QED
  BY <1>2, <1>3, <1>4, <1>5 DEF GenInv, GenReqs

--------------------------------------------------------------------------------
(* The invariants *)

IInv == Typed /\ DataInv /\ GenInv

\* IInv holds initially.
LEMMA IInvInit == Init => IInv
<1> SUFFICES ASSUME Init PROVE DataInv /\ GenInv
  BY TypedInit DEF IInv
<1>1. DataInv
  BY DEF Init, DataInv, DataReqs, DataSigs, DataOf, NoRequest
<1>2. \A h \in Gens : h \in Nat
  BY AuthzCacheAssumption DEF Gens
<1>3. BumpsOk /\ MemosOk /\ SigsOk
  BY <1>2 DEF Init, BumpsOk, MemosOk, SigsOk
<1>4. GenReqs
  BY DEF Init, GenReqs, GenOf, NoRequest
<1> QED
  BY <1>1, <1>3, <1>4 DEF GenInv

\* The strengthened invariant (types and bounds, what versions signatures and pages are
\* of, what holders of a generation may have missed) holds always.
THEOREM Inductive == Spec => []IInv
<1>1. IInv /\ [Next]_vars => IInv'
  <2> SUFFICES ASSUME IInv, [Next]_vars PROVE DataInv' /\ GenInv'
    BY TypedStep DEF IInv
  <2>0. Typed /\ TypeOK /\ Served /\ DataInv /\ GenInv
    BY DEF IInv, Typed
  <2>1. ASSUME NEW r \in Req, ReqStep(r) PROVE DataInv' /\ GenInv'
    BY <2>0, <2>1, DataReq, GenReq, GenInitStep
  <2>2. ASSUME NEW a \in Admin, AdminStep(a) PROVE DataInv' /\ GenInv'
    BY <2>0, <2>2, DataAdmin, GenAdmin
  <2>3. ASSUME UNCHANGED <<scopes, ver, sigKey, req>> PROVE DataInv'
    BY <2>0, <2>3 DEF DataInv, DataReqs, DataSigs, DataOf, Effective
  <2>4. CASE Tick
    BY <2>0, <2>3, <2>4, GenTick DEF Tick, database, entries
  <2>5. CASE UNCHANGED vars
    BY <2>0, <2>3, <2>5 DEF vars, database, entries, history, GenInv, BumpsOk, MemosOk, SigsOk,
          GenReqs, GenOf, After, Recent, Knows
  <2> QED
    BY <2>1, <2>2, <2>4, <2>5 DEF Next
<1> QED
  BY IInvInit, <1>1, PTL DEF Spec

\* Signatures stored under a generation know every edit that it announced.
THEOREM SigReflectsBumpAlways == Spec => []SigReflectsBump
<1>1. IInv => SigReflectsBump
  BY DEF IInv, GenInv, SigsOk, SigReflectsBump
<1> QED
  BY Inductive, <1>1, PTL

\* A request that comes GEN_SOFT after a bump knows the edits it announced, for any number
\* of processes, requests and edits.
THEOREM SettledEditSeenAlways == Spec => []SettledEditSeen
<1>1. IInv => SettledEditSeen
  BY DEF IInv, GenInv, GenReqs, GenOf, SettledEditSeen, HasSig
<1> QED
  BY Inductive, <1>1, PTL

\* A page that is not what its signature says was queried while grants were edited.
THEOREM ForeignPageAlways == Spec => []ForeignPageOnlyUnsettled
<1>1. Init => ForeignPageOnlyUnsettled
  BY DEF Init, ForeignPageOnlyUnsettled
<1>2. IInv /\ ForeignPageOnlyUnsettled /\ [Next]_vars => ForeignPageOnlyUnsettled'
  <2> SUFFICES ASSUME IInv, ForeignPageOnlyUnsettled, [Next]_vars
               PROVE  ForeignPageOnlyUnsettled'
    OBVIOUS
  <2>0. TypeOK /\ DataInv /\ GenInv
    BY DEF IInv, Typed
  <2>1. ASSUME NEW r \in Req, PageSet(r) PROVE ForeignPageOnlyUnsettled'
    <3>1. req[r].rows # req[r].sig => Overlapped(r)
      <4>1. DataOf(req[r]) /\ req[r].pc = "page-set"
        BY <2>0, <2>1 DEF DataInv, DataReqs, PageSet, At
      <4>2. regressed \/ req[r].blind \/ Knows(req[r].start, req[r].sver)
        BY <2>0, <4>1 DEF GenInv, GenReqs, GenOf
      <4>3. req[r].sver \in Nat /\ req[r].qver \in Nat
        BY <2>0, AuthzCacheAssumption DEF TypeOK, Requests, Vers
      <4> QED
        BY <4>1, <4>2, <4>3 DEF DataOf, Overlapped
    <3>2. req[r].g \in Gens /\ req[r].sig \in Sigs
      BY <2>0 DEF TypeOK, Requests
    <3>3. pageKey' = [pageKey EXCEPT ![<<req[r].g, req[r].sig>>] =
                          [rows |-> req[r].rows, overlap |-> Overlapped(r)]]
      BY <2>1 DEF PageSet
    <3>4. ASSUME NEW g \in Gens, NEW s \in Sigs, pageKey'[<<g, s>>] # None,
                 pageKey'[<<g, s>>].rows # s
          PROVE  pageKey'[<<g, s>>].overlap
      <4>1. CASE <<g, s>> = <<req[r].g, req[r].sig>>
        <5>1. pageKey'[<<g, s>>] = [rows |-> req[r].rows, overlap |-> Overlapped(r)]
          BY <2>0, <3>2, <3>3, <4>1 DEF TypeOK
        <5>2. s = req[r].sig
          BY <4>1
        <5>3. pageKey'[<<g, s>>].rows = req[r].rows
              /\ pageKey'[<<g, s>>].overlap = Overlapped(r)
          BY <5>1
        <5> QED
          BY <3>1, <3>4, <5>2, <5>3
      <4>2. CASE <<g, s>> # <<req[r].g, req[r].sig>>
        <5>1. pageKey'[<<g, s>>] = pageKey[<<g, s>>]
          BY <2>0, <3>3, <4>2 DEF TypeOK
        <5> QED
          BY <3>4, <5>1 DEF ForeignPageOnlyUnsettled
      <4> QED
        BY <4>1, <4>2
    <3> QED
      BY <3>4 DEF ForeignPageOnlyUnsettled
  <2>2. CASE UNCHANGED pageKey
    BY <2>2 DEF ForeignPageOnlyUnsettled
  <2>3. ASSUME NEW r \in Req, ReqStep(r), ~PageSet(r) PROVE UNCHANGED pageKey
    BY <2>3 DEF ReqStep, Start, Groups, GroupsSet, Gen, GenRead, GenInit, GenMemo, Signature,
                SigSet, Page, entries
  <2>4. ASSUME NEW a \in Admin, AdminStep(a) PROVE UNCHANGED pageKey
    BY <2>4 DEF AdminStep, CommitGrants, Flush, Forget, Incr, CommitMembership, Del,
                DeleteGroup, DeleteGlobal, DeleteLocal, entries
  <2> QED
    BY <2>1, <2>2, <2>3, <2>4 DEF Next, vars, Tick, entries
<1> QED
  BY Inductive, <1>1, <1>2, PTL DEF Spec

--------------------------------------------------------------------------------
(* The refinement *)

\* Whether a request q has a signature.
Reads(q) == q.pc \in {"sig-set", "page", "page-set"} \/ q.turn = 2

\* A request takes its signature in the first turn, and is excused only when it is about to.
TurnsOf(q) ==
    /\ q.pc \in {"idle", "sig"} => q.turn = 1
    /\ q.blind => q.pc = "sig" \/ Reads(q)

Turns == \A r \in Req : TurnsOf(req[r])

RInv == IInv /\ Turns

\* What a step makes of a request q, as far as EditVisibility sees it: it begins; it ends;
\* it goes on; it gets a generation in its first turn; it gets its signature; it stores it.
Kept(q, n) == n.turn = q.turn /\ n.start = q.start /\ n.sver = q.sver /\ n.blind = q.blind

Begins(q, n)    == q.pc = "idle" /\ n.pc = "groups" /\ n.turn = 1 /\ n.start = clock /\ ~n.blind
Ends(q, n)      == q.pc # "idle" /\ n = NoRequest
GoesOn(q, n)    == /\ q.pc \notin {"idle", "sig"} /\ n.pc \notin {"idle", "sig"}
                   /\ Kept(q, n) /\ (Reads(n) <=> Reads(q))
GetsGen(q, n)   == /\ q.pc \in {"gen", "gen-memo"} /\ q.turn = 1
                   /\ n.pc = "sig" /\ n.blind \in BOOLEAN
                   /\ n.turn = q.turn /\ n.start = q.start /\ n.sver = q.sver
GetsSig(q, n)   == /\ q.pc = "sig" /\ n.pc \in {"gen", "sig-set"} /\ Reads(n) /\ n.sver <= ver
                   /\ n.start = q.start /\ n.blind = q.blind
StoresSig(q, n) == /\ q.pc = "sig-set" /\ n.pc = "gen" /\ n.turn = 2
                   /\ n.start = q.start /\ n.sver = q.sver /\ n.blind = q.blind

Moves(q, n) ==
    \/ Begins(q, n) \/ Ends(q, n) \/ GoesOn(q, n)
    \/ GetsGen(q, n) \/ GetsSig(q, n) \/ StoresSig(q, n)

\* Every step of a list request is one of these moves.
LEMMA EveryMove ==
    ASSUME TypeOK, DataInv, NEW r \in Req, ReqStep(r)
    PROVE  Moves(req[r], req'[r]) /\ \A o \in Req \ {r} : req'[o] = req[o]
<1>0. req \in [Req -> Requests] /\ req[r] \in Requests
  BY DEF TypeOK
<1>1. \A o \in Req \ {r} : req'[o] = req[o]
  <2>1. ASSUME NEW p \in Proc, Start(r, p) PROVE \A o \in Req \ {r} : req'[o] = req[o]
    BY <1>0, <2>1 DEF Start
  <2>2. ASSUME Gen(r) \/ GenRead(r) \/ GenInit(r) \/ GenMemo(r)
        PROVE  \A o \in Req \ {r} : req'[o] = req[o]
    BY <1>0, <2>2 DEF Gen, GenRead, GenInit, GenMemo
  <2>3. ASSUME Groups(r) \/ GroupsSet(r) \/ Signature(r) \/ SigSet(r) \/ Page(r) \/ PageSet(r)
        PROVE  \A o \in Req \ {r} : req'[o] = req[o]
    BY <1>0, <2>3 DEF Groups, GroupsSet, Signature, SigSet, Page, PageSet
  <2> QED
    BY <2>1, <2>2, <2>3 DEF ReqStep
<1> SUFFICES Moves(req[r], req'[r])
  BY <1>1
<1>2. ASSUME NEW p \in Proc, Start(r, p) PROVE Begins(req[r], req'[r])
  BY <1>0, <1>2 DEF Start, At, Begins, NoRequest
<1>3. ASSUME NEW gs, req[r].pc \in {"groups", "groups-set"}
      PROVE  Moves(req[r], WithGroups(r, gs))
  <2>1. CASE gs = {}
    BY <1>3, <2>1 DEF WithGroups, Moves, Ends
  <2>2. CASE gs # {}
    <3>1. /\ WithGroups(r, gs).pc = "gen"
          /\ Kept(req[r], WithGroups(r, gs))
      BY <1>0, <2>2 DEF WithGroups, Requests, Kept
    <3>2. Reads(WithGroups(r, gs)) <=> Reads(req[r])
      BY <1>3, <3>1 DEF Reads, Kept
    <3> QED
      BY <1>3, <3>1, <3>2 DEF Moves, GoesOn
  <2> QED
    BY <2>1, <2>2
\* A step to another point on the way to the signature or to the page.
<1>4. ASSUME req[r].pc \notin {"idle", "sig", "sig-set", "page", "page-set"},
             req'[r].pc \notin {"idle", "sig", "sig-set", "page", "page-set"},
             Kept(req[r], req'[r])
      PROVE  Moves(req[r], req'[r])
  <2>1. Reads(req'[r]) <=> Reads(req[r])
    BY <1>4 DEF Reads, Kept
  <2> QED
    BY <1>4, <2>1 DEF Moves, GoesOn
<1>5. CASE Groups(r)
  <2>1. CASE req' = [req EXCEPT ![r] = WithGroups(r, groupsKey[persona[r]])]
    BY <1>0, <1>3, <1>5, <2>1 DEF Groups, At
  <2>2. CASE req' = [req EXCEPT ![r].pc = "groups-set", ![r].groups = member[persona[r]]]
    <3>1. /\ req'[r].pc = "groups-set"
          /\ Kept(req[r], req'[r])
      BY <1>0, <2>2 DEF Requests, Kept
    <3> QED
      BY <1>4, <1>5, <3>1 DEF Groups, At
  <2> QED
    BY <1>5, <2>1, <2>2 DEF Groups
<1>6. CASE GroupsSet(r)
  BY <1>0, <1>3, <1>6 DEF GroupsSet, At
<1>7. ASSUME NEW g, req[r].pc \in {"gen", "gen-memo"} PROVE Moves(req[r], WithGen(r, g))
  <2>1. CASE req[r].turn = 1
    <3>1. /\ WithGen(r, g).pc = "sig" /\ WithGen(r, g).blind \in BOOLEAN
          /\ WithGen(r, g).turn = req[r].turn /\ WithGen(r, g).start = req[r].start
          /\ WithGen(r, g).sver = req[r].sver
      BY <1>0, <2>1 DEF WithGen, Requests, Kept
    <3> QED
      BY <1>7, <2>1, <3>1 DEF Moves, GetsGen
  <2>2. CASE req[r].turn = 2
    <3>1. /\ WithGen(r, g).pc = "page"
          /\ Kept(req[r], WithGen(r, g))
      BY <1>0, <2>2 DEF WithGen, Requests, Kept
    <3>2. Reads(WithGen(r, g)) /\ Reads(req[r])
      BY <2>2, <3>1 DEF Reads
    <3> QED
      BY <1>7, <3>1, <3>2 DEF Moves, GoesOn
  <2> QED
    BY <1>0, <2>1, <2>2 DEF Requests
<1>8. CASE Gen(r)
  <2>1. ASSUME NEW g, req' = [req EXCEPT ![r] = WithGen(r, g)] PROVE Moves(req[r], req'[r])
    BY <1>0, <1>7, <1>8, <2>1 DEF Gen, At
  <2>2. CASE req' = [req EXCEPT ![r].pc = "gen-read", ![r].now = clock]
    <3>1. /\ req'[r].pc = "gen-read"
          /\ Kept(req[r], req'[r])
      BY <1>0, <2>2 DEF Requests, Kept
    <3> QED
      BY <1>4, <1>8, <3>1 DEF Gen, At
  <2> QED
    BY <1>8, <2>1, <2>2 DEF Gen
<1>9. CASE GenRead(r)
  <2>1. /\ req'[r].pc \in {"gen-init", "gen-memo"}
        /\ Kept(req[r], req'[r])
    BY <1>0, <1>9 DEF GenRead, Requests, Kept
  <2> QED
    BY <1>4, <1>9, <2>1 DEF GenRead, At
<1>10. CASE GenInit(r)
  <2>1. /\ req'[r].pc = "gen-memo"
        /\ Kept(req[r], req'[r])
    BY <1>0, <1>10 DEF GenInit, Requests, Kept
  <2> QED
    BY <1>4, <1>10, <2>1 DEF GenInit, At
<1>11. CASE GenMemo(r)
  BY <1>0, <1>7, <1>11 DEF GenMemo, At
<1>12. CASE Signature(r)
  <2> DEFINE hit == sigKey[SigKeyOf(req[r].g, req[r].groups)]
  <2>1. CASE hit # None /\ req' = [req EXCEPT ![r] = WithSig(r, hit.sig, hit.ver)]
    <3>1. /\ req'[r].pc = "gen" /\ req'[r].turn = 2 /\ req'[r].sver = hit.ver
          /\ req'[r].start = req[r].start /\ req'[r].blind = req[r].blind
      BY <1>0, <2>1 DEF WithSig, Requests, Kept
    <3>2. req[r].g \in Gens /\ req[r].groups \in GroupSets
      BY <1>0 DEF Requests
    <3>3. hit.ver <= ver
      BY <2>1, <3>2 DEF DataInv, DataSigs, SigKeyOf
    <3> QED
      BY <1>12, <3>1, <3>3 DEF Signature, At, Moves, GetsSig, Reads
  <2>2. CASE req' = [req EXCEPT ![r].pc = "sig-set", ![r].sig = Effective(req[r].groups),
                                ![r].sver = ver]
    <3>1. /\ req'[r].pc = "sig-set" /\ req'[r].sver = ver
          /\ req'[r].start = req[r].start /\ req'[r].blind = req[r].blind
      BY <1>0, <2>2 DEF Requests, Kept
    <3>2. ver <= ver
      BY GenTypes
    <3> QED
      BY <1>12, <3>1, <3>2 DEF Signature, At, Moves, GetsSig, Reads
  <2> QED
    BY <1>12, <2>1, <2>2 DEF Signature
<1>13. CASE SigSet(r)
  <2>1. req' = [req EXCEPT ![r] = WithSig(r, req[r].sig, req[r].sver)] /\ req[r].pc = "sig-set"
    BY <1>13 DEF SigSet, At
  <2>2. /\ req'[r].pc = "gen" /\ req'[r].turn = 2
        /\ req'[r].start = req[r].start /\ req'[r].sver = req[r].sver
        /\ req'[r].blind = req[r].blind
    BY <1>0, <2>1 DEF WithSig, Requests, Kept
  <2> QED
    BY <2>1, <2>2 DEF Moves, StoresSig
<1>14. ASSUME req[r].pc \in {"page", "page-set"}, req' = [req EXCEPT ![r] = NoRequest]
       PROVE  Moves(req[r], req'[r])
  BY <1>0, <1>14 DEF Moves, Ends
<1>15. CASE Page(r)
  <2>1. CASE req' = [req EXCEPT ![r].pc = "page-set", ![r].rows = Effective(req[r].groups),
                                ![r].qver = ver]
    <3>1. /\ req'[r].pc = "page-set"
          /\ Kept(req[r], req'[r])
      BY <1>0, <2>1 DEF Requests, Kept
    <3>2. req[r].pc = "page"
      BY <1>15 DEF Page, At
    <3> QED
      BY <3>1, <3>2 DEF Moves, GoesOn, Reads
  <2> QED
    BY <1>14, <1>15, <2>1 DEF Page, At
<1>16. CASE PageSet(r)
  BY <1>14, <1>16 DEF PageSet, At
<1>17. Moves(req[r], req'[r])
  BY <1>2, <1>5, <1>6, <1>8, <1>9, <1>10, <1>11, <1>12, <1>13, <1>15, <1>16 DEF ReqStep, Moves
<1> QED
  BY <1>17

\* A move keeps the turns in order.
LEMMA TurnsMove ==
    ASSUME NEW q, NEW n, TurnsOf(q), Moves(q, n)
    PROVE  TurnsOf(n)
<1>1. CASE Ends(q, n)
  BY <1>1 DEF Ends, NoRequest, TurnsOf
<1>2. CASE GoesOn(q, n)
  BY <1>2 DEF GoesOn, Kept, TurnsOf
<1>3. CASE Begins(q, n) \/ GetsGen(q, n) \/ GetsSig(q, n) \/ StoresSig(q, n)
  BY <1>3 DEF Begins, GetsGen, GetsSig, StoresSig, Kept, TurnsOf, Reads
<1> QED
  BY <1>1, <1>2, <1>3 DEF Moves

\* A step of an administrator touches a request in nothing but late.
LEMMA RequestsInAdmin ==
    ASSUME TypeOK, NEW a \in Admin, AdminStep(a)
    PROVE  \A r \in Req : \A f \in {"pc", "turn", "start", "sver", "blind"} :
              req'[r][f] = req[r][f]
<1>0. req \in [Req -> Requests]
  BY DEF TypeOK
<1>1. ASSUME NEW users, Overtake(users)
      PROVE  \A r \in Req : \A f \in {"pc", "turn", "start", "sver", "blind"} :
                req'[r][f] = req[r][f]
  BY <1>0, <1>1 DEF Overtake, Requests
<1> QED
  BY <1>1 DEF AdminStep, CommitGrants, Flush, Forget, Incr, CommitMembership, Del,
              DeleteGroup, DeleteGlobal, DeleteLocal

\* IInv and Turns hold always.
LEMMA RInvariant == Spec => []RInv
<1>1. Init => Turns
  BY DEF Init, Turns, TurnsOf, NoRequest
<1>2. IInv /\ Turns /\ [Next]_vars => Turns'
  <2> SUFFICES ASSUME TypeOK, DataInv, Turns, [Next]_vars PROVE Turns'
    BY DEF IInv, Typed
  <2>1. ASSUME NEW r \in Req, ReqStep(r) PROVE Turns'
    <3>1. TurnsOf(req'[r])
      BY <2>1, EveryMove, TurnsMove DEF Turns
    <3> QED
      BY <2>1, <3>1, EveryMove DEF Turns, TurnsOf, Reads
  <2>2. ASSUME NEW a \in Admin, AdminStep(a) PROVE Turns'
    BY <2>2, RequestsInAdmin DEF Turns, TurnsOf, Reads
  <2>3. CASE UNCHANGED req
    BY <2>3 DEF Turns, TurnsOf, Reads
  <2> QED
    BY <2>1, <2>2, <2>3 DEF Next, Tick, vars
<1> QED
  BY Inductive, <1>1, <1>2, PTL DEF Spec, RInv

\* An edit that is in force at time t stays so, and no other comes to be, whatever is
\* committed or announced from then on.
LEMMA EditsKept ==
    ASSUME TypeOK, BumpsOk, NEW t \in Nat, ver' \in Nat, ver <= ver', gen' \in Nat,
           \A g \in 1 .. gen : g \in 1 .. gen' /\ bumped'[g] = bumped[g],
           \A g \in 1 .. gen' : g \in 1 .. gen \/ bumped'[g].ver = 0
                                \/ (bumped'[g].at + GEN_SOFT > t /\ bumped'[g].at \in Nat)
    PROVE  EditsAt(t)' = EditsAt(t)
<1>1. \A g \in 1 .. gen : bumped[g].ver \in Nat /\ bumped[g].ver <= ver
  BY GenTypes DEF BumpsOk
<1>2. ver \in Nat /\ GEN_SOFT \in Nat
  BY GenTypes
<1>3. EditsAt(t) \subseteq EditsAt(t)'
  BY <1>2 DEF EditsAt
<1>4. ASSUME NEW e \in EditsAt(t)' PROVE e \in EditsAt(t)
  <2>1. PICK g \in 1 .. gen' : bumped'[g].at + GEN_SOFT <= t /\ e <= bumped'[g].ver
    BY <1>4 DEF EditsAt
  <2>2. e \in Nat /\ 1 <= e
    BY <1>4 DEF EditsAt
  <2>3. bumped'[g].ver # 0
    BY <2>1, <2>2
  <2>4. g \in 1 .. gen
    BY <1>2, <2>1, <2>3
  <2>5. bumped'[g] = bumped[g]
    BY <2>4
  <2>6. e <= ver
    BY <1>1, <1>2, <2>1, <2>2, <2>4, <2>5
  <2> QED
    BY <1>2, <2>1, <2>2, <2>4, <2>5, <2>6 DEF EditsAt
<1> QED
  BY <1>3, <1>4

\* A request begins with the edits that are in force.
LEMMA BeginsInForce ==
    ASSUME TypeOK, BumpsOk, ~regressed
    PROVE  Visibility!InForce = EditsAt(clock)
<1>1. \A e \in 1 .. ver :
         (\E a \in Announced : a.at + GEN_SOFT <= clock /\ e <= a.ver)
         <=> (\E g \in 1 .. gen : bumped[g].at + GEN_SOFT <= clock /\ e <= bumped[g].ver)
  <2> SUFFICES ASSUME NEW e \in 1 .. ver,
                      NEW g \in 1 .. gen, bumped[g].at + GEN_SOFT <= clock, e <= bumped[g].ver
               PROVE  bumped[g] \in Announced
    BY DEF Announced
  <2>1. bumped[g].ver > 0
    BY GenTypes
  <2> QED
    BY <2>1 DEF Announced
<1> QED
  BY <1>1 DEF Visibility!InForce, EditsAt

\* The request is to EditVisibility what it was.
Same(o) ==
    /\ StageOf(o)' = StageOf(o) /\ MustOf(o)' = MustOf(o) /\ SeenOf(o)' = SeenOf(o)
    /\ req'[o].blind = req[o].blind

\* A request that has the same fields, where the edits in force at its start are the same.
LEMMA SameRequest ==
    ASSUME NEW o \in Req, UNCHANGED regressed, EditsAt(req[o].start)' = EditsAt(req[o].start),
           \A f \in {"pc", "turn", "start", "sver", "blind"} : req'[o][f] = req[o][f]
    PROVE  Same(o)
  BY DEF Same, StageOf, MustOf, SeenOf, HasSig, At, EditsAt

\* If nothing is new, EditVisibility makes no step.
LEMMA NothingNew ==
    ASSUME \A o \in Req : Same(o)
    PROVE  /\ UNCHANGED [r \in Req |-> StageOf(r)] /\ UNCHANGED [r \in Req |-> MustOf(r)]
           /\ UNCHANGED [r \in Req |-> SeenOf(r)] /\ UNCHANGED {r \in Req : req[r].blind}
  BY DEF Same

\* If only r is new, the others' places stay.
LEMMA OneIsNew ==
    ASSUME NEW r \in Req, \A o \in Req \ {r} : Same(o)
    PROVE  /\ [o \in Req |-> StageOf(o)]' = [[o \in Req |-> StageOf(o)] EXCEPT ![r] = StageOf(r)']
           /\ [o \in Req |-> MustOf(o)]' = [[o \in Req |-> MustOf(o)] EXCEPT ![r] = MustOf(r)']
           /\ [o \in Req |-> SeenOf(o)]' = [[o \in Req |-> SeenOf(o)] EXCEPT ![r] = SeenOf(r)']
           /\ StageOf(r)' = StageOf(r) => UNCHANGED [o \in Req |-> StageOf(o)]
           /\ MustOf(r)' = MustOf(r) => UNCHANGED [o \in Req |-> MustOf(o)]
           /\ SeenOf(r)' = SeenOf(r) => UNCHANGED [o \in Req |-> SeenOf(o)]
           /\ {o \in Req : req'[o].blind} =
                  IF req'[r].blind THEN {o \in Req : req[o].blind} \cup {r}
                                   ELSE {o \in Req : req[o].blind} \ {r}
           /\ req'[r].blind = req[r].blind => UNCHANGED {o \in Req : req[o].blind}
  BY DEF Same

\* A step of one request that tells it nothing new.
LEMMA GoesOnUnseen ==
    ASSUME NEW r \in Req, \A o \in Req \ {r} : Same(o), Same(r),
           UNCHANGED <<ver, Announced, clock, regressed>>
    PROVE  UNCHANGED Visibility!visVars
<1>1. \A o \in Req : Same(o)
  OBVIOUS
<1> QED
  BY <1>1, NothingNew DEF Visibility!visVars

\* The moves of a request are steps of EditVisibility, when nobody bumps at the same time.
LEMMA MovesOfRequest ==
    ASSUME RInv, RInv', NEW r \in Req, Moves(req[r], req'[r]), \A o \in Req \ {r} : req'[o] = req[o],
           UNCHANGED <<ver, gen, bumped, clock, regressed>>
    PROVE  Visibility!VisNext \/ UNCHANGED Visibility!visVars
<1>0. /\ TypeOK /\ Turns /\ (regressed \/ (BumpsOk /\ GenReqs)) /\ TurnsOf(req[r])
      /\ \A o \in Req : req[o] \in Requests
  BY DEF RInv, IInv, Typed, GenInv, Turns, TypeOK
<1>01. req'[r] \in Requests /\ (regressed \/ GenOf(req[r])')
  BY DEF RInv, IInv, Typed, TypeOK, GenInv, GenReqs
<1>1. \A t \in Nat : EditsAt(t)' = EditsAt(t)
  BY DEF EditsAt
<1>2. UNCHANGED <<ver, Announced, clock, regressed>>
  BY DEF Announced
<1>3. \A o \in Req \ {r} : Same(o)
  BY <1>1, GenReqTypes, <1>0, SameRequest
<1>4. PICK t \in Nat : t = clock
  BY <1>0, GenTypes
<1>5. req[r].start \in Nat /\ req[r].sver \in Nat
  BY <1>0, GenReqTypes
<1>6. CASE Begins(req[r], req'[r])
  <2>1. StageOf(r) = "idle" /\ StageOf(r)' = "open" /\ SeenOf(r) = 0 /\ SeenOf(r)' = 0
    BY <1>6 DEF Begins, StageOf, SeenOf, HasSig, At
  <2>2. ~req[r].blind /\ ~req'[r].blind /\ req'[r].blind = req[r].blind
    BY <1>0, <1>01, <1>6 DEF Begins, TurnsOf, Reads, Requests
  <2>3. MustOf(r)' = Visibility!InForce
    <3>1. CASE regressed
      BY <1>6, <3>1 DEF Begins, MustOf, Visibility!InForce, Announced
    <3>2. CASE ~regressed
      <4>1. MustOf(r)' = EditsAt(t)'
        BY <1>4, <1>6, <3>2 DEF Begins, MustOf, At, EditsAt
      <4> QED
        BY <1>0, <1>1, <1>4, <3>2, <4>1, BeginsInForce
    <3> QED
      BY <3>1, <3>2
  <2> QED
    BY <1>2, <1>3, <2>1, <2>2, <2>3, OneIsNew DEF Visibility!VisNext, Visibility!Begin
<1>7. CASE Ends(req[r], req'[r])
  <2>1. /\ StageOf(r) # "idle" /\ StageOf(r)' = "idle" /\ SeenOf(r)' = 0 /\ MustOf(r)' = {}
        /\ ~req'[r].blind
    BY <1>7 DEF Ends, NoRequest, StageOf, SeenOf, MustOf, HasSig, At
  <2> QED
    BY <1>2, <1>3, <2>1, OneIsNew DEF Visibility!VisNext, Visibility!End
<1>8. ASSUME ~At(r, "idle"), ~At(r, "idle")', req'[r].start = req[r].start
      PROVE  MustOf(r)' = MustOf(r)
  BY <1>1, <1>5, <1>8 DEF MustOf, EditsAt
<1>9. CASE GoesOn(req[r], req'[r]) \/ StoresSig(req[r], req'[r])
  <2>1. StageOf(r)' = StageOf(r) /\ SeenOf(r)' = SeenOf(r) /\ req'[r].blind = req[r].blind
    BY <1>9 DEF GoesOn, StoresSig, Kept, Reads, StageOf, SeenOf, HasSig, At
  <2>2. MustOf(r)' = MustOf(r)
    BY <1>8, <1>9 DEF GoesOn, StoresSig, Kept, At
  <2> QED
    BY <1>2, <1>3, <2>1, <2>2, GoesOnUnseen DEF Same
<1>10. CASE GetsGen(req[r], req'[r])
  <2>1. StageOf(r) = "open" /\ StageOf(r)' = "open" /\ SeenOf(r) = 0 /\ SeenOf(r)' = 0
    BY <1>10 DEF GetsGen, StageOf, SeenOf, HasSig, At
  <2>2. MustOf(r)' = MustOf(r)
    BY <1>8, <1>10 DEF GetsGen, At
  <2>3. ~req[r].blind
    BY <1>0, <1>10 DEF GetsGen, TurnsOf, Reads
  <2>4. CASE ~req'[r].blind
    <3>1. req'[r].blind = req[r].blind
      BY <1>0, <1>01, <2>3, <2>4 DEF Requests
    <3> QED
      BY <1>2, <1>3, <2>1, <2>2, <3>1, GoesOnUnseen DEF Same
  <2>5. CASE req'[r].blind
    BY <1>2, <1>3, <2>1, <2>2, <2>5, OneIsNew DEF Visibility!VisNext, Visibility!Excuse
  <2> QED
    BY <2>4, <2>5
<1>11. CASE GetsSig(req[r], req'[r])
  <2>1. /\ StageOf(r) = "open" /\ StageOf(r)' = "read" /\ SeenOf(r)' = req'[r].sver
        /\ req'[r].blind = req[r].blind
    BY <1>0, <1>11 DEF GetsSig, TurnsOf, Reads, StageOf, SeenOf, HasSig, At
  <2>2. MustOf(r)' = MustOf(r)
    BY <1>8, <1>11 DEF GetsSig, At
  <2>3. req'[r].sver \in 0 .. ver
    BY <1>0, <1>01, <1>11, GenTypes DEF GetsSig, Requests, Vers
  <2>4. req[r].blind \/ MustOf(r) \subseteq 1 .. req'[r].sver
    <3>1. CASE regressed
      BY <3>1 DEF MustOf
    <3>2. CASE ~regressed
      <4>1. req'[r].blind \/ Knows(req[r].start, req'[r].sver)
        BY <1>01, <1>11, <3>2 DEF GetsSig, GenOf, Reads, Knows
      <4>2. ASSUME Knows(req[r].start, req'[r].sver), NEW e \in EditsAt(req[r].start)
            PROVE  e \in 1 .. req'[r].sver
        BY <1>0, <2>3, <4>2, GenTypes DEF EditsAt, Knows
      <4> QED
        BY <2>1, <4>1, <4>2 DEF MustOf
    <3> QED
      BY <3>1, <3>2
  <2>5. PICK v \in 0 .. ver : v = req'[r].sver
    BY <2>3
  <2>6. /\ r \in {o \in Req : req[o].blind} \/ MustOf(r) \subseteq 1 .. v
        /\ [o \in Req |-> SeenOf(o)]' = [[o \in Req |-> SeenOf(o)] EXCEPT ![r] = v]
    BY <1>3, <2>1, <2>4, <2>5, OneIsNew
  <2>7. /\ [o \in Req |-> StageOf(o)]' = [[o \in Req |-> StageOf(o)] EXCEPT ![r] = "read"]
        /\ UNCHANGED [o \in Req |-> MustOf(o)] /\ UNCHANGED {o \in Req : req[o].blind}
    BY <1>3, <2>1, <2>2, OneIsNew
  <2>8. [o \in Req |-> StageOf(o)][r] = "open" /\ [o \in Req |-> MustOf(o)][r] = MustOf(r)
    BY <2>1
  <2>9. Visibility!Read(r)
    BY <1>2, <2>6, <2>7, <2>8 DEF Visibility!Read
  <2> QED
    BY <2>9 DEF Visibility!VisNext
<1> QED
  BY <1>6, <1>7, <1>9, <1>10, <1>11 DEF Moves

\* A step that changes no request leaves every request what it was, if the edits in force
\* at any past time are still the same.
LEMMA RequestsStay ==
    ASSUME TypeOK, UNCHANGED regressed,
           \A r \in Req : EditsAt(req[r].start)' = EditsAt(req[r].start),
           \A r \in Req : \A f \in {"pc", "turn", "start", "sver", "blind"} :
              req'[r][f] = req[r][f]
    PROVE  /\ UNCHANGED [r \in Req |-> StageOf(r)] /\ UNCHANGED [r \in Req |-> MustOf(r)]
           /\ UNCHANGED [r \in Req |-> SeenOf(r)] /\ UNCHANGED {r \in Req : req[r].blind}
  BY SameRequest, NothingNew

\* What is asked of a step that changes generations or versions: the edits that were in
\* force when a request came are so still.
LEMMA EditsOfStart ==
    ASSUME TypeOK, regressed \/ (BumpsOk /\ GenReqs), ver' \in Nat, ver <= ver', gen' \in Nat,
           \A g \in 1 .. gen : g \in 1 .. gen' /\ bumped'[g] = bumped[g],
           \A g \in 1 .. gen' : g \in 1 .. gen \/ bumped'[g].ver = 0 \/ bumped'[g].at = clock,
           NEW r \in Req, ~regressed, req'[r].start = req[r].start
    PROVE  EditsAt(req[r].start)' = EditsAt(req[r].start)
<1>1. PICK t \in Nat : t = req[r].start
  BY GenReqTypes
<1>2. BumpsOk /\ GEN_SOFT \in Nat /\ GEN_SOFT > 0 /\ clock \in Nat /\ t <= clock
  BY <1>1, GenTypes DEF GenReqs, GenOf
<1>3. EditsAt(t)' = EditsAt(t)
  BY <1>2, EditsKept
<1> QED
  BY <1>1, <1>3 DEF EditsAt

\* The first SET of the generation is nothing to EditVisibility, or loses announcements.
LEMMA GenInitLapses ==
    ASSUME RInv, RInv', NEW r \in Req, GenInit(r)
    PROVE  Visibility!VisNext \/ UNCHANGED Visibility!visVars
<1>0. /\ TypeOK /\ Turns /\ DataInv /\ (regressed \/ (BumpsOk /\ GenReqs))
      /\ req \in [Req -> Requests]
  BY DEF RInv, IInv, Typed, GenInv, TypeOK
<1>1. /\ UNCHANGED <<ver, clock, bumped>> /\ gen' = 1 /\ regressed' = (regressed \/ gen > 1)
      /\ At(r, "gen-init")
  BY DEF GenInit, database
<1>2. \A o \in Req : \A f \in {"turn", "start", "sver", "blind"} : req'[o][f] = req[o][f]
  <2>1. req' = [req EXCEPT ![r].pc = "gen-memo", ![r].g = 1]
    BY DEF GenInit
  <2> QED
    BY <1>0, <2>1 DEF Requests
<1>3. /\ req'[r].pc = "gen-memo" /\ req[r].pc = "gen-init"
      /\ \A o \in Req \ {r} : req'[o].pc = req[o].pc
  BY <1>0 DEF GenInit, At, Requests
<1>4. \A o \in Req : StageOf(o)' = StageOf(o) /\ SeenOf(o)' = SeenOf(o)
  BY <1>2, <1>3 DEF StageOf, SeenOf, HasSig, At
<1>5. /\ UNCHANGED [o \in Req |-> StageOf(o)] /\ UNCHANGED [o \in Req |-> SeenOf(o)]
      /\ UNCHANGED {o \in Req : req[o].blind}
  BY <1>2, <1>4
<1>6. CASE regressed
  <2>1. /\ UNCHANGED [o \in Req |-> MustOf(o)] /\ UNCHANGED Announced /\ UNCHANGED regressed
    BY <1>0, <1>1, <1>6 DEF MustOf, Announced, TypeOK
  <2> QED
    BY <1>1, <1>5, <2>1 DEF Visibility!visVars
<1>7. CASE ~regressed /\ gen > 1
  <2>1. /\ [o \in Req |-> MustOf(o)]' = [o \in Req |-> {}] /\ Announced' = {}
        /\ regressed' = TRUE
    BY <1>1, <1>7 DEF MustOf, Announced
  <2> QED
    BY <1>1, <1>5, <1>7, <2>1 DEF Visibility!VisNext, Visibility!Lapse
<1>8. CASE ~regressed /\ gen \in {0, 1}
  <2>1. /\ \A g \in 1 .. 1 : g \in 1 .. gen \/ bumped[g].ver = 0
        /\ \A g \in 1 .. gen : g \in 1 .. 1
    <3>1. 1 \in Gens /\ 0 \in Gens
      BY AuthzCacheAssumption DEF Gens
    <3>2. gen = 0 => bumped[1].ver = 0
      BY <1>0, <1>8, <3>1 DEF BumpsOk
    <3> QED
      BY <1>8, <3>2
  <2>2. UNCHANGED regressed
    BY <1>0, <1>1, <1>8 DEF TypeOK
  <2>3. \A o \in Req : EditsAt(req[o].start)' = EditsAt(req[o].start)
    BY <1>0, <1>1, <1>2, <1>8, <2>1, GenTypes, EditsOfStart
  <2>4. \A o \in Req : MustOf(o)' = MustOf(o)
    BY <1>3, <2>2, <2>3 DEF MustOf, At
  <2>5. UNCHANGED Announced
    BY <1>1, <2>1, <2>2 DEF Announced
  <2> QED
    BY <1>1, <1>5, <2>2, <2>4, <2>5 DEF Visibility!visVars
<1> QED
  BY <1>0, <1>6, <1>7, <1>8, GenTypes

\* The moves of administrators: a commit, an announcement, or nothing.
LEMMA AdminOnVisibility ==
    ASSUME RInv, RInv', NEW a \in Admin, AdminStep(a)
    PROVE  Visibility!VisNext \/ UNCHANGED Visibility!visVars
<1>0. /\ TypeOK /\ (regressed \/ (BumpsOk /\ GenReqs)) /\ ver \in Nat /\ gen \in Nat
      /\ gen \in Gens /\ gen' \in Gens /\ gen' \in Nat /\ ver' \in Nat
      /\ regressed \in BOOLEAN /\ bumped \in [Gens -> Bumps]
  BY AuthzCacheAssumption DEF RInv, IInv, Typed, GenInv, TypeOK, Gens, Vers
<1>1. /\ UNCHANGED <<clock, regressed>>
      /\ \A r \in Req : \A f \in {"pc", "turn", "start", "sver", "blind"} :
            req'[r][f] = req[r][f]
  BY <1>0, RequestsInAdmin DEF AdminStep, CommitGrants, Flush, Forget, Incr, CommitMembership,
        Del, DeleteGroup, DeleteGlobal, DeleteLocal, history
<1>2. ASSUME ver <= ver',
             \A g \in 1 .. gen : g \in 1 .. gen' /\ bumped'[g] = bumped[g],
             \A g \in 1 .. gen' : g \in 1 .. gen \/ bumped'[g].ver = 0 \/ bumped'[g].at = clock
      PROVE  /\ UNCHANGED [r \in Req |-> StageOf(r)] /\ UNCHANGED [r \in Req |-> MustOf(r)]
             /\ UNCHANGED [r \in Req |-> SeenOf(r)] /\ UNCHANGED {r \in Req : req[r].blind}
  <2>1. CASE ~regressed
    <3>1. \A r \in Req : EditsAt(req[r].start)' = EditsAt(req[r].start)
      BY <1>0, <1>1, <1>2, <2>1, EditsOfStart
    <3> QED
      BY <1>0, <1>1, <3>1, RequestsStay
  <2>2. CASE regressed
    <3>1. \A r \in Req : Same(r)
      BY <1>1, <2>2 DEF Same, StageOf, MustOf, SeenOf, HasSig, At
    <3> QED
      BY <3>1, NothingNew
  <2> QED
    BY <1>0, <2>1, <2>2
<1>3. ASSUME UNCHANGED <<gen, bumped>>, ver' \in {ver, ver + 1}
      PROVE  Visibility!VisNext \/ UNCHANGED Visibility!visVars
  <2>1. UNCHANGED Announced
    BY <1>1, <1>3 DEF Announced
  <2>2. /\ UNCHANGED [r \in Req |-> StageOf(r)] /\ UNCHANGED [r \in Req |-> MustOf(r)]
        /\ UNCHANGED [r \in Req |-> SeenOf(r)] /\ UNCHANGED {r \in Req : req[r].blind}
    BY <1>0, <1>2, <1>3
  <2> QED
    BY <1>1, <1>3, <2>1, <2>2 DEF Visibility!VisNext, Visibility!Commit, Visibility!visVars
<1>4. CASE Incr(a)
  <2>1. CASE UNCHANGED <<gen, bumped>>
    BY <1>3, <1>4, <2>1 DEF Incr, database
  <2>2. CASE gen' = gen + 1 /\ bumped' = [bumped EXCEPT ![gen + 1] = [ver |-> ver, at |-> clock]]
    <3>1. /\ \A g \in 1 .. gen : g \in 1 .. gen' /\ g \in Gens /\ bumped'[g] = bumped[g]
          /\ bumped'[gen + 1] = [ver |-> ver, at |-> clock]
          /\ \A g \in 1 .. gen' : g \in 1 .. gen \/ g = gen + 1
      BY <1>0, <2>2, GenTypes
    <3>2. UNCHANGED ver
      BY <1>4 DEF Incr, database
    <3>3. /\ UNCHANGED [r \in Req |-> StageOf(r)] /\ UNCHANGED [r \in Req |-> MustOf(r)]
          /\ UNCHANGED [r \in Req |-> SeenOf(r)] /\ UNCHANGED {r \in Req : req[r].blind}
      BY <1>0, <1>2, <3>1, <3>2
    <3>4. CASE regressed
      <4>1. UNCHANGED Announced
        BY <1>1, <3>4 DEF Announced
      <4> QED
        BY <1>1, <3>2, <3>3, <4>1 DEF Visibility!visVars
    <3>5. CASE ~regressed /\ ver = 0
      <4>1. UNCHANGED Announced
        <5>1. {h \in 1 .. gen' : bumped'[h].ver > 0} = {h \in 1 .. gen : bumped[h].ver > 0}
          BY <1>0, <2>2, <3>1, <3>5
        <5> QED
          BY <1>1, <3>1, <5>1 DEF Announced
      <4> QED
        BY <1>1, <3>2, <3>3, <4>1 DEF Visibility!visVars
    <3>6. CASE ~regressed /\ ver # 0
      <4>1. Announced' = Announced \cup {[ver |-> ver, at |-> clock]}
        <5>1. {h \in 1 .. gen' : bumped'[h].ver > 0}
                  = {h \in 1 .. gen : bumped[h].ver > 0} \cup {gen + 1}
          BY <1>0, <2>2, <3>1, <3>6
        <5> QED
          BY <1>1, <3>1, <3>6, <5>1 DEF Announced
      <4> QED
        BY <1>1, <3>2, <3>3, <4>1 DEF Visibility!VisNext, Visibility!Announce
    <3> QED
      BY <1>0, <3>4, <3>5, <3>6
  <2> QED
    BY <1>4, <2>1, <2>2 DEF Incr
<1> QED
  BY <1>3, <1>4 DEF AdminStep, CommitGrants, Flush, Forget, CommitMembership, Del,
        DeleteGroup, DeleteGlobal, DeleteLocal, database, history

\* Time passes: more edits are in force, and nobody who came before has to know them.
LEMMA TickOnVisibility ==
    ASSUME TypeOK, Tick
    PROVE  Visibility!Pass
<1>1. UNCHANGED <<ver, gen, bumped, req, regressed>> /\ clock' = clock + 1
  BY DEF Tick, database, history
<1>2. UNCHANGED Announced /\ \A r \in Req : Same(r)
  BY <1>1 DEF Announced, Same, StageOf, MustOf, SeenOf, EditsAt, HasSig, At
<1> QED
  BY <1>1, <1>2, NothingNew DEF Visibility!Pass

\* AuthzCache starts as EditVisibility does.
LEMMA VisibilityInit == Init => Visibility!VisInit
<1> SUFFICES ASSUME Init PROVE Visibility!VisInit
  OBVIOUS
<1>1. \A r \in Req : StageOf(r) = "idle" /\ MustOf(r) = {} /\ SeenOf(r) = 0 /\ ~req[r].blind
  BY DEF Init, StageOf, MustOf, SeenOf, At, NoRequest
<1>2. Announced = {}
  BY DEF Init, Announced
<1> QED
  BY <1>1, <1>2 DEF Init, Visibility!VisInit

\* The authorisation cache implements EditVisibility: from GEN_SOFT_MS after a bump on every
\* request that comes works with a signature that has the edits before it, whichever process
\* serves it, for any number of processes, requests, administrators and edits.
THEOREM ImplementsEditVisibility == Spec => ImplementsVisibility
<1>1. RInv /\ RInv' /\ [Next]_vars => [Visibility!VisNext]_(Visibility!visVars)
  <2> SUFFICES ASSUME RInv, RInv', [Next]_vars
               PROVE  Visibility!VisNext \/ UNCHANGED Visibility!visVars
    OBVIOUS
  <2>0. TypeOK /\ DataInv
    BY DEF RInv, IInv, Typed
  <2>1. ASSUME NEW r \in Req, ReqStep(r)
        PROVE  Visibility!VisNext \/ UNCHANGED Visibility!visVars
    <3>1. Moves(req[r], req'[r]) /\ \A o \in Req \ {r} : req'[o] = req[o]
      BY <2>0, <2>1, EveryMove
    <3>2. GenInit(r) \/ UNCHANGED <<ver, gen, bumped, clock, regressed>>
      BY <2>1 DEF ReqStep, Start, Groups, GroupsSet, Gen, GenRead, GenMemo, Signature,
                  SigSet, Page, PageSet, database, history
    <3> QED
      BY <3>1, <3>2, MovesOfRequest, GenInitLapses
  <2>2. CASE Tick
    BY <2>0, <2>2, TickOnVisibility DEF Visibility!VisNext
  <2>3. CASE UNCHANGED vars
    <3>1. UNCHANGED <<ver, Announced, clock, regressed>> /\ \A r \in Req : Same(r)
      BY <2>3 DEF vars, database, history, Announced, Same, StageOf, MustOf, SeenOf,
                  EditsAt, HasSig, At
    <3> QED
      BY <3>1, NothingNew DEF Visibility!visVars
  <2> QED
    BY <2>1, <2>2, <2>3, AdminOnVisibility DEF Next
<1> QED
  BY RInvariant, VisibilityInit, <1>1, PTL DEF Spec, ImplementsVisibility, Visibility!VisSpec

\* EditVisibility promises Visible: for as long as a request goes on.
THEOREM VisibleByPromise == Visibility!VisSpec => []Visibility!Visible
<1> DEFINE Stg == [r \in Req |-> StageOf(r)]
           Mst == [r \in Req |-> MustOf(r)]
           Sn  == [r \in Req |-> SeenOf(r)]
           Exc == {r \in Req : req[r].blind}
           Vis == \A r \in Req : Stg[r] = "read" => r \in Exc \/ Mst[r] \subseteq 1 .. Sn[r]
<1>v. Visibility!Visible <=> Vis
  BY DEF Visibility!Visible
<1>1. Visibility!VisInit => Vis
  <2> HAVE Visibility!VisInit
  <2>1. Stg = [r \in Req |-> "idle"]
    BY DEF Visibility!VisInit
  <2> QED BY <2>1
<1>2. Vis /\ [Visibility!VisNext]_(Visibility!visVars) => Vis'
  <2> SUFFICES ASSUME Vis, [Visibility!VisNext]_(Visibility!visVars) PROVE Vis'
    OBVIOUS
  <2>1. CASE \/ Visibility!Commit \/ Visibility!Announce \/ Visibility!Pass
             \/ UNCHANGED Visibility!visVars
    <3>1. Stg' = Stg /\ Mst' = Mst /\ Sn' = Sn /\ Exc' = Exc
      BY <2>1 DEF Visibility!Commit, Visibility!Announce, Visibility!Pass, Visibility!visVars
    <3> QED BY <3>1
  <2>2. CASE Visibility!Lapse
    <3>1. Mst' = [r \in Req |-> {}]
      BY <2>2 DEF Visibility!Lapse
    <3> QED BY <3>1
  <2>3. ASSUME NEW r \in Req, Visibility!Begin(r) PROVE Vis'
    <3>1. /\ Stg' = [Stg EXCEPT ![r] = "open"] /\ Sn' = Sn /\ Exc' = Exc
          /\ \E m : Mst' = [Mst EXCEPT ![r] = m]
      BY <2>3 DEF Visibility!Begin
    <3> QED BY <3>1
  <2>4. ASSUME NEW r \in Req, Visibility!Excuse(r) PROVE Vis'
    <3>1. Stg' = Stg /\ Mst' = Mst /\ Sn' = Sn /\ Exc' = Exc \cup {r}
      BY <2>4 DEF Visibility!Excuse
    <3> QED BY <3>1
  <2>5. ASSUME NEW r \in Req, Visibility!Read(r) PROVE Vis'
    <3>1. PICK v \in 0 .. ver : /\ r \in Exc \/ Mst[r] \subseteq 1 .. v
                               /\ Sn' = [Sn EXCEPT ![r] = v]
      BY <2>5 DEF Visibility!Read
    <3>2. /\ Stg' = [Stg EXCEPT ![r] = "read"] /\ Mst' = Mst /\ Exc' = Exc
      BY <2>5 DEF Visibility!Read
    <3> QED BY <3>1, <3>2
  <2>6. ASSUME NEW r \in Req, Visibility!End(r) PROVE Vis'
    <3>1. /\ Stg' = [Stg EXCEPT ![r] = "idle"] /\ Mst' = [Mst EXCEPT ![r] = {}]
          /\ Sn' = [Sn EXCEPT ![r] = 0] /\ Exc' = Exc \ {r}
      BY <2>6 DEF Visibility!End
    <3> QED BY <3>1
  <2> QED
    BY <2>1, <2>2, <2>3, <2>4, <2>5, <2>6 DEF Visibility!VisNext
<1> QED BY <1>v, <1>1, <1>2, PTL DEF Visibility!VisSpec

\* The portal keeps what EditVisibility promises.
COROLLARY VisibleAlways == Spec => []Visibility!Visible
BY ImplementsEditVisibility, VisibleByPromise, PTL DEF ImplementsVisibility
=============================================================================
