------------------------- MODULE ObjectSearchProofs -------------------------
(***************************************************************************)
(* Safety of the client's object searches, for any calls and any tree of   *)
(* service paths.                                                          *)
(***************************************************************************)
EXTENDS ObjectSearch, TLAPS

(* IInv, call by call.                                                     *)
Handed(c, s) ==
  found[c] = s \/ posted[c] = s \/ outcome[c] = s \/ s \in Given(c)

Sound(c) ==
  /\ Calling(c)
  /\ Len(answers[c]) <= 1
  /\ c \in joined => For(searching, path[c]) # {} /\ posted[c] = None
  /\ c \in searching => pc[c] \in {"requested", "found"}
  /\ \A s \in Calls : Handed(c, s) => Known(path[c], s)

LEMMA IInvIsSound ==
  ASSUME IInv, NEW c \in Calls
  PROVE  Sound(c)
  <1>1. \A s \in Calls : Handed(c, s) => Known(path[c], s)
    BY DEF IInv, HandedOut, Outcomes, Handed
  <1>2. QED
    BY <1>1 DEF IInv, JoinedAreServed, AnsweredOnce, Sound

LEMMA SoundIsIInv ==
  ASSUME TypeOK', \A c \in Calls : Sound(c)'
  PROVE  IInv'
  <1>1. HandedOut'
    BY DEF HandedOut, Outcomes, Handed, Sound
  <1>2. JoinedAreServed'
    BY DEF TypeOK, JoinedAreServed, Sound
  <1>3. QED
    BY <1>1, <1>2 DEF IInv, AnsweredOnce, Sound

(* What a step leaves alone of a call.                                     *)
Same(c) ==
  /\ pc'[c] = pc[c] /\ path'[c] = path[c] /\ found'[c] = found[c]
  /\ handled'[c] = handled[c] /\ outcome'[c] = outcome[c]
  /\ posted'[c] = posted[c] /\ answers'[c] = answers[c]

(* A stub that is known for a path stays so.                               *)
StaysKnown ==
  \A p \in Paths, s \in Calls : Known(p, s) => Known(p, s)'

LEMMA TableSame ==
  UNCHANGED table => StaysKnown
  BY DEF table, StaysKnown, Known

LEMMA DropKeepsKnown ==
  ASSUME TypeOK, NEW ps \in SUBSET Paths, Drop(ps)
  PROVE  StaysKnown
  <1> SUFFICES ASSUME NEW p \in Paths, NEW s \in Calls, Known(p, s)
               PROVE  Known(p, s)'
    BY DEF StaysKnown
  <1>1. s # None
    BY ConstantsAssumption
  <1>2. CASE s \in dropped
    BY <1>2 DEF Drop, Known
  <1>3. CASE stubs[p] = s /\ p \in ps
    BY <1>1, <1>3 DEF Drop, Known
  <1>4. CASE stubs[p] = s /\ p \notin ps
    BY <1>4 DEF Drop, Known
  <1>5. QED
    BY <1>2, <1>3, <1>4 DEF Known

LEMMA EnterKeepsKnown ==
  ASSUME TypeOK, NEW c \in Calls, path[c] \in Paths, EnterStub(c),
         UNCHANGED dropped
  PROVE  /\ StaysKnown
         /\ found' = [found EXCEPT ![c] = found'[c]]
         /\ found'[c] \in Calls
         /\ stubs'[path[c]] = found'[c]
         /\ stubs' \in [Paths -> Calls \cup {None}]
  <1>1. /\ None \notin Calls
        /\ stubs \in [Paths -> Calls \cup {None}]
        /\ found \in [Calls -> Results \cup {None}]
    BY ConstantsAssumption DEF TypeOK
  <1>2. CASE /\ stubs[path[c]] = None
             /\ stubs' = [stubs EXCEPT ![path[c]] = c]
             /\ found' = [found EXCEPT ![c] = c]
    <2>1. stubs'[path[c]] = c /\ found'[c] = c
      BY <1>1, <1>2
    <2>2. ASSUME NEW p \in Paths, NEW s \in Calls, Known(p, s)
          PROVE  Known(p, s)'
      <3>1. stubs[p] = s => p # path[c]
        BY <1>1, <1>2
      <3>2. QED
        BY <1>1, <1>2, <2>2, <3>1 DEF Known
    <2>3. found' = [found EXCEPT ![c] = found'[c]]
      BY <1>1, <1>2
    <2>4. stubs'[path[c]] = found'[c]
      BY <2>1
    <2>5. stubs' \in [Paths -> Calls \cup {None}]
      BY <1>1, <1>2
    <2>6. QED
      BY <2>1, <2>2, <2>3, <2>4, <2>5 DEF StaysKnown
  <1>3. CASE /\ stubs[path[c]] # None
             /\ found' = [found EXCEPT ![c] = stubs[path[c]]]
             /\ UNCHANGED stubs
    <2>1. found'[c] = stubs[path[c]] /\ found'[c] \in Calls
      BY <1>1, <1>3
    <2>2. StaysKnown
      BY <1>3 DEF StaysKnown, Known
    <2>3. found' = [found EXCEPT ![c] = found'[c]]
      BY <1>1, <1>3
    <2>4. stubs'[path[c]] = found'[c] /\ stubs' = stubs
      BY <1>3, <2>1
    <2>5. QED
      BY <1>1, <2>1, <2>2, <2>3, <2>4
  <1>4. QED
    BY <1>2, <1>3 DEF EnterStub

(* A call no step touches is sound after it if whoever joined is still     *)
(* served.                                                                 *)
LEMMA SameIsSound ==
  ASSUME TypeOK, NEW c \in Calls, Sound(c), Same(c), StaysKnown,
         c \in joined' => c \in joined /\ For(searching, path[c])' # {},
         c \in searching' => c \in searching
  PROVE  Sound(c)'
  <1>1. Calling(c)' /\ Len(answers'[c]) <= 1
    BY DEF Sound, Same, Calling, Untouched
  <1>2. c \in joined' => For(searching, path[c])' # {} /\ posted'[c] = None
    BY DEF Sound, Same
  <1>3. c \in searching' => pc'[c] \in {"requested", "found"}
    BY DEF Sound, Same
  <1>4. ASSUME NEW s \in Calls, Handed(c, s)' PROVE Known(path[c], s)'
    <2>1. Handed(c, s)
      BY <1>4 DEF Same, Handed, Given
    <2>2. path[c] \in Paths
      <3>1. pc[c] = "idle" => Untouched(c) /\ posted[c] = None
        BY DEF Sound, Calling
      <3>2. pc[c] = "idle" => ~Handed(c, s)
        BY <3>1, ConstantsAssumption DEF Untouched, Handed, Given
      <3>3. QED
        BY <2>1, <3>2 DEF Sound, Calling
    <2>3. Known(path[c], s)
      BY <2>1 DEF Sound
    <2>4. QED
      BY <2>2, <2>3 DEF StaysKnown, Same
  <1>5. QED
    BY <1>1, <1>2, <1>3, <1>4 DEF Sound

-----------------------------------------------------------------------------
(* AsyncFindObjRef                                                         *)

LEMMA CheckConnectedKeeps ==
  ASSUME IInv, NEW c \in Calls, NEW p \in Paths, CheckConnected(c, p)
  PROVE  IInv'
  <1> USE DEF CheckConnected, Goto, lists, wrapper, calls
  <1>1. TypeOK'
    BY DEF IInv, TypeOK, table
  <1>2. StaysKnown
    BY TableSame
  <1>3. ASSUME NEW d \in Calls PROVE Sound(d)
    BY IInvIsSound, <1>3
  <1>4. c \notin searching /\ c \notin joined
    BY <1>3 DEF Sound, Calling
  <1>5. ASSUME NEW d \in Calls, d # c PROVE Sound(d)'
    <2>1. Same(d)
      BY <1>5 DEF IInv, TypeOK, Same
    <2>2. d \in joined => For(searching, path[d])' # {}
      BY <1>3, <1>4 DEF IInv, TypeOK, Sound, For
    <2>3. QED
      BY <1>2, <1>3, <2>1, <2>2, SameIsSound DEF IInv
  <1>6. Sound(c)'
    <2>1. /\ Untouched(c) /\ posted[c] = None /\ path'[c] = p
          /\ pc'[c] \in {"checked", "threw"}
      BY <1>3 DEF IInv, TypeOK, Sound, Calling
    <2>2. \A s \in Calls : ~Handed(c, s)'
      BY <2>1, ConstantsAssumption DEF Untouched, Handed, Given
    <2>3. Calling(c)'
      BY <1>4, <2>1 DEF Calling, Untouched
    <2>4. QED
      BY <1>4, <2>1, <2>2, <2>3 DEF Sound, Untouched
  <1>7. QED
    BY <1>1, <1>5, <1>6, SoundIsIInv

(* The steps that change one call, and the lists by adding it.             *)
LEMMA OneCallKeeps ==
  ASSUME IInv, NEW c \in Calls, TypeOK', StaysKnown, UNCHANGED path,
         \A d \in Calls : d # c => Same(d),
         joined' = joined \/ joined' = joined \cup {c},
         searching' = searching \/ searching' = searching \cup {c},
         Sound(c)'
  PROVE  IInv'
  <1>1. ASSUME NEW d \in Calls, d # c PROVE Sound(d)'
    <2>1. Sound(d)
      BY IInvIsSound
    <2>2. d \in joined => For(searching, path[d])' # {}
      BY <2>1 DEF Sound, For
    <2>3. QED
      BY <1>1, <2>1, <2>2, SameIsSound DEF IInv
  <1>2. QED
    BY <1>1, SoundIsIInv

LEMMA ReturnCachedKeeps ==
  ASSUME IInv, NEW c \in Calls, ReturnCached(c)
  PROVE  IInv'
  <1> USE DEF ReturnCached, Goto, lists, wrapper
  <1>1. TypeOK'
    <2>1. path[c] \in Paths /\ stubs[path[c]] \in Results
      BY IInvIsSound DEF IInv, TypeOK, Sound, Calling, Results
    <2>2. posted' \in [Calls -> Results \cup {None}]
      BY <2>1 DEF IInv, TypeOK
    <2>3. QED
      BY <2>2 DEF IInv, TypeOK, table
  <1>2. Sound(c) /\ Untouched(c) /\ c \notin joined /\ c \notin searching
    BY IInvIsSound DEF Sound, Calling
  <1>3. /\ path[c] \in Paths /\ posted'[c] = stubs[path[c]]
        /\ pc'[c] = "posted"
    BY <1>2 DEF IInv, TypeOK, Sound, Calling
  <1>4. ASSUME NEW s \in Calls, Handed(c, s)' PROVE Known(path[c], s)'
    BY <1>2, <1>3, <1>4, ConstantsAssumption
       DEF Untouched, Handed, Given, Known, table
  <1>5. Calling(c)'
    BY <1>2, <1>3 DEF Calling, Untouched
  <1>6. Sound(c)'
    BY <1>2, <1>3, <1>4, <1>5 DEF Sound
  <1>7. \A d \in Calls : d # c => Same(d)
    BY DEF IInv, TypeOK, Same
  <1>8. QED
    BY <1>1, <1>6, <1>7, TableSame, OneCallKeeps

(* What a call has is known still when it has nothing new.                 *)
LEMMA NothingNew ==
  ASSUME NEW c \in Calls, Sound(c), StaysKnown, path[c] \in Paths,
         UNCHANGED path, \A s \in Calls : Handed(c, s)' => Handed(c, s)
  PROVE  \A s \in Calls : Handed(c, s)' => Known(path[c], s)'
  BY DEF Sound, StaysKnown

LEMMA JoinKeeps ==
  ASSUME IInv, NEW c \in Calls, Join(c)
  PROVE  IInv'
  <1> USE DEF Join, Goto, wrapper, calls
  <1>1. TypeOK'
    BY DEF IInv, TypeOK, table
  <1>2. Sound(c) /\ Untouched(c) /\ posted[c] = None /\ path[c] \in Paths
        /\ c \notin searching
    BY IInvIsSound DEF Sound, Calling
  <1>3. pc'[c] = "joined"
    BY DEF IInv, TypeOK
  <1>4. \A s \in Calls : Handed(c, s)' => Known(path[c], s)'
    BY <1>2, TableSame, NothingNew DEF Handed, Given
  <1>5. Calling(c)'
    BY <1>2, <1>3 DEF Calling, Untouched
  <1>6. For(searching, path[c])' # {}
    BY DEF For
  <1>7. Sound(c)'
    BY <1>2, <1>4, <1>5, <1>6 DEF Sound
  <1>8. \A d \in Calls : d # c => Same(d)
    BY DEF IInv, TypeOK, Same
  <1>9. QED
    BY <1>1, <1>7, <1>8, TableSame, OneCallKeeps

LEMMA StartSearchKeeps ==
  ASSUME IInv, NEW c \in Calls, StartSearch(c)
  PROVE  IInv'
  <1> USE DEF StartSearch, Goto, wrapper, calls
  <1>1. TypeOK'
    BY DEF IInv, TypeOK, table
  <1>2. Sound(c) /\ Untouched(c) /\ posted[c] = None /\ path[c] \in Paths
        /\ c \notin joined /\ c \notin searching
    BY IInvIsSound DEF Sound, Calling
  <1>3. /\ pc'[c] \in {"requested", "threw"}
        /\ c \in searching' => pc'[c] = "requested"
    BY <1>2 DEF IInv, TypeOK
  <1>4. \A s \in Calls : Handed(c, s)' => Known(path[c], s)'
    BY <1>2, TableSame, NothingNew DEF Handed, Given
  <1>5. Calling(c)'
    BY <1>2, <1>3 DEF Calling, Untouched
  <1>6. Sound(c)'
    BY <1>2, <1>3, <1>4, <1>5 DEF Sound
  <1>7. \A d \in Calls : d # c => Same(d)
    BY DEF IInv, TypeOK, Same
  <1>8. QED
    BY <1>1, <1>6, <1>7, TableSame, OneCallKeeps

-----------------------------------------------------------------------------
(* The search                                                              *)

LEMMA SearchFailsKeeps ==
  ASSUME IInv, NEW c \in Calls, SearchFails(c)
  PROVE  IInv'
  <1> USE DEF SearchFails, Goto, lists, wrapper, calls
  <1>1. TypeOK'
    BY DEF IInv, TypeOK, Results, table
  <1>2. Sound(c) /\ path[c] \in Paths /\ c \notin joined
    BY IInvIsSound DEF Sound, Calling
  <1>3. pc'[c] = "found" /\ found'[c] = Error
    BY DEF IInv, TypeOK
  <1>4. \A s \in Calls : Handed(c, s)' => Known(path[c], s)'
    <2>1. \A s \in Calls : Handed(c, s)' => Handed(c, s)
      BY <1>3, ConstantsAssumption DEF Handed, Given
    <2>2. QED
      BY <1>2, <2>1, TableSame, NothingNew
  <1>5. Calling(c)'
    BY <1>2, <1>3 DEF Sound, Calling, Untouched
  <1>6. Sound(c)'
    BY <1>2, <1>3, <1>4, <1>5 DEF Sound
  <1>7. \A d \in Calls : d # c => Same(d)
    BY DEF IInv, TypeOK, Same
  <1>8. QED
    BY <1>1, <1>6, <1>7, TableSame, OneCallKeeps

LEMMA AsyncFindObjRef2Keeps ==
  ASSUME IInv, NEW c \in Calls, AsyncFindObjRef2(c)
  PROVE  IInv'
  <1> USE DEF AsyncFindObjRef2, Goto, lists, wrapper, calls
  <1>1. Sound(c) /\ path[c] \in Paths /\ c \notin joined
    BY IInvIsSound DEF Sound, Calling
  <1>2. /\ StaysKnown
        /\ found' = [found EXCEPT ![c] = found'[c]]
        /\ found'[c] \in Calls
        /\ stubs'[path[c]] = found'[c]
        /\ stubs' \in [Paths -> Calls \cup {None}]
    BY <1>1, EnterKeepsKnown DEF IInv
  <1>3. TypeOK'
    <2>1. found' \in [Calls -> Results \cup {None}]
      BY <1>2 DEF IInv, TypeOK, Results
    <2>2. QED
      BY <1>2, <2>1 DEF IInv, TypeOK
  <1>4. pc'[c] = "found"
    BY DEF IInv, TypeOK
  <1>5. ASSUME NEW s \in Calls, Handed(c, s)' PROVE Known(path[c], s)'
    <2>1. CASE found'[c] = s
      BY <1>2, <2>1 DEF Known
    <2>2. CASE Handed(c, s)
      BY <1>1, <1>2, <2>2 DEF Sound, StaysKnown
    <2>3. QED
      BY <1>5, <2>1, <2>2 DEF Handed, Given
  <1>6. Calling(c)'
    BY <1>1, <1>4 DEF Sound, Calling, Untouched
  <1>7. Sound(c)'
    BY <1>1, <1>4, <1>5, <1>6 DEF Sound
  <1>8. \A d \in Calls : d # c => Same(d)
    BY <1>2 DEF IInv, TypeOK, Same
  <1>9. QED
    BY <1>2, <1>3, <1>7, <1>8, OneCallKeeps

LEMMA SearchReturnsKeeps ==
  ASSUME IInv, NEW c \in Calls, SearchReturns(c)
  PROVE  IInv'
  <1> USE DEF SearchReturns, Goto, lists, calls
  <1>1. Sound(c) /\ path[c] \in Paths /\ c \notin joined /\ c \notin searching
    BY IInvIsSound DEF Sound, Calling
  <1>2. /\ handled' \in [Calls -> BOOLEAN]
        /\ outcome' \in [Calls -> Results \cup {None}]
        /\ \A d \in Calls : d # c =>
             handled'[d] = handled[d] /\ outcome'[d] = outcome[d]
        /\ \/ ~handled[c] /\ outcome'[c] = found[c]
           \/ outcome'[c] = outcome[c]
    BY DEF IInv, TypeOK, PassOn
  <1>3. TypeOK'
    BY <1>2 DEF IInv, TypeOK, table
  <1>4. pc'[c] = "returned"
    BY DEF IInv, TypeOK
  <1>5. \A s \in Calls : Handed(c, s)' => Known(path[c], s)'
    BY <1>1, <1>2, TableSame, NothingNew DEF Handed, Given
  <1>6. Calling(c)'
    BY <1>1, <1>2, <1>4 DEF Sound, Calling, Untouched
  <1>7. Sound(c)'
    BY <1>1, <1>4, <1>5, <1>6 DEF Sound
  <1>8. \A d \in Calls : d # c => Same(d)
    BY <1>2 DEF IInv, TypeOK, Same
  <1>9. QED
    BY <1>3, <1>7, <1>8, TableSame, OneCallKeeps

LEMMA TimesOutKeeps ==
  ASSUME IInv, NEW c \in Calls, TimesOut(c)
  PROVE  IInv'
  <1> USE DEF TimesOut, PassOn, lists, calls
  <1>1. Sound(c) /\ path[c] \in Paths /\ c \notin joined
    BY IInvIsSound DEF Sound, Calling
  <1>2. TypeOK'
    BY DEF IInv, TypeOK, Results, table
  <1>3. handled'[c] /\ outcome'[c] = Error
    BY DEF IInv, TypeOK
  <1>4. \A s \in Calls : Handed(c, s)' => Known(path[c], s)'
    <2>1. \A s \in Calls : Handed(c, s)' => Handed(c, s)
      BY <1>3, ConstantsAssumption DEF Handed, Given
    <2>2. QED
      BY <1>1, <2>1, TableSame, NothingNew
  <1>5. Calling(c)'
    BY <1>1, <1>3 DEF Sound, Calling, Untouched
  <1>6. Sound(c)'
    BY <1>1, <1>4, <1>5 DEF Sound
  <1>7. \A d \in Calls : d # c => Same(d)
    BY DEF IInv, TypeOK, Same
  <1>8. QED
    BY <1>2, <1>6, <1>7, TableSame, OneCallKeeps

LEMMA CallPostedKeeps ==
  ASSUME IInv, NEW c \in Calls, CallPosted(c)
  PROVE  IInv'
  <1> USE DEF CallPosted, Goto, lists, wrapper
  <1>1. /\ Sound(c) /\ Untouched(c) /\ path[c] \in Paths /\ c \notin joined
        /\ c \notin searching
    BY IInvIsSound DEF IInv, TypeOK, Sound, Calling
  <1>2. posted[c] \in Results
    BY DEF IInv, TypeOK
  <1>3. /\ answers' = [answers EXCEPT ![c] = <<posted[c]>>]
        /\ answers'[c] = <<posted[c]>> /\ Len(answers'[c]) = 1
    BY <1>1 DEF IInv, TypeOK, Untouched
  <1>4. TypeOK'
    <2>1. <<posted[c]>> \in Seq(Results)
      BY <1>2
    <2>2. answers' \in [Calls -> Seq(Results)]
      BY <1>3, <2>1 DEF IInv, TypeOK
    <2>3. QED
      BY <2>2 DEF IInv, TypeOK, table
  <1>5. pc'[c] = "returned" /\ posted'[c] = None
    BY DEF IInv, TypeOK
  <1>6. \A s \in Calls : Handed(c, s)' => Known(path[c], s)'
    <2>1. \A s \in Calls : s \in Given(c)' => s = posted[c]
      BY <1>3 DEF Given
    <2>2. \A s \in Calls : Handed(c, s)' => Handed(c, s)
      BY <1>5, <2>1, ConstantsAssumption DEF Handed
    <2>3. QED
      BY <1>1, <2>2, TableSame, NothingNew
  <1>7. Calling(c)'
    BY <1>1, <1>5 DEF Sound, Calling, Untouched
  <1>8. Sound(c)'
    BY <1>1, <1>3, <1>5, <1>6, <1>7 DEF Sound
  <1>9. \A d \in Calls : d # c => Same(d)
    BY DEF IInv, TypeOK, Same
  <1>10. QED
    BY <1>4, <1>8, <1>9, TableSame, OneCallKeeps

(* AsyncFindObjRef3 leaves sound the calls that are not its own: those it  *)
(* answers for path p, and those for other paths.                          *)
LEMMA EndSearchesKeeps ==
  ASSUME IInv, NEW p \in Paths, NEW r \in Results \cup {None},
         EndSearches(p, r),
         r \in Calls => Known(p, r), UNCHANGED <<table, path>>,
         NEW d \in Calls,
         pc'[d] = pc[d], found'[d] = found[d], handled'[d] = handled[d],
         outcome'[d] = outcome[d], answers'[d] = answers[d]
  PROVE  Sound(d)'
  <1>1. Sound(d) /\ StaysKnown
    BY IInvIsSound, TableSame DEF table
  <1>2. CASE d \in For(joined, p)
    <2>1. path[d] = p /\ pc[d] = "joined" /\ Untouched(d)
      BY <1>1, <1>2 DEF For, Sound, Calling
    <2>2. d \notin joined' /\ d \notin searching' /\ posted'[d] = r
      BY <1>1, <1>2, <2>1 DEF EndSearches, Sound
    <2>3. ASSUME NEW s \in Calls, Handed(d, s)' PROVE Known(path[d], s)'
      <3>1. s = r
        BY <2>1, <2>2, <2>3, ConstantsAssumption
           DEF Handed, Given, Untouched
      <3>2. QED
        BY <2>1, <3>1 DEF Known, table
    <2>4. Calling(d)'
      BY <2>1, <2>2 DEF Calling, Untouched
    <2>5. QED
      BY <2>1, <2>2, <2>3, <2>4 DEF Sound, Untouched
  <1>3. CASE d \notin For(joined, p)
    <2>1. posted'[d] = posted[d]
      BY <1>3 DEF EndSearches
    <2>2. Same(d)
      BY <2>1 DEF Same
    <2>3. d \in joined' => path[d] # p /\ d \in joined
      BY <1>3 DEF EndSearches, For
    <2>4. d \in joined' => For(searching, path[d])' # {}
      BY <1>1, <2>3 DEF EndSearches, For, Sound
    <2>5. d \in searching' => d \in searching
      BY DEF EndSearches
    <2>6. QED
      BY <1>1, <2>2, <2>3, <2>4, <2>5, SameIsSound DEF IInv
  <1>4. QED
    BY <1>2, <1>3

LEMMA EndSearchesTyped ==
  ASSUME TypeOK, NEW p \in Paths, NEW r \in Results \cup {None},
         EndSearches(p, r)
  PROVE  /\ searching' \subseteq Calls /\ joined' \subseteq Calls
         /\ posted' \in [Calls -> Results \cup {None}]
  BY DEF TypeOK, EndSearches

LEMMA EndSearchKeeps ==
  ASSUME IInv, NEW c \in Calls, EndSearch(c)
  PROVE  IInv'
  <1> USE DEF EndSearch, Goto, wrapper
  <1>1. Sound(c) /\ path[c] \in Paths /\ c \notin joined
    BY IInvIsSound DEF Sound, Calling
  <1>2. /\ found[c] \in Results \cup {None}
        /\ found[c] \in Calls => Known(path[c], found[c])
    BY <1>1 DEF IInv, TypeOK, Sound, Handed
  <1>3. TypeOK'
    BY <1>1, <1>2, EndSearchesTyped DEF IInv, TypeOK, table
  <1>4. pc'[c] = "ended" /\ c \notin searching' /\ posted'[c] = None
    BY <1>1 DEF IInv, TypeOK, EndSearches, For, Sound, Calling
  <1>5. ASSUME NEW d \in Calls, d # c PROVE Sound(d)'
    <2>1. pc'[d] = pc[d]
      BY <1>5 DEF IInv, TypeOK
    <2>2. QED
      BY <1>1, <1>2, <2>1, EndSearchesKeeps
  <1>6. Sound(c)'
    <2>1. \A s \in Calls : Handed(c, s)' => Handed(c, s)
      BY <1>4, ConstantsAssumption DEF Handed, Given
    <2>2. \A s \in Calls : Handed(c, s)' => Known(path[c], s)'
      BY <1>1, <2>1, TableSame, NothingNew
    <2>3. Calling(c)' /\ c \notin joined'
      BY <1>1, <1>4 DEF Sound, Calling, Untouched, EndSearches
    <2>4. QED
      BY <1>1, <1>4, <2>2, <2>3 DEF Sound
  <1>7. QED
    BY <1>3, <1>5, <1>6, SoundIsIInv

LEMMA AsyncFindObjRef3Keeps ==
  ASSUME IInv, NEW c \in Calls, AsyncFindObjRef3(c)
  PROVE  IInv'
  <1> USE DEF AsyncFindObjRef3
  <1>1. /\ Sound(c) /\ path[c] \in Paths /\ c \notin joined
        /\ answers[c] = <<>> /\ posted[c] = None
        /\ pc[c] \notin {"idle", "checked", "threw", "joined", "posted"}
        /\ pc[c] \in {"requested", "found", "ended"} => handled[c]
    <2>1. Sound(c) /\ Calling(c) /\ outcome[c] # None
      BY IInvIsSound DEF Sound
    <2>2. pc[c] \notin {"idle", "checked", "threw", "joined", "posted"}
      BY <2>1 DEF Calling, Untouched
    <2>3. QED
      BY <2>1, <2>2 DEF Calling
  <1>2. /\ outcome[c] \in Results
        /\ outcome[c] \in Calls => Known(path[c], outcome[c])
    BY <1>1 DEF IInv, TypeOK, Sound, Handed
  <1>3. /\ answers' = [answers EXCEPT ![c] = <<outcome[c]>>]
        /\ answers'[c] = <<outcome[c]>> /\ Len(answers'[c]) = 1
    BY <1>1 DEF IInv, TypeOK
  <1>4. TypeOK'
    <2>1. answers' \in [Calls -> Seq(Results)]
      <3>1. <<outcome[c]>> \in Seq(Results)
        BY <1>2
      <3>2. QED
        BY <1>3, <3>1 DEF IInv, TypeOK
    <2>2. outcome' \in [Calls -> Results \cup {None}]
      BY DEF IInv, TypeOK
    <2>3. QED
      BY <1>1, <1>2, <2>1, <2>2, EndSearchesTyped DEF IInv, TypeOK, table
  <1>5. outcome'[c] = None /\ c \notin searching' /\ posted'[c] = None
    BY <1>1 DEF IInv, TypeOK, EndSearches, For
  <1>6. ASSUME NEW d \in Calls, d # c PROVE Sound(d)'
    <2>1. outcome'[d] = outcome[d] /\ answers'[d] = answers[d]
      BY <1>6 DEF IInv, TypeOK
    <2>2. QED
      BY <1>1, <1>2, <2>1, EndSearchesKeeps
  <1>7. Sound(c)'
    <2>1. \A s \in Calls : s \in Given(c)' => s = outcome[c]
      BY <1>3 DEF Given
    <2>2. \A s \in Calls : Handed(c, s)' => Handed(c, s)
      BY <1>1, <1>5, <2>1, ConstantsAssumption DEF Handed
    <2>3. \A s \in Calls : Handed(c, s)' => Known(path[c], s)'
      BY <1>1, <2>2, TableSame, NothingNew
    <2>4. Calling(c)' /\ c \notin joined'
      BY <1>1, <1>5 DEF Calling, EndSearches
    <2>5. QED
      BY <1>3, <1>5, <2>3, <2>4 DEF Sound
  <1>8. QED
    BY <1>4, <1>6, <1>7, SoundIsIInv

-----------------------------------------------------------------------------
(* The end of objects                                                      *)

LEMMA DropKeeps ==
  ASSUME IInv, NEW ps \in SUBSET Paths, Drop(ps),
         closing' \in {"no", "begun", "done"},
         UNCHANGED <<lists, pc, path, found, wrapper, calls>>
  PROVE  IInv'
  <1> USE DEF lists, wrapper, calls
  <1>1. TypeOK'
    BY DEF IInv, TypeOK, Drop
  <1>2. StaysKnown
    BY DropKeepsKnown DEF IInv
  <1>3. ASSUME NEW d \in Calls PROVE Sound(d)'
    <2>1. Sound(d) /\ Same(d)
      BY IInvIsSound DEF Same
    <2>2. d \in joined => For(searching, path[d])' # {}
      BY <2>1 DEF Sound, For
    <2>3. QED
      BY <1>2, <2>1, <2>2, SameIsSound DEF IInv
  <1>4. QED
    BY <1>1, <1>3, SoundIsIInv

LEMMA StutterKeeps ==
  ASSUME IInv, closing' \in {"no", "begun", "done"},
         UNCHANGED <<table, lists, pc, path, found, wrapper, calls>>
  PROVE  IInv'
  <1> USE DEF table, lists, wrapper, calls
  <1>1. TypeOK'
    BY DEF IInv, TypeOK
  <1>2. ASSUME NEW d \in Calls PROVE Sound(d)'
    <2>1. Sound(d) /\ Same(d)
      BY IInvIsSound DEF Same
    <2>2. d \in joined => For(searching, path[d])' # {}
      BY <2>1 DEF Sound, For
    <2>3. QED
      BY <2>1, <2>2, TableSame, SameIsSound DEF IInv
  <1>3. QED
    BY <1>1, <1>2, SoundIsIInv

-----------------------------------------------------------------------------

LEMMA InitIInv == Init => IInv
  <1> SUFFICES ASSUME Init PROVE IInv
    OBVIOUS
  <1>1. TypeOK
    BY DEF Init, TypeOK
  <1>2. ASSUME NEW c \in Calls
        PROVE  answers[c] = <<>> /\ Calling(c) /\ Outcomes(c) = {}
    <2>1. /\ answers[c] = <<>> /\ pc[c] = "idle" /\ c \notin joined
          /\ found[c] = None /\ posted[c] = None /\ outcome[c] = None
          /\ ~handled[c]
      BY DEF Init
    <2>2. Given(c) = {}
      BY <2>1 DEF Given
    <2>3. QED
      BY <2>1, <2>2, ConstantsAssumption DEF Calling, Untouched, Outcomes
  <1>3. JoinedAreServed
    BY DEF Init, JoinedAreServed
  <1>4. AnsweredOnce /\ HandedOut
    BY <1>2 DEF AnsweredOnce, HandedOut
  <1>5. QED
    BY <1>1, <1>2, <1>3, <1>4 DEF IInv

LEMMA StepKeepsIInv == IInv /\ [Next]_vars => IInv'
  <1> SUFFICES ASSUME IInv, [Next]_vars PROVE IInv'
    OBVIOUS
  <1>1. ASSUME NEW c \in Calls, FindObjRef(c) PROVE IInv'
    <2>1. ASSUME NEW p \in MayAsk[c], CheckConnected(c, p) PROVE IInv'
      BY <2>1, ConstantsAssumption, CheckConnectedKeeps
    <2>2. QED
      BY <1>1, <2>1, ReturnCachedKeeps, JoinKeeps, StartSearchKeeps
         DEF FindObjRef
  <1>2. ASSUME NEW c \in Calls, Search(c) PROVE IInv'
    BY <1>2, SearchFailsKeeps, AsyncFindObjRef2Keeps, EndSearchKeeps,
       SearchReturnsKeeps DEF Search
  <1>3. ASSUME NEW c \in Calls,
               TimesOut(c) \/ AsyncFindObjRef3(c) \/ CallPosted(c)
        PROVE  IInv'
    BY <1>3, TimesOutKeeps, AsyncFindObjRef3Keeps, CallPostedKeeps
  <1>4. ASSUME NEW p \in Paths, ServicePathReleased(p) PROVE IInv'
    <2>1. Below[p] \in SUBSET Paths
      BY ConstantsAssumption
    <2>2. closing' \in {"no", "begun", "done"}
      BY <1>4 DEF ServicePathReleased, IInv, TypeOK
    <2>3. QED
      BY <1>4, <2>1, <2>2, DropKeeps DEF ServicePathReleased
  <1>5. CASE CloseBegins
    BY <1>5, StutterKeeps DEF CloseBegins
  <1>6. CASE TableEmptied
    <2>1. Paths \in SUBSET Paths
      OBVIOUS
    <2>2. QED
      BY <1>6, <2>1, DropKeeps DEF TableEmptied
  <1>7. CASE UNCHANGED vars
    <2>1. closing' \in {"no", "begun", "done"}
      BY <1>7 DEF IInv, TypeOK, vars
    <2>2. QED
      BY <1>7, <2>1, StutterKeeps DEF vars
  <1>8. QED
    BY <1>1, <1>2, <1>3, <1>4, <1>5, <1>6, <1>7 DEF Next

(* The inductive invariant holds of every behaviour, for any calls, paths  *)
(* and order of searches, timeouts, releases and closing.                  *)
THEOREM Invariance == Spec => []IInv
  BY InitIInv, StepKeepsIInv, PTL DEF Spec

(* There are never two live objects for a path: a stub that some call was  *)
(* given is in the table, or was taken out of it.                          *)
THEOREM ObjectIsOne == Spec => []OneObject
  <1>1. IInv => OneObject
    BY DEF IInv, HandedOut, Outcomes, OneObject
  <1>2. QED
    BY <1>1, Invariance, PTL

(* No handler of AsyncFindObjRef is called twice, by its search, by the    *)
(* search it joined and by the timeout together.                           *)
THEOREM HandlersCalledOnce == Spec => []AnsweredOnce
  <1>1. IInv => AnsweredOnce
    BY DEF IInv
  <1>2. QED
    BY <1>1, Invariance, PTL
=============================================================================
