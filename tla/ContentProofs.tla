---------------------------- MODULE ContentProofs ----------------------------
(***************************************************************************)
(* Proofs about Content for any number of conversations, branches,         *)
(* messages, assets, requests and jobs: what is listed can be downloaded,  *)
(* a branch's copies have no hole, and nothing outlives its conversation.  *)
(***************************************************************************)
EXTENDS Content, SumProofs

-----------------------------------------------------------------------------
(* Least and greatest ids *)

LEMMA MaxIn ==
    ASSUME NEW S \in SUBSET Nat, IsFiniteSet(S), S # {}
    PROVE  Max(S) \in S /\ \A y \in S : y <= Max(S)
  <1> DEFINE f == [x \in S |-> x]
  <1>1. \A x \in S : f[x] \in Int OBVIOUS
  <1>2. PICK x \in S : \A y \in S : f[y] <= f[x] BY <1>1, HighestOf
  <1>3. \A y \in S : x >= y BY <1>2
  <1>4. QED BY <1>3 DEF Max

LEMMA MinIn ==
    ASSUME NEW S \in SUBSET Nat, IsFiniteSet(S), S # {}
    PROVE  Min(S) \in S /\ \A y \in S : Min(S) <= y
  <1> DEFINE f == [x \in S |-> -x]
  <1>1. \A x \in S : f[x] \in Int OBVIOUS
  <1>2. PICK x \in S : \A y \in S : f[y] <= f[x] BY <1>1, HighestOf
  <1>3. \A y \in S : -y <= -x BY <1>2
  <1>4. \A y \in S : x <= y BY <1>3
  <1>5. QED BY <1>4 DEF Min

LEMMA Numbers ==
    /\ MaxBranches \in Nat /\ MaxMessages \in Nat /\ MaxAssets \in Nat /\ MaxArtifacts \in Nat
    /\ None \notin Convs /\ None \notin Nat /\ Convs \cap Nat = {}
  BY ContentAssumption

LEMMA IdsFinite ==
    /\ BranchIds \subseteq Nat /\ MessageIds \subseteq Nat /\ AssetIds \subseteq Nat
    /\ \A S \in SUBSET BranchIds : IsFiniteSet(S)
    /\ \A S \in SUBSET MessageIds : IsFiniteSet(S)
  <1>1. IsFiniteSet(BranchIds) /\ IsFiniteSet(MessageIds)
    BY Numbers, FS_Interval DEF BranchIds, MessageIds
  <1>2. \A S \in SUBSET BranchIds : IsFiniteSet(S) BY <1>1, FS_Subset
  <1>3. \A S \in SUBSET MessageIds : IsFiniteSet(S) BY <1>1, FS_Subset
  <1>4. BranchIds \subseteq Nat /\ MessageIds \subseteq Nat /\ AssetIds \subseteq Nat
    BY DEF BranchIds, MessageIds, AssetIds
  <1>5. QED BY <1>2, <1>3, <1>4

-----------------------------------------------------------------------------
(* Types *)

Copying == {"branching", "reading", "copying"}
Pending == {"imported", "generated"}
Deleting == {"deleting", "dropping", "removing"}

\* What a request or job has come by at each stage.
Fits(me) ==
    /\ me.at \in Copying \cup {"naming", "turning", "posting", "attaching", "deleting"}
          => me.conv \in Convs
    /\ me.at \in Pending \cup {"posting", "attaching"} => me.asset \in AssetIds
    /\ me.at \in Copying => me.things \subseteq MessageIds
    /\ me.at \in {"branching", "reading"} => me.things # {}
    /\ me.at \in {"reading", "copying"} => me.into \in BranchIds
    /\ me.at \in Deleting => me.things \subseteq AssetIds

Shaped == TypeOK /\ \A s \in Slots : Fits(slot[s])

LEMMA IdleIsShaped == Idle \in SlotStates /\ Idle.at = "idle" /\ Fits(Idle)
  BY Numbers DEF Idle, SlotStates, Stages, Fits, Copying, Pending, Deleting

LEMMA ShapedInit == Init => Shaped
  BY Numbers, IdleIsShaped DEF Init, Shaped, TypeOK, NoCopy, Copies

\* A step of s leaves it in a state that fits its stage.
Turns(s, state) == state \in SlotStates /\ Fits(state) /\ Become(s, state)

IdsOf(c) == {row.id : row \in {x \in assets : x.conv = c}}

\* Where a step may take s, and with what.
Moves(s, state) ==
    /\ Turns(s, state)
    /\ state.at \in Copying => Branch(s)
    /\ state.at \in Pending =>
          state.asset = made.asset + 1 /\ (ImportObject(s) \/ GenerateObject(s))
    /\ state.at \in Deleting => slot[s].at \in Deleting \cup {"idle", "sweeping"}
    /\ state.at = "deleting" => state.things = IdsOf(state.conv)
    /\ state.at = "dropping" => \E row \in assets : state.things = {row.id}
    /\ state.at = "removing" =>
          /\ slot[s].at = "removing" \/ DeleteConversation(s) \/ DropAsset(s)
          /\ state.things \subseteq slot[s].things

\* A state outside the stages of copying, importing, generating and deleting.
Plain(state) ==
    /\ state \in SlotStates /\ Fits(state)
    /\ state.at \notin Copying \cup Pending \cup Deleting

LEMMA PlainMoves ==
    ASSUME NEW s, NEW state, Plain(state), Become(s, state)
    PROVE  Moves(s, state)
  BY DEF Plain, Moves, Turns, Deleting

LEMMA Me ==
    ASSUME Shaped, NEW s \in Slots
    PROVE  slot[s] \in SlotStates /\ Fits(slot[s])
  BY DEF Shaped, TypeOK

LEMMA IdleIsPlain == Plain(Idle)
  BY IdleIsShaped DEF Plain, Copying, Pending, Deleting

LEMMA CreateMoves ==
    ASSUME Shaped, NEW s \in Slots, Create(s)
    PROVE  \E state \in SlotStates : Moves(s, state)
  <1>1. CASE CreateConversation(s)
    <2>1. PICK c \in Convs : Become(s, [Idle EXCEPT !.at = "naming", !.conv = c])
      BY <1>1 DEF CreateConversation
    <2> DEFINE state == [Idle EXCEPT !.at = "naming", !.conv = c]
    <2>2. Plain(state)
      BY IdleIsShaped DEF Plain, Idle, SlotStates, Stages, Fits, Copying, Pending, Deleting
    <2> HIDE DEF state
    <2>3. QED BY <2>1, <2>2, PlainMoves DEF state, Plain
  <1>2. CASE CreateMain(s) BY <1>2, IdleIsPlain, PlainMoves DEF CreateMain, Plain
  <1>3. QED BY <1>1, <1>2 DEF Create

\* The branch a request that names none uses.
LEMMA ResolvedType ==
    ASSUME Shaped, NEW c, NEW b \in BranchIds \cup {None}
    PROVE  Resolved(c, b) \in BranchIds \cup {None}
  <1>1. BranchesOf(c) \in SUBSET BranchIds BY DEF Shaped, TypeOK, BranchesOf, BranchRows
  <1>2. BranchesOf(c) # {} => Min(BranchesOf(c)) \in BranchesOf(c) BY <1>1, IdsFinite, MinIn
  <1>3. QED BY <1>1, <1>2 DEF Resolved

\* writeGeneratedObject.
LEMMA StoreMoves ==
    ASSUME Shaped, NEW s \in Slots, NEW from, NEW to \in Pending, StoreObject(s, from, to),
           ImportObject(s) \/ GenerateObject(s)
    PROVE  \E state \in SlotStates : Moves(s, state)
  <1>1. PICK a \in AssetIds : a = made.asset + 1
    BY DEF StoreObject, Shaped, TypeOK, AssetIds
  <1> DEFINE state == [slot[s] EXCEPT !.at = to, !.asset = a]
  <1>2. Become(s, state) BY <1>1 DEF StoreObject
  <1>3. a \in 0..MaxAssets BY <1>1, Numbers DEF AssetIds
  <1>4. state \in SlotStates /\ state.at = to /\ state.asset = a
    BY <1>3, Me DEF SlotStates, Stages, Pending
  <1> HIDE DEF state
  <1>5. Fits(state) BY <1>1, <1>4 DEF Fits, Copying, Pending, Deleting
  <1>6. QED BY <1>1, <1>2, <1>4, <1>5 DEF Moves, Turns, Copying, Pending, Deleting

LEMMA ChatMoves ==
    ASSUME Shaped, NEW s \in Slots, Chat(s)
    PROVE  \E state \in SlotStates : Moves(s, state)
  <1> DEFINE me == slot[s]
  <1>0. me \in SlotStates /\ Fits(me) BY Me
  <1>p. ASSUME NEW state, Plain(state), Become(s, state)
        PROVE  \E st \in SlotStates : Moves(s, st)
    BY <1>p, PlainMoves DEF Plain
  <1>g. Plain(GoOn(s))
    <2>1. Plain([me EXCEPT !.at = "resolving"])
      BY <1>0 DEF Plain, SlotStates, Stages, Fits, Copying, Pending, Deleting
    <2>2. QED BY <2>1, IdleIsPlain DEF GoOn
  <1>1. CASE ChatAnswered(s)
    <2>1. PICK c \in Known \cup {None}, b \in 1..made.branch \cup {None}, n \in 0..MaxArtifacts :
             Become(s, [Idle EXCEPT !.at = IF n = 0 THEN "importing" ELSE "saving",
                                    !.conv = c, !.branch = b, !.left = n,
                                    !.into = IF n = 0 THEN Resolved(c, b) ELSE None])
      BY <1>1, Zenon DEF ChatAnswered
    <2>2. b \in BranchIds \cup {None} /\ c \in Convs \cup {None}
      BY <2>1, Numbers DEF Shaped, TypeOK, BranchIds, Known
    <2>3. PICK into \in BranchIds \cup {None} : into = IF n = 0 THEN Resolved(c, b) ELSE None
      BY <2>2, ResolvedType
    <2>4. PICK at \in {"importing", "saving"} : at = IF n = 0 THEN "importing" ELSE "saving"
      OBVIOUS
    <2>5. Plain([Idle EXCEPT !.at = at, !.conv = c, !.branch = b, !.left = n, !.into = into])
      BY <2>2, IdleIsShaped DEF Plain, Idle, SlotStates, Stages, Fits, Copying, Pending, Deleting
    <2>6. QED BY <1>p, <2>1, <2>3, <2>4, <2>5
  <1>2. CASE ImportObject(s) BY <1>2, StoreMoves DEF ImportObject, Pending
  <1>3. CASE ImportRow(s) \/ ImportFails(s) \/ ImportUnheard(s)
    <2>1. 0 \in 0..MaxAssets BY Numbers
    <2>2. Plain([me EXCEPT !.at = "importing", !.asset = 0])
      BY <1>0, <2>1 DEF Plain, SlotStates, Stages, Fits, Copying, Pending, Deleting
    <2>3. QED BY <1>3, <1>p, <2>2 DEF ImportRow, ImportFails, ImportUnheard
  <1>4. CASE ImportsDone(s)
    <2>1. Plain([me EXCEPT !.at = "saving"])
      BY <1>0 DEF Plain, SlotStates, Stages, Fits, Copying, Pending, Deleting
    <2>2. QED BY <1>4, <1>p, <2>1 DEF ImportsDone, Goto, Become
  <1>5. CASE NoTurn(s) \/ SaveTurn(s) BY <1>5, <1>g, <1>p DEF NoTurn, SaveTurn
  <1>6. CASE FindTurn(s)
    <2>1. PICK b \in BranchIds \cup {None} : b = Resolved(me.conv, me.branch)
      BY <1>0, ResolvedType DEF SlotStates
    <2>2. me.conv \in Convs BY <1>0, <1>6 DEF FindTurn, SlotStates
    <2>3. Plain([me EXCEPT !.at = "turning", !.branch = b])
      BY <1>0, <2>2 DEF Plain, SlotStates, Stages, Fits, Copying, Pending, Deleting
    <2>4. QED BY <1>6, <1>p, <2>1, <2>3 DEF FindTurn
  <1>7. CASE ResolveBranch(s)
    <2>1. PICK b \in BranchIds \cup {None} : b = Resolved(me.conv, me.branch)
      BY <1>0, ResolvedType DEF SlotStates
    <2>2. Plain([me EXCEPT !.at = "generating", !.into = b])
      BY <1>0 DEF Plain, SlotStates, Stages, Fits, Copying, Pending, Deleting
    <2>3. QED BY <1>7, <1>p, <2>1, <2>2 DEF ResolveBranch
  <1>8. CASE GenerateObject(s) BY <1>8, StoreMoves DEF GenerateObject, Pending
  <1>9. CASE GenerateRow(s)
    <2>1. CASE me.left > 1
      <3>1. 0 \in 0..MaxAssets /\ me.left - 1 \in 0..MaxArtifacts
        BY <1>0, <2>1, Numbers DEF SlotStates
      <3>2. PICK n \in 0..MaxArtifacts : n = me.left - 1 BY <3>1
      <3>3. Plain([me EXCEPT !.at = "generating", !.asset = 0, !.left = n])
        BY <1>0, <3>1 DEF Plain, SlotStates, Stages, Fits, Copying, Pending, Deleting
      <3>4. QED BY <1>9, <1>p, <2>1, <3>2, <3>3 DEF GenerateRow
    <2>2. CASE ~(me.left > 1) BY <1>9, <1>p, <2>2, IdleIsPlain DEF GenerateRow
    <2>3. QED BY <2>1, <2>2
  <1>10. QED BY <1>1, <1>2, <1>3, <1>4, <1>5, <1>6, <1>7, <1>8, <1>9 DEF Chat

LEMMA IntendMoves ==
    ASSUME Shaped, NEW s \in Slots, Intend(s)
    PROVE  \E state \in SlotStates : Moves(s, state)
  <1> DEFINE me == slot[s]
  <1>0. me \in SlotStates /\ Fits(me) BY Me
  <1>p. ASSUME NEW state, Plain(state), Become(s, state)
        PROVE  \E st \in SlotStates : Moves(s, st)
    BY <1>p, PlainMoves DEF Plain
  <1>1. CASE IntendUpload(s)
    <2>1. PICK a \in AssetIds : a = made.asset + 1
      BY <1>1 DEF IntendUpload, Shaped, TypeOK, AssetIds
    <2>2. PICK c \in Known \cup {None}, b \in 1..made.branch \cup {None} :
             Become(s, IF c = None THEN Idle
                       ELSE [Idle EXCEPT !.at = "posting", !.conv = c, !.branch = b, !.asset = a])
      BY <1>1, <2>1, Zenon DEF IntendUpload
    <2>3. b \in BranchIds \cup {None} /\ c \in Convs \cup {None} /\ a \in 0..MaxAssets
      BY <2>2, Numbers DEF Shaped, TypeOK, BranchIds, Known, AssetIds
    <2>4. c # None => Plain([Idle EXCEPT !.at = "posting", !.conv = c, !.branch = b, !.asset = a])
      BY <2>3, IdleIsShaped DEF Plain, Idle, SlotStates, Stages, Fits, Copying, Pending, Deleting
    <2>5. QED BY <1>p, <2>2, <2>4, IdleIsPlain
  <1>2. CASE PostUpload(s)
    <2>1. Plain([me EXCEPT !.at = "attaching"])
      BY <1>0, <1>2 DEF PostUpload, Plain, SlotStates, Stages, Fits, Copying, Pending, Deleting
    <2>2. QED BY <1>2, <1>p, <2>1 DEF PostUpload, Goto, Become
  <1>3. CASE Attach(s) BY <1>3, <1>p, IdleIsPlain DEF Attach
  <1>4. QED BY <1>1, <1>2, <1>3 DEF Intend
LEMMA BranchMoves ==
    ASSUME Shaped, NEW s \in Slots, Branch(s)
    PROVE  \E state \in SlotStates : Moves(s, state)
  <1> DEFINE me == slot[s]
  <1>0. me \in SlotStates /\ Fits(me) BY Me
  <1>p. ASSUME NEW state \in SlotStates, Fits(state), state.at \in Copying, Become(s, state)
        PROVE  \E st \in SlotStates : Moves(s, st)
    BY <1>p DEF Moves, Turns, Copying, Pending, Deleting
  <1>1. CASE ReadSource(s)
    <2>1. PICK source \in messages :
             Become(s, [Idle EXCEPT !.at = "branching", !.conv = source.conv,
                                    !.branch = source.branch, !.things = {source.n}])
      BY <1>1, Zenon DEF ReadSource
    <2>2. source \in MessageRows BY DEF Shaped, TypeOK
    <2> DEFINE state == [Idle EXCEPT !.at = "branching", !.conv = source.conv,
                                     !.branch = source.branch, !.things = {source.n}]
    <2>3. state \in SlotStates /\ Fits(state) /\ state.at \in Copying
      BY <2>2, IdleIsShaped
      DEF MessageRows, Idle, SlotStates, Stages, Fits, Copying, Pending, Deleting
    <2> HIDE DEF state
    <2>4. QED BY <1>p, <2>1, <2>3 DEF state
  <1>2. CASE CreateBranch(s)
    <2>1. PICK b \in BranchIds : b = made.branch + 1
      BY <1>2 DEF CreateBranch, InsertBranch, Shaped, TypeOK, BranchIds
    <2> DEFINE state == [me EXCEPT !.at = "reading", !.into = b]
    <2>2. me.at = "branching" BY <1>2 DEF CreateBranch
    <2>3. state \in SlotStates /\ Fits(state) /\ state.at \in Copying
      BY <1>0, <2>2 DEF SlotStates, Stages, Fits, Copying, Pending, Deleting
    <2>4. Become(s, state) BY <1>2, <2>1 DEF CreateBranch
    <2> HIDE DEF state
    <2>5. QED BY <1>p, <2>3, <2>4
  <1>3. CASE ReadPrefix(s)
    <2>l. PICK last \in 0..Max(me.things) :
             Become(s, [me EXCEPT !.at = "copying",
                                  !.things = Prefix(me.conv, me.branch, last),
                                  !.read = Prefix(me.conv, me.branch, last)])
      BY <1>3 DEF ReadPrefix
    <2>p. PICK part : part = Prefix(me.conv, me.branch, last) OBVIOUS
    <2>1. /\ part = Prefix(me.conv, me.branch, last)
          /\ Become(s, [me EXCEPT !.at = "copying", !.things = part, !.read = part])
      BY <2>l, <2>p
    <2>2. part \subseteq MessageIds BY <2>1 DEF Prefix, Shaped, TypeOK, MessageRows
    <2> DEFINE state == [me EXCEPT !.at = "copying", !.things = part, !.read = part]
    <2>3. me.at = "reading" BY <1>3 DEF ReadPrefix
    <2>4. state \in SlotStates /\ Fits(state) /\ state.at \in Copying
      BY <1>0, <2>2, <2>3 DEF SlotStates, Stages, Fits, Copying, Pending, Deleting
    <2>5. Become(s, state) BY <2>1
    <2> HIDE DEF state
    <2>6. QED BY <1>p, <2>4, <2>5
  <1>4. CASE CopyMessage(s)
    <2>1. PICK rest : rest = me.things \ {OldestFirst(me.things)} OBVIOUS
    <2> DEFINE state == [me EXCEPT !.things = rest]
    <2>2. me.at = "copying" BY <1>4 DEF CopyMessage
    <2>3. state \in SlotStates /\ Fits(state) /\ state.at \in Copying
      BY <1>0, <2>1, <2>2 DEF SlotStates, Stages, Fits, Copying, Pending, Deleting
    <2>4. Become(s, state) BY <1>4, <2>1 DEF CopyMessage
    <2> HIDE DEF state
    <2>5. QED BY <1>p, <2>3, <2>4
  <1>5. CASE BranchAnswered(s) BY <1>5, IdleIsPlain, PlainMoves DEF BranchAnswered, Plain
  <1>6. QED BY <1>1, <1>2, <1>3, <1>4, <1>5 DEF Branch

\* To the listing of a conversation's object keys, to the deletion of an asset, and to the
\* removal of objects and on with it.
LEMMA DeletingMoves ==
    ASSUME NEW s \in Slots, NEW state \in SlotStates, Become(s, state), state.at \in Deleting,
           state.things \subseteq AssetIds, slot[s].at \in Deleting \cup {"idle", "sweeping"},
           state.at = "deleting" => state.conv \in Convs /\ state.things = IdsOf(state.conv),
           state.at = "dropping" => \E row \in assets : state.things = {row.id},
           state.at = "removing" =>
              /\ slot[s].at = "removing" \/ DeleteConversation(s) \/ DropAsset(s)
              /\ state.things \subseteq slot[s].things
    PROVE  \E st \in SlotStates : Moves(s, st)
  BY DEF Moves, Turns, Fits, Copying, Pending, Deleting

LEMMA ListMoves ==
    ASSUME Shaped, NEW s \in Slots, NEW c \in Convs, NEW state,
           \E sweep \in SUBSET (Convs \cup AssetIds) :
              state = [ListKeys(s, c) EXCEPT !.sweep = sweep],
           Become(s, state), slot[s].at \in Deleting \cup {"idle", "sweeping"}
    PROVE  \E st \in SlotStates : Moves(s, st)
  <1>0. slot[s] \in SlotStates BY Me
  <1>1. PICK ids : ids = IdsOf(c) OBVIOUS
  <1>2. ids \subseteq AssetIds BY <1>1 DEF IdsOf, Shaped, TypeOK, AssetRows
  <1>3. PICK sweep \in SUBSET (Convs \cup AssetIds) :
           state = [slot[s] EXCEPT !.at = "deleting", !.conv = c, !.things = ids, !.sweep = sweep]
    BY <1>0, <1>1 DEF ListKeys, IdsOf, SlotStates
  <1>4. state \in SlotStates /\ state.at = "deleting" /\ state.conv = c /\ state.things = ids
    BY <1>0, <1>2, <1>3 DEF SlotStates, Stages
  <1>5. state.at \in Deleting BY <1>4 DEF Deleting
  <1>6. QED BY <1>1, <1>2, <1>4, <1>5, DeletingMoves

LEMMA DeleteMoves ==
    ASSUME Shaped, NEW s \in Slots, Delete(s)
    PROVE  \E state \in SlotStates : Moves(s, state)
  <1> DEFINE me == slot[s]
  <1>0. me \in SlotStates /\ Fits(me) BY Me
  <1>1. CASE DeletionBegins(s)
    <2>1. PICK c \in Convs : Become(s, ListKeys(s, c)) BY <1>1, Zenon DEF DeletionBegins, Known
    <2>2. ListKeys(s, c) = [ListKeys(s, c) EXCEPT !.sweep = me.sweep]
      BY <1>0 DEF ListKeys, SlotStates
    <2>3. me.sweep \in SUBSET (Convs \cup AssetIds) BY <1>0 DEF SlotStates
    <2>4. PICK state : state = ListKeys(s, c) OBVIOUS
    <2>5. \E sweep \in SUBSET (Convs \cup AssetIds) :
             state = [ListKeys(s, c) EXCEPT !.sweep = sweep]
      BY <2>2, <2>3, <2>4
    <2>6. me.at = "idle" BY <1>1 DEF DeletionBegins
    <2>7. QED BY <2>1, <2>4, <2>5, <2>6, ListMoves
  <1>2. CASE DropBegins(s)
    <2>1. PICK row \in assets :
             Become(s, [Idle EXCEPT !.at = "dropping", !.things = {row.id}])
      BY <1>2, Zenon DEF DropBegins
    <2>2. PICK state : state = [Idle EXCEPT !.at = "dropping", !.things = {row.id}] OBVIOUS
    <2>3. row.id \in AssetIds BY DEF Shaped, TypeOK, AssetRows
    <2>4. state \in SlotStates /\ state.at = "dropping" /\ state.things = {row.id}
      BY <2>2, <2>3, IdleIsShaped DEF Idle, SlotStates, Stages
    <2>5. state.at \in Deleting BY <2>4 DEF Deleting
    <2>6. me.at = "idle" BY <1>2 DEF DropBegins
    <2>7. QED BY <2>1, <2>2, <2>3, <2>4, <2>5, <2>6, DeletingMoves
  <1>3. CASE DeleteConversation(s) \/ DropAsset(s)
    <2>1. PICK state : state = [me EXCEPT !.at = "removing"] OBVIOUS
    <2>2. Become(s, state)
      BY <1>0, <1>3, <2>1 DEF DeleteConversation, DropAsset, Goto, Become, SlotStates
    <2>3. state \in SlotStates /\ state.at = "removing" /\ state.things = me.things
      BY <1>0, <2>1 DEF SlotStates, Stages
    <2>4. me.at \in Deleting /\ state.at \in Deleting
      BY <1>3, <2>3 DEF DeleteConversation, DropAsset, Deleting
    <2>5. me.things \subseteq AssetIds BY <1>0, <2>4 DEF Fits
    <2>6. QED BY <1>3, <2>2, <2>3, <2>4, <2>5, DeletingMoves
  <1>4. CASE RemoveObject(s)
    <2>1. PICK a \in me.things : Become(s, [me EXCEPT !.things = @ \ {a}])
      BY <1>4, Zenon DEF RemoveObject
    <2>2. PICK state : state = [me EXCEPT !.things = @ \ {a}] OBVIOUS
    <2>3. me.at = "removing" BY <1>4 DEF RemoveObject
    <2>4. me.things \subseteq AssetIds BY <1>0, <2>3 DEF Fits, Deleting
    <2>5. state \in SlotStates /\ state.at = "removing" /\ state.things \subseteq me.things
      BY <1>0, <2>2, <2>3 DEF SlotStates
    <2>6. state.at \in Deleting BY <2>5 DEF Deleting
    <2>7. me.at \in Deleting BY <2>3 DEF Deleting
    <2>8. QED BY <2>1, <2>2, <2>3, <2>4, <2>5, <2>6, <2>7, DeletingMoves
  <1>5. CASE DeletionEnds(s)
    <2>1. PICK state : state = [me EXCEPT !.at = "sweeping", !.conv = None] OBVIOUS
    <2>2. state \in SlotStates /\ state.at = "sweeping" BY <1>0, <2>1 DEF SlotStates, Stages
    <2>3. Plain(state) BY <2>2 DEF Plain, Fits, Copying, Pending, Deleting
    <2>4. QED BY <1>5, <2>1, <2>3, IdleIsPlain, PlainMoves DEF DeletionEnds, Plain
  <1>6. QED BY <1>1, <1>2, <1>3, <1>4, <1>5 DEF Delete

LEMMA SweepMoves ==
    ASSUME Shaped, NEW s \in Slots, Sweep(s)
    PROVE  \E state \in SlotStates : Moves(s, state)
  <1> DEFINE me == slot[s]
  <1>0. me \in SlotStates /\ Fits(me) BY Me
  <1>1. CASE SweepBegins(s)
    <2>1. PICK old \in SUBSET ({c \in Convs : Live(c)} \cup Loose) :
             Become(s, [Idle EXCEPT !.at = "sweeping", !.job = TRUE, !.sweep = old])
      BY <1>1, Zenon DEF SweepBegins
    <2>2. old \subseteq Convs \cup AssetIds BY DEF Loose, Shaped, TypeOK, AssetRows
    <2>3. PICK state : state = [Idle EXCEPT !.at = "sweeping", !.job = TRUE, !.sweep = old]
      OBVIOUS
    <2>4. state \in SlotStates /\ state.at = "sweeping"
      BY <2>2, <2>3, IdleIsShaped DEF Idle, SlotStates, Stages
    <2>5. Plain(state) BY <2>4 DEF Plain, Fits, Copying, Pending, Deleting
    <2>6. QED BY <2>1, <2>3, <2>5, PlainMoves DEF Plain
  <1>2. CASE SweepConversation(s)
    <2>1. PICK c \in me.sweep \cap Convs :
             Become(s, [ListKeys(s, c) EXCEPT !.sweep = @ \ {c}])
      BY <1>2, Zenon DEF SweepConversation
    <2>2. PICK state : state = [ListKeys(s, c) EXCEPT !.sweep = @ \ {c}] OBVIOUS
    <2>3. me.sweep \ {c} \in SUBSET (Convs \cup AssetIds) BY <1>0 DEF SlotStates
    <2>4. state = [ListKeys(s, c) EXCEPT !.sweep = me.sweep \ {c}]
      BY <1>0, <2>2 DEF ListKeys, SlotStates
    <2>5. \E sweep \in SUBSET (Convs \cup AssetIds) :
             state = [ListKeys(s, c) EXCEPT !.sweep = sweep]
      BY <2>3, <2>4
    <2>6. me.at = "sweeping" BY <1>2 DEF SweepConversation
    <2>7. QED BY <2>1, <2>2, <2>5, <2>6, ListMoves
  <1>3. CASE SweepAsset(s)
    <2>1. PICK a \in me.sweep \cap {row.id : row \in assets} :
             Become(s, [me EXCEPT !.at = "dropping", !.things = {a}, !.sweep = @ \ {a}])
      BY <1>3, Zenon DEF SweepAsset
    <2>2. PICK row \in assets : a = row.id BY <2>1
    <2>3. PICK state : state = [me EXCEPT !.at = "dropping", !.things = {a}, !.sweep = @ \ {a}]
      OBVIOUS
    <2>4. row.id \in AssetIds BY DEF Shaped, TypeOK, AssetRows
    <2>5. state \in SlotStates /\ state.at = "dropping" /\ state.things = {row.id}
      BY <1>0, <2>2, <2>3, <2>4 DEF SlotStates, Stages
    <2>6. state.at \in Deleting BY <2>5 DEF Deleting
    <2>7. me.at = "sweeping" BY <1>3 DEF SweepAsset
    <2>8. QED BY <2>1, <2>3, <2>4, <2>5, <2>6, <2>7, DeletingMoves
  <1>4. CASE SweepEnds(s) BY <1>4, IdleIsPlain, PlainMoves DEF SweepEnds, Plain
  <1>5. QED BY <1>1, <1>2, <1>3, <1>4 DEF Sweep

\* A step of a request or job.
Step(s) == Create(s) \/ Chat(s) \/ Intend(s) \/ Branch(s) \/ Delete(s) \/ Sweep(s) \/ Fails(s)

LEMMA NextIsStep ==
    ASSUME Next
    PROVE  (\E s \in Slots : Step(s)) \/ (\E a \in 1..made.asset : PutStored(a) \/ PutTooLarge(a))
  BY Zenon DEF Next, Step

LEMMA StepMoves ==
    ASSUME Shaped, NEW s \in Slots, Step(s)
    PROVE  \E state \in SlotStates : Moves(s, state)
  <1>1. CASE Fails(s) BY <1>1, IdleIsPlain, PlainMoves DEF Fails, Plain
  <1>2. QED
    BY <1>1, CreateMoves, ChatMoves, IntendMoves, BranchMoves, DeleteMoves, SweepMoves DEF Step
\* The tables, the objects and what is kept of the past.
Stored ==
    /\ convs \in [Convs -> {"absent", "live", "deleted"}]
    /\ branches \subseteq BranchRows
    /\ messages \subseteq MessageRows
    /\ assets \subseteq AssetRows
    /\ objects \subseteq AssetIds
    /\ made \in [branch : 0..MaxBranches, message : 0..MaxMessages, asset : 0..MaxAssets]
    /\ copied \in [BranchIds -> Copies]
    /\ lost \subseteq AssetIds

LEMMA ShapedIsStored == Shaped => Stored
  BY DEF Shaped, TypeOK, Stored

LEMMA StoredAndFits ==
    ASSUME Stored, slot \in [Slots -> SlotStates], \A s \in Slots : Fits(slot[s])
    PROVE  Shaped
  BY DEF Shaped, TypeOK, Stored

\* New rows for a conversation and a branch, numbered on from the last message.
NewMessages(c, b) ==
    \E last \in 0..MaxMessages :
        /\ made' = [made EXCEPT !.message = last]
        /\ made.message <= last
        /\ messages \subseteq messages' /\ messages' \subseteq MessageRows
        /\ \A row \in messages' \ messages :
              row.conv = c /\ row.branch = b /\ made.message < row.n /\ row.n <= last

LEMMA MessagesInserted ==
    ASSUME Shaped, NEW c \in Convs, NEW b \in BranchIds \cup {None}, NEW count \in Nat,
           InsertMessages(c, b, count)
    PROVE  NewMessages(c, b)
  <1>1. made.message \in Nat /\ made.message + count <= MaxMessages
    BY DEF InsertMessages, Shaped, TypeOK
  <1>2. (made.message + 1)..(made.message + count) \subseteq MessageIds
    BY <1>1, Numbers DEF MessageIds
  <1>3. messages' = messages \cup {[conv |-> c, branch |-> b, n |-> i] :
                                      i \in (made.message + 1)..(made.message + count)}
    BY DEF InsertMessages
  <1>4. messages \subseteq MessageRows BY DEF Shaped, TypeOK
  <1>5. messages' \subseteq MessageRows BY <1>2, <1>3, <1>4 DEF MessageRows
  <1>6. \A row \in messages' \ messages : row.conv = c /\ row.branch = b
           /\ row.n \in (made.message + 1)..(made.message + count)
    BY <1>3
  <1>7. made' = [made EXCEPT !.message = made.message + count] BY DEF InsertMessages
  <1>8. PICK last \in 0..MaxMessages : last = made.message + count BY <1>1, Numbers
  <1>9. QED BY <1>1, <1>3, <1>5, <1>6, <1>7, <1>8 DEF NewMessages

LEMMA AssetInserted ==
    ASSUME Shaped, NEW a \in AssetIds, NEW c \in Convs \cup {None}, NEW b \in BranchIds \cup {None},
           NEW origin \in {"generated", "uploaded"}, InsertAsset(a, c, b, origin)
    PROVE  assets' \subseteq AssetRows
  BY DEF InsertAsset, Shaped, TypeOK, AssetRows

LEMMA BranchInserted ==
    ASSUME Shaped, NEW c \in Convs, NEW parent \in BranchIds \cup {None}, InsertBranch(c, parent)
    PROVE  /\ branches' \subseteq BranchRows
           /\ made' = [made EXCEPT !.branch = made.branch + 1]
           /\ made.branch + 1 \in BranchIds
  <1>1. made.branch + 1 \in BranchIds BY DEF InsertBranch, Shaped, TypeOK, BranchIds
  <1>2. QED BY <1>1 DEF InsertBranch, Shaped, TypeOK, BranchRows

LEMMA StoreStored ==
    ASSUME Shaped, NEW s, NEW from, NEW to, StoreObject(s, from, to)
    PROVE  Stored'
  <1>1. PICK a \in AssetIds : a = made.asset + 1
    BY DEF StoreObject, Shaped, TypeOK, AssetIds
  <1>2. a \in 0..MaxAssets BY <1>1, Numbers DEF AssetIds
  <1>3. objects' = objects \cup {a} /\ made' = [made EXCEPT !.asset = a]
        /\ UNCHANGED <<tables, history>>
    BY <1>1 DEF StoreObject
  <1>4. QED BY <1>2, <1>3, ShapedIsStored DEF Stored, tables, history

LEMMA ChatStored ==
    ASSUME Shaped, NEW s \in Slots, Chat(s)
    PROVE  Stored'
  <1> DEFINE me == slot[s]
  <1>0. me \in SlotStates /\ Fits(me) /\ Stored BY Me, ShapedIsStored
  <1>c. me.conv \in Convs \cup {None} /\ me.branch \in BranchIds \cup {None}
        /\ me.into \in BranchIds \cup {None}
    BY <1>0 DEF SlotStates
  <1>1. CASE ChatAnswered(s) \/ ImportsDone(s) \/ NoTurn(s) \/ FindTurn(s) \/ ResolveBranch(s)
    <2>1. UNCHANGED <<tables, objects, made, history>>
      BY <1>1 DEF ChatAnswered, ImportsDone, NoTurn, FindTurn, ResolveBranch
    <2>2. QED BY <1>0, <2>1 DEF Stored, tables, history
  <1>2. CASE ImportObject(s) \/ GenerateObject(s)
    BY <1>2, StoreStored DEF ImportObject, GenerateObject
  <1>3. CASE ImportRow(s) \/ ImportUnheard(s) \/ GenerateRow(s)
    <2>1. me.asset \in AssetIds
      BY <1>0, <1>3 DEF Fits, ImportRow, ImportUnheard, GenerateRow, Pending
    <2>2. assets' \subseteq AssetRows
      BY <1>3, <1>c, <2>1, AssetInserted DEF ImportRow, ImportUnheard, GenerateRow
    <2>3. objects' \subseteq objects /\ lost' \subseteq lost \cup {me.asset}
          /\ UNCHANGED <<convs, branches, messages, made, copied>>
      BY <1>3 DEF ImportRow, ImportUnheard, GenerateRow, history
    <2>4. QED BY <1>0, <2>1, <2>2, <2>3 DEF Stored
  <1>4. CASE ImportFails(s)
    <2>1. objects' \subseteq objects /\ UNCHANGED <<tables, made, history>>
      BY <1>4 DEF ImportFails
    <2>2. QED BY <1>0, <2>1 DEF Stored, tables, history
  <1>5. CASE SaveTurn(s)
    <2>1. me.conv \in Convs BY <1>0, <1>5 DEF SaveTurn, Fits
    <2>n. PICK count \in Nat : count = 2 OBVIOUS
    <2>2. InsertMessages(me.conv, me.branch, count)
          /\ UNCHANGED <<convs, branches, assets, objects, history>>
      BY <1>5, <2>n DEF SaveTurn
    <2>3. NewMessages(me.conv, me.branch) BY <1>c, <2>1, <2>2, MessagesInserted
    <2>4. messages' \subseteq MessageRows
          /\ \E last \in 0..MaxMessages : made' = [made EXCEPT !.message = last]
      BY <2>3 DEF NewMessages
    <2>5. QED BY <1>0, <2>2, <2>4 DEF Stored, history
  <1>6. QED BY <1>1, <1>2, <1>3, <1>4, <1>5 DEF Chat

LEMMA IntendStored ==
    ASSUME Shaped, NEW s \in Slots, Intend(s)
    PROVE  Stored'
  <1> DEFINE me == slot[s]
  <1>0. me \in SlotStates /\ Fits(me) /\ Stored BY Me, ShapedIsStored
  <1>c. me.branch \in BranchIds \cup {None} BY <1>0 DEF SlotStates
  <1>1. CASE IntendUpload(s)
    <2>1. PICK a \in AssetIds : a = made.asset + 1
      BY <1>1 DEF IntendUpload, Shaped, TypeOK, AssetIds
    <2>2. PICK c \in Known \cup {None}, b \in 1..made.branch \cup {None} :
             InsertAsset(a, c, b, "uploaded")
      BY <1>1, <2>1, Zenon DEF IntendUpload
    <2>3. b \in BranchIds \cup {None} /\ c \in Convs \cup {None} /\ a \in 0..MaxAssets
      BY <2>2, Numbers DEF Shaped, TypeOK, BranchIds, Known, AssetIds
    <2>4. assets' \subseteq AssetRows BY <2>2, <2>3, AssetInserted
    <2>5. made' = [made EXCEPT !.asset = a]
          /\ UNCHANGED <<convs, branches, messages, objects, history>>
      BY <1>1, <2>1 DEF IntendUpload
    <2>6. QED BY <1>0, <2>3, <2>4, <2>5 DEF Stored, history
  <1>2. CASE PostUpload(s)
    <2>1. me.conv \in Convs BY <1>0, <1>2 DEF PostUpload, Fits
    <2>n. PICK count \in Nat : count = 1 OBVIOUS
    <2>2. InsertMessages(me.conv, me.branch, count)
          /\ UNCHANGED <<convs, branches, assets, objects, history>>
      BY <1>2, <2>n DEF PostUpload
    <2>3. NewMessages(me.conv, me.branch) BY <1>c, <2>1, <2>2, MessagesInserted
    <2>4. messages' \subseteq MessageRows
          /\ \E last \in 0..MaxMessages : made' = [made EXCEPT !.message = last]
      BY <2>3 DEF NewMessages
    <2>5. QED BY <1>0, <2>2, <2>4 DEF Stored, history
  <1>3. CASE Attach(s)
    <2>1. UNCHANGED <<tables, objects, made, history>> BY <1>3 DEF Attach
    <2>2. QED BY <1>0, <2>1 DEF Stored, tables, history
  <1>4. QED BY <1>1, <1>2, <1>3 DEF Intend

LEMMA BranchStored ==
    ASSUME Shaped, NEW s \in Slots, Branch(s)
    PROVE  Stored'
  <1> DEFINE me == slot[s]
  <1>0. me \in SlotStates /\ Fits(me) /\ Stored BY Me, ShapedIsStored
  <1>c. me.branch \in BranchIds \cup {None} BY <1>0 DEF SlotStates
  <1>1. CASE ReadSource(s)
    <2>1. UNCHANGED <<tables, objects, made, history>> BY <1>1 DEF ReadSource
    <2>2. QED BY <1>0, <2>1 DEF Stored, tables, history
  <1>2. CASE CreateBranch(s)
    <2>1. me.conv \in Convs BY <1>0, <1>2 DEF CreateBranch, Fits, Copying
    <2>2. InsertBranch(me.conv, me.branch)
          /\ UNCHANGED <<convs, messages, assets, objects, history>>
      BY <1>2 DEF CreateBranch
    <2>3. branches' \subseteq BranchRows
          /\ made' = [made EXCEPT !.branch = made.branch + 1]
          /\ made.branch + 1 \in BranchIds
      BY <1>c, <2>1, <2>2, BranchInserted
    <2>4. made.branch + 1 \in 0..MaxBranches BY <2>3, Numbers DEF BranchIds
    <2>5. QED BY <1>0, <2>2, <2>3, <2>4 DEF Stored, history
  <1>3. CASE ReadPrefix(s)
    <2>1. PICK prefix : prefix = Prefix(me.conv, me.branch, Max(me.things)) OBVIOUS
    <2>2. prefix \subseteq MessageIds BY <2>1 DEF Prefix, Shaped, TypeOK, MessageRows
    <2>3. copied' = [copied EXCEPT ![me.into].prefix = prefix]
          /\ UNCHANGED <<tables, objects, made, lost>>
      BY <1>3, <2>1 DEF ReadPrefix
    <2>4. copied' \in [BranchIds -> Copies]
      BY <1>0, <2>2, <2>3 DEF Stored, Copies
    <2>5. QED BY <1>0, <2>3, <2>4 DEF Stored, tables
  <1>4. CASE CopyMessage(s)
    <2>1. me.at = "copying" /\ me.things # {} BY <1>4 DEF CopyMessage
    <2>2. me.things \in SUBSET MessageIds /\ me.conv \in Convs /\ me.into \in BranchIds
      BY <1>0, <2>1 DEF Fits, Copying
    <2>3. me.things \in SUBSET Nat /\ IsFiniteSet(me.things) BY <2>2, IdsFinite
    <2>4. OldestFirst(me.things) \in me.things BY <2>1, <2>3, MinIn DEF OldestFirst
    <2>5. messages' = messages \cup {[conv |-> me.conv, branch |-> me.into,
                                      n |-> OldestFirst(me.things)]}
          /\ UNCHANGED <<convs, branches, assets, objects, made, history>>
      BY <1>4 DEF CopyMessage
    <2>6. messages' \subseteq MessageRows BY <1>0, <2>2, <2>4, <2>5 DEF Stored, MessageRows
    <2>7. QED BY <1>0, <2>5, <2>6 DEF Stored, history
  <1>5. CASE BranchAnswered(s)
    <2>1. PICK row : row = [copied[me.into] EXCEPT !.answered = TRUE, !.read = me.read] OBVIOUS
    <2>2. copied' = [copied EXCEPT ![me.into] = row] /\ UNCHANGED <<tables, objects, made, lost>>
      BY <1>5, <2>1 DEF BranchAnswered
    <2>3. me.into \in BranchIds /\ me.read \in SUBSET MessageIds
      BY <1>0, <1>5 DEF BranchAnswered, Fits, SlotStates
    <2>4. row \in Copies BY <1>0, <2>1, <2>3 DEF Stored, Copies
    <2>5. QED BY <1>0, <2>2, <2>4 DEF Stored, tables
  <1>6. QED BY <1>1, <1>2, <1>3, <1>4, <1>5 DEF Branch

LEMMA StepStored ==
    ASSUME Shaped, NEW s \in Slots, Step(s)
    PROVE  Stored'
  <1> DEFINE me == slot[s]
  <1>0. me \in SlotStates /\ Fits(me) /\ Stored BY Me, ShapedIsStored
  <1>1. CASE CreateConversation(s)
    <2>1. PICK c \in Convs : convs' = [convs EXCEPT ![c] = "live"]
      BY <1>1 DEF CreateConversation
    <2>2. UNCHANGED <<branches, messages, assets, objects, made, history>>
      BY <1>1 DEF CreateConversation
    <2>3. QED BY <1>0, <2>1, <2>2 DEF Stored, history
  <1>2. CASE CreateMain(s)
    <2>1. me.conv \in Convs BY <1>0, <1>2 DEF CreateMain, Fits
    <2>2. InsertBranch(me.conv, None)
          /\ UNCHANGED <<convs, messages, assets, objects, history>>
      BY <1>2 DEF CreateMain
    <2>3. branches' \subseteq BranchRows
          /\ made' = [made EXCEPT !.branch = made.branch + 1]
          /\ made.branch + 1 \in BranchIds
      BY <2>1, <2>2, BranchInserted
    <2>4. made.branch + 1 \in 0..MaxBranches BY <2>3, Numbers DEF BranchIds
    <2>5. QED BY <1>0, <2>2, <2>3, <2>4 DEF Stored, history
  <1>3. CASE DeleteConversation(s)
    <2>1. convs' = [convs EXCEPT ![me.conv] = "deleted"]
          /\ branches' \subseteq branches /\ messages' \subseteq messages
          /\ assets' \subseteq assets
          /\ UNCHANGED <<objects, made, history>>
      BY <1>3 DEF DeleteConversation
    <2>2. QED BY <1>0, <2>1 DEF Stored, history
  <1>4. CASE DropAsset(s)
    <2>1. assets' \subseteq assets
          /\ UNCHANGED <<convs, branches, messages, objects, made, history>>
      BY <1>4 DEF DropAsset
    <2>2. QED BY <1>0, <2>1 DEF Stored, history
  <1>5. CASE RemoveObject(s)
    <2>1. objects' \subseteq objects /\ UNCHANGED <<tables, made, history>>
      BY <1>5 DEF RemoveObject
    <2>2. QED BY <1>0, <2>1 DEF Stored, tables, history
  <1>6. CASE \/ DeletionBegins(s) \/ DropBegins(s) \/ DeletionEnds(s) \/ Sweep(s) \/ Fails(s)
    <2>1. UNCHANGED <<tables, objects, made, history>>
      BY <1>6 DEF DeletionBegins, DropBegins, DeletionEnds, Sweep, SweepBegins,
                  SweepConversation, SweepAsset, SweepEnds, Fails
    <2>2. QED BY <1>0, <2>1 DEF Stored, tables, history
  <1>7. QED
    BY <1>1, <1>2, <1>3, <1>4, <1>5, <1>6, ChatStored, IntendStored, BranchStored
    DEF Step, Create, Delete

LEMMA ShapedPreserved == Shaped /\ [Next]_vars => Shaped'
  <1> SUFFICES ASSUME Shaped, [Next]_vars PROVE Shaped'
    OBVIOUS
  <1>0. Stored /\ slot \in [Slots -> SlotStates] /\ \A s \in Slots : Fits(slot[s])
    BY ShapedIsStored DEF Shaped, TypeOK
  <1>1. ASSUME NEW s \in Slots, Step(s) PROVE Shaped'
    <2>1. Stored' BY <1>1, StepStored
    <2>2. PICK state \in SlotStates : Moves(s, state) BY <1>1, StepMoves
    <2>3. Fits(state) /\ slot' = [slot EXCEPT ![s] = state] BY <2>2 DEF Moves, Turns, Become
    <2>4. \A t \in Slots : slot'[t] = IF t = s THEN state ELSE slot[t] BY <1>0, <2>3
    <2>5. slot' \in [Slots -> SlotStates] BY <1>0, <2>3
    <2>6. \A t \in Slots : Fits(slot'[t]) BY <1>0, <2>3, <2>4
    <2>7. QED BY <2>1, <2>5, <2>6 DEF Shaped, TypeOK, Stored
  <1>2. ASSUME NEW a \in 1..made.asset, PutStored(a) \/ PutTooLarge(a) PROVE Shaped'
    <2>1. a \in AssetIds BY Numbers DEF Shaped, TypeOK, AssetIds
    <2>2. QED BY <1>2, <2>1 DEF PutStored, PutTooLarge, Shaped, TypeOK, tables, history
  <1>3. CASE UNCHANGED vars BY <1>3 DEF vars, tables, history, Shaped, TypeOK
  <1>4. QED BY <1>1, <1>2, <1>3, NextIsStep

\* Whatever is created and deleted, the tables, the objects and what every request and job
\* keeps have the types the code gives them, and what a stage needs is there.
THEOREM ContentTypes == Spec => []TypeOK
  <1>1. Spec => []Shaped BY ShapedInit, ShapedPreserved, PTL DEF Spec
  <1>2. Shaped => TypeOK BY DEF Shaped
  <1>3. QED BY <1>1, <1>2, PTL
-----------------------------------------------------------------------------
(* What a step does to the tables *)

\* The rows a step inserts refer to what exists.
MessagesAdded ==
    /\ \E c \in Convs, b \in BranchIds \cup {None} :
          References(c, b) /\ \A row \in messages' \ messages : row.conv = c /\ row.branch = b
    /\ UNCHANGED <<convs, branches, assets>>

AssetAdded ==
    /\ \E a \in AssetIds, c \in Convs \cup {None}, b \in BranchIds \cup {None},
          origin \in {"generated", "uploaded"} : InsertAsset(a, c, b, origin)
    /\ UNCHANGED <<convs, branches, messages>>

BranchAdded ==
    /\ \E c \in Convs, parent \in BranchIds \cup {None} : InsertBranch(c, parent)
    /\ UNCHANGED <<convs, messages, assets>>

LEMMA TablesStep ==
    ASSUME Shaped, NEW s \in Slots, Step(s)
    PROVE  \/ UNCHANGED tables
           \/ CreateConversation(s) \/ DeleteConversation(s) \/ DropAsset(s)
           \/ MessagesAdded \/ AssetAdded \/ BranchAdded
  <1> DEFINE me == slot[s]
  <1>0. me \in SlotStates /\ Fits(me) BY Me
  <1>c. me.conv \in Convs \cup {None} /\ me.branch \in BranchIds \cup {None}
        /\ me.into \in BranchIds \cup {None}
    BY <1>0 DEF SlotStates
  <1>1. CASE CreateMain(s) \/ CreateBranch(s)
    <2>1. me.conv \in Convs BY <1>0, <1>1 DEF CreateMain, CreateBranch, Fits, Copying
    <2>2. InsertBranch(me.conv, None) \/ InsertBranch(me.conv, me.branch)
      BY <1>1 DEF CreateMain, CreateBranch
    <2>3. UNCHANGED <<convs, messages, assets>> BY <1>1 DEF CreateMain, CreateBranch
    <2>4. \E parent \in BranchIds \cup {None} : InsertBranch(me.conv, parent) BY <1>c, <2>2
    <2>5. QED BY <2>1, <2>3, <2>4 DEF BranchAdded
  <1>2. CASE SaveTurn(s) \/ PostUpload(s)
    <2>1. me.conv \in Convs BY <1>0, <1>2 DEF SaveTurn, PostUpload, Fits
    <2>2. References(me.conv, me.branch)
          /\ \A row \in messages' \ messages : row.conv = me.conv /\ row.branch = me.branch
      BY <1>2 DEF SaveTurn, PostUpload, InsertMessages
    <2>3. UNCHANGED <<convs, branches, assets>> BY <1>2 DEF SaveTurn, PostUpload
    <2>4. QED BY <1>c, <2>1, <2>2, <2>3 DEF MessagesAdded
  <1>3. CASE CopyMessage(s)
    <2>1. me.conv \in Convs BY <1>0, <1>3 DEF CopyMessage, Fits, Copying
    <2>2. References(me.conv, me.into)
          /\ \A row \in messages' \ messages : row.conv = me.conv /\ row.branch = me.into
      BY <1>3 DEF CopyMessage
    <2>3. UNCHANGED <<convs, branches, assets>> BY <1>3 DEF CopyMessage
    <2>4. QED BY <1>c, <2>1, <2>2, <2>3 DEF MessagesAdded
  <1>4. CASE ImportRow(s) \/ ImportUnheard(s) \/ GenerateRow(s)
    <2>1. me.asset \in AssetIds
      BY <1>0, <1>4 DEF Fits, ImportRow, ImportUnheard, GenerateRow, Pending
    <2>2. InsertAsset(me.asset, me.conv, me.into, "generated")
          /\ UNCHANGED <<convs, branches, messages>>
      BY <1>4 DEF ImportRow, ImportUnheard, GenerateRow
    <2>3. QED BY <1>c, <2>1, <2>2 DEF AssetAdded
  <1>5. CASE IntendUpload(s)
    <2>1. PICK a \in AssetIds : a = made.asset + 1
      BY <1>5 DEF IntendUpload, Shaped, TypeOK, AssetIds
    <2>2. PICK c \in Known \cup {None}, b \in 1..made.branch \cup {None} :
             InsertAsset(a, c, b, "uploaded")
      BY <1>5, <2>1, Zenon DEF IntendUpload
    <2>3. b \in BranchIds \cup {None} /\ c \in Convs \cup {None}
      BY <2>2, Numbers DEF Shaped, TypeOK, BranchIds, Known
    <2>4. UNCHANGED <<convs, branches, messages>> BY <1>5 DEF IntendUpload
    <2>5. QED BY <2>2, <2>3, <2>4 DEF AssetAdded
  <1>6. CASE \/ Attach(s) \/ ReadSource(s) \/ ReadPrefix(s) \/ BranchAnswered(s)
             \/ DeletionBegins(s) \/ DropBegins(s) \/ RemoveObject(s) \/ DeletionEnds(s)
    BY <1>6 DEF Attach, ReadSource, ReadPrefix, BranchAnswered, DeletionBegins, DropBegins,
                RemoveObject, DeletionEnds
  <1>7. CASE Sweep(s) \/ Fails(s)
    BY <1>7 DEF Sweep, SweepBegins, SweepConversation, SweepAsset, SweepEnds, Fails
  <1>8. CASE Chat(s)
    <2>1. CASE \/ ChatAnswered(s) \/ ImportFails(s) \/ ImportsDone(s) \/ NoTurn(s) \/ FindTurn(s)
               \/ ResolveBranch(s) \/ ImportObject(s) \/ GenerateObject(s)
      BY <2>1 DEF ChatAnswered, ImportFails, ImportsDone, NoTurn, FindTurn, ResolveBranch,
                  ImportObject, GenerateObject, StoreObject
    <2>2. QED BY <1>2, <1>4, <1>8, <2>1 DEF Chat
  <1>9. QED
    BY <1>1, <1>2, <1>3, <1>4, <1>5, <1>6, <1>7, <1>8 DEF Step, Create, Intend, Branch, Delete

-----------------------------------------------------------------------------
(* Nothing outlives its conversation *)

\* Deleting a conversation leaves a branch that is of another one.
LEMMA OtherBranchesStay ==
    ASSUME NEW s, DeleteConversation(s), NEW b, Exists(b), b \notin BranchesOf(slot[s].conv)
    PROVE  Exists(b)'
  BY DEF DeleteConversation, Exists, BranchesOf

LEMMA OutlivesDelete ==
    ASSUME Shaped, NothingOutlivesItsConversation, NEW s \in Slots, DeleteConversation(s)
    PROVE  NothingOutlivesItsConversation'
  <1> DEFINE c == slot[s].conv
  <1>0. c \in Convs BY Me DEF DeleteConversation, Fits
  <1>n. None \notin Convs BY Numbers
  <1>1. convs' = [convs EXCEPT ![c] = "deleted"]
        /\ convs \in [Convs -> {"absent", "live", "deleted"}]
        /\ branches' = {row \in branches : row.conv # c}
        /\ messages' = {row \in messages : row.conv # c}
        /\ assets' = {row \in assets : row.conv # c}
    BY DEF DeleteConversation, Shaped, TypeOK
  <1>2. \A row \in messages \cup assets : row.conv # c => row.branch \notin BranchesOf(c)
    BY DEF DeleteConversation, HeldFromElsewhere
  <1>3. \A row \in branches : row.conv # c => row.parent \notin BranchesOf(c)
    BY DEF DeleteConversation, HeldFromElsewhere
  <1>4. \A row \in (branches \cup messages \cup assets)' : row.conv \in Convs => Live(row.conv)'
    BY <1>0, <1>1 DEF NothingOutlivesItsConversation, Live
  <1>5. \A row \in (messages \cup assets)' : row.branch # None => Exists(row.branch)'
    <2> SUFFICES ASSUME NEW row \in (messages \cup assets)', row.branch # None
                 PROVE  Exists(row.branch)'
      OBVIOUS
    <2>1. row \in messages \cup assets /\ row.conv # c BY <1>1
    <2>2. Exists(row.branch) BY <2>1 DEF NothingOutlivesItsConversation
    <2>3. row.branch \notin BranchesOf(c) BY <1>2, <2>1
    <2>4. QED BY <2>2, <2>3, OtherBranchesStay
  <1>6. \A row \in branches' : row.parent # None => Exists(row.parent)'
    <2> SUFFICES ASSUME NEW row \in branches', row.parent # None
                 PROVE  Exists(row.parent)'
      OBVIOUS
    <2>1. row \in branches /\ row.conv # c BY <1>1
    <2>2. Exists(row.parent) BY <2>1 DEF NothingOutlivesItsConversation
    <2>3. row.parent \notin BranchesOf(c) BY <1>3, <2>1
    <2>4. QED BY <2>2, <2>3, OtherBranchesStay
  <1>7. QED BY <1>4, <1>5, <1>6, Zenon DEF NothingOutlivesItsConversation

LEMMA OutlivesStep ==
    ASSUME Shaped, NothingOutlivesItsConversation, NEW s \in Slots, Step(s)
    PROVE  NothingOutlivesItsConversation'
  <1> USE DEF NothingOutlivesItsConversation, Live, Exists
  <1>1. CASE UNCHANGED tables BY <1>1 DEF tables
  <1>2. CASE CreateConversation(s)
    BY <1>2 DEF CreateConversation, Shaped, TypeOK
  <1>3. CASE DeleteConversation(s) BY <1>3, OutlivesDelete
  <1>4. CASE DropAsset(s) BY <1>4 DEF DropAsset
  <1>5. CASE MessagesAdded
    <2>1. PICK c \in Convs, b \in BranchIds \cup {None} :
             References(c, b) /\ \A row \in messages' \ messages : row.conv = c /\ row.branch = b
      BY <1>5 DEF MessagesAdded
    <2>2. UNCHANGED <<convs, branches, assets>> BY <1>5 DEF MessagesAdded
    <2>3. QED BY <2>1, <2>2, Numbers DEF References
  <1>6. CASE AssetAdded
    <2>1. PICK a \in AssetIds, c \in Convs \cup {None}, b \in BranchIds \cup {None},
               origin \in {"generated", "uploaded"} : InsertAsset(a, c, b, origin)
      BY <1>6 DEF AssetAdded
    <2>2. UNCHANGED <<convs, branches, messages>> BY <1>6 DEF AssetAdded
    <2>3. References(c, b) /\ \A row \in assets' \ assets : row.conv = c /\ row.branch = b
      BY <2>1 DEF InsertAsset
    <2>4. QED BY <2>2, <2>3, Numbers DEF References
  <1>7. CASE BranchAdded
    <2>1. PICK c \in Convs, parent \in BranchIds \cup {None} : InsertBranch(c, parent)
      BY <1>7 DEF BranchAdded
    <2>2. UNCHANGED <<convs, messages, assets>> BY <1>7 DEF BranchAdded
    <2>3. Live(c) /\ (parent # None => Exists(parent)) /\ branches \subseteq branches'
          /\ \A row \in branches' \ branches : row.conv = c /\ row.parent = parent
      BY <2>1 DEF InsertBranch
    <2>4. QED BY <2>2, <2>3
  <1>8. QED BY <1>1, <1>2, <1>3, <1>4, <1>5, <1>6, <1>7, TablesStep

LEMMA OutlivesPreserved ==
    Shaped /\ NothingOutlivesItsConversation /\ [Next]_vars => NothingOutlivesItsConversation'
  <1> SUFFICES ASSUME Shaped, NothingOutlivesItsConversation, [Next]_vars
               PROVE  NothingOutlivesItsConversation'
    OBVIOUS
  <1>1. ASSUME UNCHANGED tables PROVE NothingOutlivesItsConversation'
    BY <1>1 DEF tables, NothingOutlivesItsConversation, Live, Exists
  <1>2. CASE \E a \in 1..made.asset : PutStored(a) \/ PutTooLarge(a)
    BY <1>1, <1>2 DEF PutStored, PutTooLarge
  <1>3. CASE UNCHANGED vars BY <1>1, <1>3 DEF vars, tables
  <1>4. QED BY <1>2, <1>3, OutlivesStep, NextIsStep

\* A deleted conversation leaves no branch, message or asset, even when turns, uploads, copies
\* and imports were under way in it, and no row refers to a branch that is gone.
THEOREM NothingOutlives == Spec => []NothingOutlivesItsConversation
  <1>1. Init => NothingOutlivesItsConversation BY DEF Init, NothingOutlivesItsConversation
  <1>2. QED BY <1>1, ShapedInit, ShapedPreserved, OutlivesPreserved, PTL DEF Spec
-----------------------------------------------------------------------------
(* Generated assets are stored *)

HasRow(a) == \E row \in assets : row.id = a

\* The asset whose row is to be inserted has its object, unless a PUT removed it, and no
\* row yet.
PendingKept(s) ==
    slot[s].at \in Pending =>
        /\ slot[s].asset <= made.asset
        /\ slot[s].asset \in objects \cup lost
        /\ ~HasRow(slot[s].asset)

\* The assets to be deleted are among those of the conversation, and have no row any more
\* when their objects are removed.
DeletingKept(s) ==
    /\ slot[s].at \in Deleting => \A a \in slot[s].things : a <= made.asset
    /\ slot[s].at = "deleting" =>
          \A row \in assets : row.id \in slot[s].things => row.conv = slot[s].conv
    /\ slot[s].at = "removing" => \A a \in slot[s].things : ~HasRow(a)

\* No two requests insert one row, and none inserts what another deletes.
Apart(s, t) ==
    /\ slot[s].at \in Pending /\ slot[t].at \in Pending /\ s # t
          => slot[s].asset # slot[t].asset
    /\ slot[s].at \in Pending /\ slot[t].at \in Deleting
          => slot[s].asset \notin slot[t].things

RowsKept ==
    /\ \A row \in assets : row.id <= made.asset
    /\ \A x, y \in assets : x.id = y.id => x = y

AssetsKept ==
    /\ RowsKept
    /\ \A s \in Slots : PendingKept(s)
    /\ \A s \in Slots : DeletingKept(s)
    /\ \A s, t \in Slots : Apart(s, t)
    /\ GeneratedAreStored

LEMMA Moved ==
    ASSUME Shaped, NEW s \in Slots, NEW state, Become(s, state)
    PROVE  slot'[s] = state /\ \A t \in Slots : t # s => slot'[t] = slot[t]
  BY DEF Become, Shaped, TypeOK

LEMMA IdsAreRows ==
    ASSUME NEW c, NEW a
    PROVE  a \in IdsOf(c) <=> \E row \in assets : row.id = a /\ row.conv = c
  BY DEF IdsOf

\* A step that leaves the assets, their rows and objects, alone.
LEMMA AssetsQuiet ==
    ASSUME Shaped, AssetsKept, NEW s \in Slots, NEW state \in SlotStates, Moves(s, state),
           UNCHANGED <<assets, objects, lost>>, made'.asset = made.asset,
           state.at \notin Pending, state.at = "removing" => slot[s].at = "removing"
    PROVE  AssetsKept'
  <1>0. slot'[s] = state /\ \A t \in Slots : t # s => slot'[t] = slot[t]
    BY Moved DEF Moves, Turns
  <1>1. UNCHANGED <<assets, objects, lost>> /\ made'.asset = made.asset OBVIOUS
  <1>2. RowsKept' BY <1>1 DEF AssetsKept, RowsKept
  <1>3. GeneratedAreStored' BY <1>1 DEF AssetsKept, GeneratedAreStored
  <1>4. \A t \in Slots : PendingKept(t)' BY <1>0, <1>1 DEF AssetsKept, PendingKept, HasRow
  <1>5. state.at \in {"deleting", "dropping"} =>
           /\ \A a \in state.things : HasRow(a)
           /\ state.at = "deleting" =>
                 \A row \in assets : row.id \in state.things => row.conv = state.conv
    <2>1. CASE state.at = "deleting"
      <3>1. \A a \in state.things : \E row \in assets : row.id = a /\ row.conv = state.conv
        BY <2>1, IdsAreRows DEF Moves
      <3>2. QED BY <3>1 DEF HasRow, AssetsKept, RowsKept
    <2>2. CASE state.at = "dropping" BY <2>2 DEF Moves, HasRow
    <2>3. QED BY <2>1, <2>2
  <1>6. state.at = "removing" => slot[s].at = "removing" /\ state.things \subseteq slot[s].things
    BY DEF Moves
  <1>7. DeletingKept(s)'
    <2>1. CASE state.at \in {"deleting", "dropping"}
      BY <1>0, <1>1, <1>5, <2>1 DEF DeletingKept, HasRow, AssetsKept, RowsKept
    <2>2. CASE state.at = "removing"
      BY <1>0, <1>1, <1>6, <2>2 DEF DeletingKept, HasRow, AssetsKept, Deleting
    <2>3. QED BY <1>0, <2>1, <2>2 DEF DeletingKept, Deleting
  <1>8. \A t \in Slots : t # s => DeletingKept(t)'
    BY <1>0, <1>1 DEF AssetsKept, DeletingKept, HasRow
  <1>9. \A t, u \in Slots : Apart(t, u)'
    <2> SUFFICES ASSUME NEW t \in Slots, NEW u \in Slots PROVE Apart(t, u)'
      OBVIOUS
    <2>1. CASE t # s /\ u # s BY <1>0, <2>1 DEF AssetsKept, Apart
    <2>2. CASE t = s BY <1>0, <2>2 DEF Apart, Pending
    <2>3. CASE t # s /\ u = s /\ slot[t].at \in Pending
      <3>1. CASE state.at \in {"deleting", "dropping"}
        <4>1. ~HasRow(slot[t].asset) BY <2>3 DEF AssetsKept, PendingKept
        <4>2. slot[t].asset \notin state.things BY <1>5, <3>1, <4>1
        <4>3. QED BY <1>0, <2>3, <4>2, <3>1 DEF Apart, Pending, Deleting
      <3>2. CASE state.at = "removing"
        <4>1. slot[t].asset \notin slot[s].things
          BY <1>6, <2>3, <3>2 DEF AssetsKept, Apart, Deleting
        <4>2. slot[t].asset \notin state.things BY <1>6, <3>2, <4>1
        <4>3. QED BY <1>0, <2>3, <4>2, <3>2 DEF Apart, Pending, Deleting
      <3>3. QED BY <1>0, <2>3, <3>1, <3>2 DEF Apart, Pending, Deleting
    <2>4. QED BY <1>0, <2>1, <2>2, <2>3 DEF Apart
  <1>10. \A t \in Slots : DeletingKept(t)' BY <1>7, <1>8
  <1>11. QED BY <1>2, <1>3, <1>4, <1>9, <1>10, Zenon DEF AssetsKept
\* An object is stored for an asset that is to be inserted.
LEMMA AssetsStore ==
    ASSUME Shaped, AssetsKept, NEW s \in Slots, NEW state \in SlotStates, Moves(s, state),
           NEW from, NEW to \in Pending, StoreObject(s, from, to), state.at \in Pending
    PROVE  AssetsKept'
  <1>0. slot'[s] = state /\ \A t \in Slots : t # s => slot'[t] = slot[t]
    BY Moved DEF Moves, Turns
  <1>a. PICK a \in AssetIds : a = made.asset + 1
    BY DEF StoreObject, Shaped, TypeOK, AssetIds
  <1>1. assets' = assets /\ lost' = lost /\ objects' = objects \cup {a} /\ made'.asset = a
    BY <1>a DEF StoreObject, Shaped, TypeOK, tables, history
  <1>2. state.asset = a /\ state.at \notin Deleting BY <1>a DEF Moves, Pending, Deleting
  <1>m. made.asset \in Nat /\ \A row \in assets : row.id \in Nat
    BY DEF Shaped, TypeOK, AssetRows, AssetIds
  <1>n. \A t \in Slots : (slot[t].at \in Pending => slot[t].asset \in Nat)
           /\ (slot[t].at \in Deleting => slot[t].things \subseteq Nat)
    BY DEF Shaped, Fits, AssetIds
  <1>3. ~HasRow(a) BY <1>a, <1>m DEF HasRow, AssetsKept, RowsKept
  <1>4. RowsKept' BY <1>1, <1>a, <1>m DEF AssetsKept, RowsKept
  <1>5. GeneratedAreStored' BY <1>1 DEF AssetsKept, GeneratedAreStored
  <1>6. \A t \in Slots : PendingKept(t)'
    <2> SUFFICES ASSUME NEW t \in Slots PROVE PendingKept(t)'
      OBVIOUS
    <2>1. CASE t = s BY <1>0, <1>1, <1>2, <1>3, <1>a, <1>m, <2>1 DEF PendingKept, HasRow
    <2>2. CASE t # s
      <3>1. PendingKept(t) BY DEF AssetsKept
      <3>2. QED BY <1>0, <1>1, <1>a, <1>m, <1>n, <2>2, <3>1 DEF PendingKept, HasRow
    <2>3. QED BY <2>1, <2>2
  <1>7. \A t \in Slots : DeletingKept(t)'
    <2> SUFFICES ASSUME NEW t \in Slots PROVE DeletingKept(t)'
      OBVIOUS
    <2>1. CASE t = s BY <1>0, <1>2, <2>1 DEF DeletingKept, Deleting
    <2>2. CASE t # s
      <3>1. DeletingKept(t) BY DEF AssetsKept
      <3>2. QED BY <1>0, <1>1, <1>a, <1>m, <1>n, <2>2, <3>1 DEF DeletingKept, HasRow
    <2>3. QED BY <2>1, <2>2
  <1>8. \A t, u \in Slots : Apart(t, u)'
    <2> SUFFICES ASSUME NEW t \in Slots, NEW u \in Slots PROVE Apart(t, u)'
      OBVIOUS
    <2>1. CASE t # s /\ u # s BY <1>0, <2>1 DEF AssetsKept, Apart
    <2>2. \A v \in Slots : (slot[v].at \in Pending => slot[v].asset # a)
             /\ (slot[v].at \in Deleting => a \notin slot[v].things)
      BY <1>a, <1>m, <1>n DEF AssetsKept, PendingKept, DeletingKept
    <2>3. CASE t = s /\ u # s BY <1>0, <1>2, <2>2, <2>3 DEF Apart
    <2>4. CASE t # s /\ u = s BY <1>0, <1>2, <2>2, <2>4 DEF Apart
    <2>5. CASE t = s /\ u = s BY <1>0, <1>2, <2>5 DEF Apart
    <2>6. QED BY <2>1, <2>3, <2>4, <2>5
  <1>9. QED BY <1>4, <1>5, <1>6, <1>7, <1>8, Zenon DEF AssetsKept

\* A slot that is neither to insert an asset nor to delete one.
LEMMA ApartFromIdle ==
    ASSUME AssetsKept, NEW s \in Slots, slot'[s].at \notin Pending \cup Deleting,
           \A t \in Slots : t # s => slot'[t] = slot[t]
    PROVE  \A t, u \in Slots : Apart(t, u)'
  <1> SUFFICES ASSUME NEW t \in Slots, NEW u \in Slots PROVE Apart(t, u)'
    OBVIOUS
  <1>1. CASE t # s /\ u # s BY <1>1 DEF AssetsKept, Apart
  <1>2. CASE t = s \/ u = s BY <1>2 DEF Apart
  <1>3. QED BY <1>1, <1>2

\* The row of an asset whose object is stored, or was.
LEMMA AssetsRow ==
    ASSUME Shaped, AssetsKept, NEW s \in Slots, NEW state \in SlotStates, Moves(s, state),
           slot[s].at \in Pending,
           NEW row, row.id = slot[s].asset, assets' = assets \cup {row}, made'.asset = made.asset,
           objects' \subseteq objects, objects \ {slot[s].asset} \subseteq objects',
           lost \subseteq lost', slot[s].asset \in objects' \cup lost'
    PROVE  AssetsKept'
  <1> DEFINE a == slot[s].asset
  <1>0. slot'[s] = state /\ \A t \in Slots : t # s => slot'[t] = slot[t]
    BY Moved DEF Moves, Turns
  <1>1. state.at \notin Pending \cup Deleting
    BY DEF Moves, ImportObject, GenerateObject, StoreObject, Pending, Deleting
  <1>2. a <= made.asset /\ ~HasRow(a) BY DEF AssetsKept, PendingKept
  <1>3. RowsKept'
    <2>1. \A x \in assets : x.id # a BY <1>2 DEF HasRow
    <2>2. QED BY <1>2, <2>1 DEF AssetsKept, RowsKept
  <1>4. GeneratedAreStored'
    <2> SUFFICES ASSUME NEW x \in assets', x.origin = "generated", x.id \notin lost'
                 PROVE  x.id \in objects'
      BY DEF GeneratedAreStored
    <2>1. CASE x = row BY <2>1
    <2>2. CASE x \in assets
      <3>1. x.id \in objects BY <2>2 DEF AssetsKept, GeneratedAreStored
      <3>2. x.id # a BY <1>2, <2>2 DEF HasRow
      <3>3. QED BY <3>1, <3>2
    <2>3. QED BY <2>1, <2>2
  <1>5. \A t \in Slots : t # s /\ slot[t].at \in Pending => slot[t].asset # a
    BY DEF AssetsKept, Apart
  <1>6. \A t \in Slots : t # s /\ slot[t].at \in Deleting => a \notin slot[t].things
    BY DEF AssetsKept, Apart
  <1>7. \A b : b # a /\ ~HasRow(b) => ~HasRow(b)' BY DEF HasRow
  <1>8. \A t \in Slots : PendingKept(t)'
    <2> SUFFICES ASSUME NEW t \in Slots, slot'[t].at \in Pending PROVE PendingKept(t)'
      BY DEF PendingKept
    <2>1. t # s BY <1>0, <1>1
    <2>2. slot'[t] = slot[t] BY <1>0, <2>1
    <2>3. /\ slot[t].asset <= made.asset /\ slot[t].asset \in objects \cup lost
          /\ ~HasRow(slot[t].asset)
      BY <2>2 DEF AssetsKept, PendingKept
    <2>4. slot[t].asset # a BY <1>5, <2>1, <2>2
    <2>5. ~HasRow(slot[t].asset)' BY <1>7, <2>2, <2>3, <2>4 DEF HasRow
    <2>6. QED BY <2>2, <2>3, <2>4, <2>5 DEF PendingKept
  <1>9. \A t \in Slots : DeletingKept(t)'
    <2> SUFFICES ASSUME NEW t \in Slots, slot'[t].at \in Deleting PROVE DeletingKept(t)'
      BY DEF DeletingKept, Deleting
    <2>1. t # s BY <1>0, <1>1
    <2>2. slot'[t] = slot[t] BY <1>0, <2>1
    <2>3. DeletingKept(t) BY DEF AssetsKept
    <2>4. a \notin slot[t].things BY <1>6, <2>1, <2>2
    <2>5. slot[t].at = "removing" => \A b \in slot[t].things : ~HasRow(b)'
      BY <1>7, <2>3, <2>4 DEF DeletingKept
    <2>6. QED BY <2>2, <2>3, <2>4, <2>5 DEF DeletingKept, HasRow
  <1>10. \A t, u \in Slots : Apart(t, u)' BY <1>0, <1>1, ApartFromIdle
  <1>11. QED BY <1>3, <1>4, <1>8, <1>9, <1>10, Zenon DEF AssetsKept

\* The insert of a row failed.
LEMMA AssetsFail ==
    ASSUME Shaped, AssetsKept, NEW s \in Slots, NEW state \in SlotStates, Moves(s, state),
           slot[s].at \in Pending, UNCHANGED <<assets, lost>>, made'.asset = made.asset,
           objects' \subseteq objects, objects \ {slot[s].asset} \subseteq objects'
    PROVE  AssetsKept'
  <1> DEFINE a == slot[s].asset
  <1>0. slot'[s] = state /\ \A t \in Slots : t # s => slot'[t] = slot[t]
    BY Moved DEF Moves, Turns
  <1>1. state.at \notin Pending \cup Deleting
    BY DEF Moves, ImportObject, GenerateObject, StoreObject, Pending, Deleting
  <1>2. ~HasRow(a) BY DEF AssetsKept, PendingKept
  <1>3. RowsKept' BY DEF AssetsKept, RowsKept
  <1>4. GeneratedAreStored' BY <1>2 DEF AssetsKept, GeneratedAreStored, HasRow
  <1>5. \A t \in Slots : t # s /\ slot[t].at \in Pending => slot[t].asset # a
    BY DEF AssetsKept, Apart
  <1>6. \A t \in Slots : PendingKept(t)'
    BY <1>0, <1>1, <1>5 DEF AssetsKept, PendingKept, HasRow
  <1>7. \A t \in Slots : DeletingKept(t)'
    BY <1>0, <1>1 DEF AssetsKept, DeletingKept, HasRow, Deleting
  <1>8. \A t, u \in Slots : Apart(t, u)' BY <1>0, <1>1, ApartFromIdle
  <1>9. QED BY <1>3, <1>4, <1>6, <1>7, <1>8, Zenon DEF AssetsKept

\* An upload's row is inserted before there is an object.
LEMMA AssetsIntend ==
    ASSUME Shaped, AssetsKept, NEW s \in Slots, NEW state \in SlotStates, Become(s, state),
           state.at \notin Pending \cup Deleting,
           NEW row, row.id = made.asset + 1, row.origin = "uploaded",
           assets' = assets \cup {row}, made'.asset = made.asset + 1,
           UNCHANGED <<objects, lost>>
    PROVE  AssetsKept'
  <1> DEFINE a == made.asset + 1
  <1>0. slot'[s] = state /\ \A t \in Slots : t # s => slot'[t] = slot[t]
    BY Moved
  <1>m. made.asset \in Nat /\ \A x \in assets : x.id \in Nat
    BY DEF Shaped, TypeOK, AssetRows, AssetIds
  <1>n. \A t \in Slots : (slot[t].at \in Pending => slot[t].asset \in Nat)
           /\ (slot[t].at \in Deleting => slot[t].things \subseteq Nat)
    BY DEF Shaped, Fits, AssetIds
  <1>1. \A x \in assets : x.id # a /\ x.id <= a BY <1>m DEF AssetsKept, RowsKept
  <1>2. \A t \in Slots : (slot[t].at \in Pending => slot[t].asset # a /\ slot[t].asset <= a)
             /\ (slot[t].at \in Deleting => \A b \in slot[t].things : b # a /\ b <= a)
    BY <1>m, <1>n DEF AssetsKept, PendingKept, DeletingKept
  <1>3. RowsKept' BY <1>m, <1>1 DEF AssetsKept, RowsKept
  <1>4. GeneratedAreStored' BY DEF AssetsKept, GeneratedAreStored
  <1>5. \A b : b # a /\ ~HasRow(b) => ~HasRow(b)' BY DEF HasRow
  <1>6. \A t \in Slots : PendingKept(t)'
    <2> SUFFICES ASSUME NEW t \in Slots, slot'[t].at \in Pending PROVE PendingKept(t)'
      BY DEF PendingKept
    <2>1. slot'[t] = slot[t] BY <1>0
    <2>2. slot[t].asset # a /\ slot[t].asset <= a BY <1>2, <2>1
    <2>3. slot[t].asset \in objects \cup lost /\ ~HasRow(slot[t].asset)
      BY <2>1 DEF AssetsKept, PendingKept
    <2>4. ~HasRow(slot[t].asset)' BY <1>5, <2>1, <2>2, <2>3 DEF HasRow
    <2>5. QED BY <2>1, <2>2, <2>3, <2>4 DEF PendingKept
  <1>7. \A t \in Slots : DeletingKept(t)'
    <2> SUFFICES ASSUME NEW t \in Slots, slot'[t].at \in Deleting PROVE DeletingKept(t)'
      BY DEF DeletingKept, Deleting
    <2>1. slot'[t] = slot[t] BY <1>0
    <2>2. \A b \in slot[t].things : b # a /\ b <= a BY <1>2, <2>1
    <2>3. DeletingKept(t) BY DEF AssetsKept
    <2>4. slot[t].at = "removing" => \A b \in slot[t].things : ~HasRow(b)'
      BY <1>5, <2>2, <2>3 DEF DeletingKept
    <2>5. QED BY <2>1, <2>2, <2>3, <2>4 DEF DeletingKept, HasRow
  <1>8. \A t, u \in Slots : Apart(t, u)' BY <1>0, ApartFromIdle
  <1>9. QED BY <1>3, <1>4, <1>6, <1>7, <1>8, Zenon DEF AssetsKept

\* The rows to be deleted are deleted.
LEMMA AssetsDelete ==
    ASSUME Shaped, AssetsKept, NEW s \in Slots, NEW state \in SlotStates, Become(s, state),
           slot[s].at \in Deleting, state.at = "removing", state.things = slot[s].things,
           assets' \subseteq assets, \A row \in assets' : row.id \notin slot[s].things,
           UNCHANGED <<objects, lost>>, made'.asset = made.asset
    PROVE  AssetsKept'
  <1>0. slot'[s] = state /\ \A t \in Slots : t # s => slot'[t] = slot[t]
    BY Moved
  <1>1. RowsKept' BY DEF AssetsKept, RowsKept
  <1>2. GeneratedAreStored' BY DEF AssetsKept, GeneratedAreStored
  <1>3. \A t \in Slots : PendingKept(t)' BY <1>0 DEF AssetsKept, PendingKept, HasRow, Pending
  <1>4. DeletingKept(s)' BY <1>0 DEF AssetsKept, DeletingKept, HasRow
  <1>5. \A t \in Slots : t # s => DeletingKept(t)'
    BY <1>0 DEF AssetsKept, DeletingKept, HasRow
  <1>6. \A t \in Slots : DeletingKept(t)' BY <1>4, <1>5
  <1>7. \A t, u \in Slots : Apart(t, u)'
    <2> SUFFICES ASSUME NEW t \in Slots, NEW u \in Slots PROVE Apart(t, u)'
      OBVIOUS
    <2>1. CASE t = s BY <1>0, <2>1 DEF Apart, Pending
    <2>2. CASE t # s BY <1>0, <2>2 DEF AssetsKept, Apart, Pending, Deleting
    <2>3. QED BY <2>1, <2>2
  <1>8. QED BY <1>1, <1>2, <1>3, <1>6, <1>7, Zenon DEF AssetsKept

\* An object is removed once its row is gone, and nobody is to insert it.
LEMMA AssetsRemove ==
    ASSUME Shaped, AssetsKept, NEW s \in Slots, NEW state \in SlotStates, Moves(s, state),
           slot[s].at = "removing", state.at = "removing",
           NEW a \in slot[s].things, objects' \subseteq objects, objects \ {a} \subseteq objects',
           UNCHANGED <<assets, lost>>, made'.asset = made.asset
    PROVE  AssetsKept'
  <1>0. slot'[s] = state /\ \A t \in Slots : t # s => slot'[t] = slot[t]
    BY Moved DEF Moves, Turns
  <1>1. ~HasRow(a) BY DEF AssetsKept, DeletingKept
  <1>2. \A t \in Slots : slot[t].at \in Pending => slot[t].asset # a
    BY DEF AssetsKept, Apart, Deleting
  <1>3. state.things \subseteq slot[s].things BY DEF Moves
  <1>4. RowsKept' BY DEF AssetsKept, RowsKept
  <1>5. GeneratedAreStored' BY <1>1 DEF AssetsKept, GeneratedAreStored, HasRow
  <1>6. \A t \in Slots : PendingKept(t)' BY <1>0, <1>2 DEF AssetsKept, PendingKept, HasRow, Pending
  <1>7. DeletingKept(s)' BY <1>0, <1>3 DEF AssetsKept, DeletingKept, HasRow, Deleting
  <1>8. \A t \in Slots : t # s => DeletingKept(t)'
    BY <1>0 DEF AssetsKept, DeletingKept, HasRow
  <1>9. \A t \in Slots : DeletingKept(t)' BY <1>7, <1>8
  <1>10. \A t, u \in Slots : Apart(t, u)'
    <2> SUFFICES ASSUME NEW t \in Slots, NEW u \in Slots PROVE Apart(t, u)'
      OBVIOUS
    <2>1. CASE t = s BY <1>0, <2>1 DEF Apart, Pending
    <2>2. CASE t # s BY <1>0, <1>3, <2>2 DEF AssetsKept, Apart, Pending, Deleting
    <2>3. QED BY <2>1, <2>2
  <1>11. QED BY <1>4, <1>5, <1>6, <1>9, <1>10, Zenon DEF AssetsKept
LEMMA QuietStep ==
    ASSUME Shaped, AssetsKept, NEW s \in Slots, Step(s),
           UNCHANGED <<assets, objects, lost>>, made'.asset = made.asset,
           slot[s].at \notin {"deleting", "dropping"} \/ slot'[s].at # "removing"
    PROVE  AssetsKept'
  <1>1. PICK state \in SlotStates : Moves(s, state) BY StepMoves
  <1>2. slot'[s] = state BY <1>1, Moved DEF Moves, Turns
  <1>3. state.at \notin Pending
    <2>1. made.asset \in Nat BY DEF Shaped, TypeOK
    <2>2. ~ImportObject(s) /\ ~GenerateObject(s)
      BY <2>1 DEF ImportObject, GenerateObject, StoreObject, Shaped, TypeOK
    <2>3. QED BY <1>1, <2>2 DEF Moves
  <1>4. state.at = "removing" => slot[s].at = "removing"
    BY <1>1, <1>2 DEF Moves, DeleteConversation, DropAsset
  <1>5. QED BY <1>1, <1>3, <1>4, AssetsQuiet

LEMMA AssetsChat ==
    ASSUME Shaped, AssetsKept, NEW s \in Slots, Chat(s)
    PROVE  AssetsKept'
  <1>s. Step(s) BY DEF Step
  <1>p. PICK state \in SlotStates : Moves(s, state) BY <1>s, StepMoves
  <1>b. slot'[s] = state BY <1>p, Moved DEF Moves, Turns
  <1>1. CASE \/ ChatAnswered(s) \/ ImportsDone(s) \/ NoTurn(s) \/ FindTurn(s) \/ ResolveBranch(s)
    <2>1. UNCHANGED <<tables, objects, made, history>>
      BY <1>1 DEF ChatAnswered, ImportsDone, NoTurn, FindTurn, ResolveBranch
    <2>2. slot[s].at \notin {"deleting", "dropping"}
      BY <1>1 DEF ChatAnswered, ImportsDone, NoTurn, FindTurn, ResolveBranch
    <2>3. QED BY <1>s, <2>1, <2>2, QuietStep DEF tables, history
  <1>2. CASE SaveTurn(s)
    <2>1. UNCHANGED <<assets, objects, lost>> /\ made'.asset = made.asset
      BY <1>2 DEF SaveTurn, InsertMessages, Shaped, TypeOK, history
    <2>2. slot[s].at \notin {"deleting", "dropping"} BY <1>2 DEF SaveTurn
    <2>3. QED BY <1>s, <2>1, <2>2, QuietStep
  <1>3. CASE ImportObject(s) \/ GenerateObject(s)
    <2>1. PICK from \in {"importing", "generating"}, to \in Pending : StoreObject(s, from, to)
      BY <1>3 DEF ImportObject, GenerateObject, Pending
    <2>2. PICK a \in AssetIds : a = made.asset + 1
      BY <2>1 DEF StoreObject, Shaped, TypeOK, AssetIds
    <2>3. slot' = [slot EXCEPT ![s] = [slot[s] EXCEPT !.at = to, !.asset = a]]
      BY <2>1, <2>2 DEF StoreObject, Become
    <2>4. slot'[s].at = to BY <2>3, Me DEF Shaped, TypeOK, SlotStates
    <2>5. QED BY <1>b, <1>p, <2>1, <2>4, AssetsStore
  <1>4. CASE ImportRow(s) \/ ImportUnheard(s) \/ GenerateRow(s)
    <2> DEFINE row == [id |-> slot[s].asset, conv |-> slot[s].conv, branch |-> slot[s].into,
                       origin |-> "generated"]
    <2>1. slot[s].at \in Pending BY <1>4 DEF ImportRow, ImportUnheard, GenerateRow, Pending
    <2>2. assets' = assets \cup {row} /\ made' = made
      BY <1>4 DEF ImportRow, ImportUnheard, GenerateRow, InsertAsset
    <2>3. slot[s].asset \in objects \cup lost BY <2>1 DEF AssetsKept, PendingKept
    <2>4. /\ objects' \subseteq objects /\ objects \ {slot[s].asset} \subseteq objects'
          /\ lost \subseteq lost' /\ slot[s].asset \in objects' \cup lost'
      BY <1>4, <2>3 DEF ImportRow, ImportUnheard, GenerateRow, history
    <2>5. row.id = slot[s].asset OBVIOUS
    <2> HIDE DEF row
    <2>6. QED BY <1>p, <2>1, <2>2, <2>4, <2>5, AssetsRow
  <1>5. CASE ImportFails(s)
    <2>1. slot[s].at \in Pending /\ UNCHANGED <<assets, lost, made>>
          /\ objects' \subseteq objects /\ objects \ {slot[s].asset} \subseteq objects'
      BY <1>5 DEF ImportFails, Pending, tables, history
    <2>2. QED BY <1>p, <2>1, AssetsFail
  <1>6. QED BY <1>1, <1>2, <1>3, <1>4, <1>5 DEF Chat

LEMMA AssetsUpload ==
    ASSUME Shaped, AssetsKept, NEW s \in Slots, IntendUpload(s)
    PROVE  AssetsKept'
  <1>1. PICK a \in AssetIds : a = made.asset + 1 BY DEF IntendUpload, Shaped, TypeOK, AssetIds
  <1>2. PICK c \in Known \cup {None}, b \in 1..made.branch \cup {None} :
           /\ InsertAsset(a, c, b, "uploaded")
           /\ Become(s, IF c = None THEN Idle
                        ELSE [Idle EXCEPT !.at = "posting", !.conv = c, !.branch = b, !.asset = a])
    BY <1>1, Zenon DEF IntendUpload
  <1>3. c \in Convs \cup {None} /\ b \in BranchIds \cup {None} /\ a \in 0..MaxAssets
    BY <1>1, <1>2, Numbers DEF Known, BranchIds, AssetIds, Shaped, TypeOK
  <1>4. PICK state :
           state = IF c = None THEN Idle
                   ELSE [Idle EXCEPT !.at = "posting", !.conv = c, !.branch = b, !.asset = a]
    OBVIOUS
  <1>5. state \in SlotStates /\ state.at \in {"idle", "posting"}
    BY <1>3, <1>4, IdleIsShaped DEF Idle, SlotStates, Stages
  <1>6. Become(s, state) /\ state.at \notin Pending \cup Deleting
    BY <1>2, <1>4, <1>5 DEF Pending, Deleting
  <1> DEFINE row == [id |-> a, conv |-> c, branch |-> b, origin |-> "uploaded"]
  <1>7. assets' = assets \cup {row} BY <1>2 DEF InsertAsset
  <1>8. made'.asset = made.asset + 1 /\ UNCHANGED <<objects, lost>>
    BY DEF IntendUpload, Shaped, TypeOK, history
  <1>9. row.id = made.asset + 1 /\ row.origin = "uploaded" BY <1>1
  <1> HIDE DEF row
  <1>10. QED BY <1>5, <1>6, <1>7, <1>8, <1>9, AssetsIntend

LEMMA AssetsDeletion ==
    ASSUME Shaped, AssetsKept, NEW s \in Slots, Delete(s)
    PROVE  AssetsKept'
  <1>s. Step(s) BY DEF Step
  <1>p. PICK state \in SlotStates : Moves(s, state) BY <1>s, StepMoves
  <1>b. slot'[s] = state /\ Become(s, state) BY <1>p, Moved DEF Moves, Turns
  <1>1. CASE DeletionBegins(s) \/ DropBegins(s) \/ DeletionEnds(s)
    <2>1. UNCHANGED <<tables, objects, made, history>>
      BY <1>1 DEF DeletionBegins, DropBegins, DeletionEnds
    <2>2. slot[s].at \notin {"deleting", "dropping"}
      BY <1>1 DEF DeletionBegins, DropBegins, DeletionEnds
    <2>3. QED BY <1>s, <2>1, <2>2, QuietStep DEF tables, history
  <1>2. CASE DeleteConversation(s) \/ DropAsset(s)
    <2>1. slot[s].at \in Deleting /\ slot' = [slot EXCEPT ![s].at = "removing"]
          /\ UNCHANGED <<objects, lost, made>> /\ assets' \subseteq assets
      BY <1>2 DEF DeleteConversation, DropAsset, Goto, Deleting, history
    <2>2. state.at = "removing" /\ state.things = slot[s].things
      BY <1>b, <2>1, Me DEF Shaped, TypeOK, SlotStates
    <2>3. \A row \in assets' : row.id \notin slot[s].things
      BY <1>2 DEF DeleteConversation, DropAsset, AssetsKept, DeletingKept
    <2>4. QED BY <1>b, <2>1, <2>2, <2>3, AssetsDelete
  <1>3. CASE RemoveObject(s)
    <2>1. PICK a \in slot[s].things :
             /\ objects' \in {objects, objects \ {a}}
             /\ slot' = [slot EXCEPT ![s] = [slot[s] EXCEPT !.things = @ \ {a}]]
      BY <1>3, Zenon DEF RemoveObject, Become
    <2>2. slot[s].at = "removing" /\ UNCHANGED <<assets, lost, made>>
      BY <1>3 DEF RemoveObject, tables, history
    <2>3. state.at = "removing" BY <1>b, <2>1, <2>2, Me DEF Shaped, TypeOK, SlotStates
    <2>4. objects' \subseteq objects /\ objects \ {a} \subseteq objects' BY <2>1
    <2>5. QED BY <1>p, <2>2, <2>3, <2>4, AssetsRemove
  <1>4. QED BY <1>1, <1>2, <1>3 DEF Delete

LEMMA AssetsStep ==
    ASSUME Shaped, AssetsKept, NEW s \in Slots, Step(s)
    PROVE  AssetsKept'
  <1>1. CASE Create(s) \/ Branch(s) \/ PostUpload(s) \/ Attach(s)
    <2>1. UNCHANGED <<assets, objects, lost>> /\ made'.asset = made.asset
      BY <1>1 DEF Create, CreateConversation, CreateMain, Branch, ReadSource, CreateBranch,
                  ReadPrefix, CopyMessage, BranchAnswered, PostUpload, Attach, InsertBranch,
                  InsertMessages, Shaped, TypeOK, tables, history
    <2>2. slot[s].at \notin {"deleting", "dropping"}
      BY <1>1 DEF Create, CreateConversation, CreateMain, Branch, ReadSource, CreateBranch,
                  ReadPrefix, CopyMessage, BranchAnswered, PostUpload, Attach
    <2>3. QED BY <2>1, <2>2, QuietStep
  <1>2. CASE Chat(s) BY <1>2, AssetsChat
  <1>3. CASE IntendUpload(s) BY <1>3, AssetsUpload
  <1>4. CASE Delete(s) BY <1>4, AssetsDeletion
  <1>5. CASE Sweep(s)
    <2>1. UNCHANGED <<tables, objects, made, history>>
      BY <1>5 DEF Sweep, SweepBegins, SweepConversation, SweepAsset, SweepEnds
    <2>2. slot[s].at \notin {"deleting", "dropping"}
      BY <1>5 DEF Sweep, SweepBegins, SweepConversation, SweepAsset, SweepEnds
    <2>3. QED BY <2>1, <2>2, QuietStep DEF tables, history
  <1>6. CASE Fails(s)
    <2>1. UNCHANGED <<tables, objects, made, history>> /\ Become(s, Idle)
      BY <1>6 DEF Fails
    <2>2. slot'[s].at # "removing" BY <2>1, Moved DEF Idle
    <2>3. QED BY <2>1, <2>2, QuietStep DEF tables, history
  <1>7. QED BY <1>1, <1>2, <1>3, <1>4, <1>5, <1>6 DEF Step, Intend

LEMMA AssetsPreserved == Shaped /\ AssetsKept /\ [Next]_vars => AssetsKept'
  <1> SUFFICES ASSUME Shaped, AssetsKept, [Next]_vars PROVE AssetsKept'
    OBVIOUS
  <1>1. ASSUME UNCHANGED <<assets, made, slot>>, lost \subseteq lost',
               objects \subseteq objects' \cup lost'
        PROVE  AssetsKept'
    BY <1>1 DEF AssetsKept, RowsKept, PendingKept, DeletingKept, Apart, HasRow, GeneratedAreStored
  <1>2. CASE \E a \in 1..made.asset : PutStored(a) \/ PutTooLarge(a)
    <2>1. UNCHANGED <<assets, made, slot>> /\ lost \subseteq lost'
          /\ objects \subseteq objects' \cup lost'
      BY <1>2 DEF PutStored, PutTooLarge, tables, history
    <2>2. QED BY <1>1, <2>1
  <1>3. CASE UNCHANGED vars BY <1>1, <1>3 DEF vars, tables, history
  <1>4. QED BY <1>2, <1>3, AssetsStep, NextIsStep

LEMMA AssetsInit == Init => AssetsKept
  BY DEF Init, AssetsKept, RowsKept, PendingKept, DeletingKept, Apart, GeneratedAreStored, Idle,
         Pending, Deleting

\* A generated asset that is listed has an object, whatever fails on the way and whichever
\* requests and jobs delete it or its conversation at the same time, unless its object was
\* removed by an import that did not hear of its insert, or by a PUT that was too large.
THEOREM GeneratedStored == Spec => []GeneratedAreStored
  <1>1. AssetsKept => GeneratedAreStored BY DEF AssetsKept
  <1>2. QED BY <1>1, AssetsInit, AssetsPreserved, ShapedInit, ShapedPreserved, PTL DEF Spec
-----------------------------------------------------------------------------
(* Copies are prefixes *)

\* The messages a branch has of those it was to be a copy of.
There(b) == {row.n : row \in {x \in messages : x.branch = b}} \cap copied[b].prefix

PrefixKept(b) ==
    /\ \A n \in There(b) : \A earlier \in copied[b].prefix : earlier < n => earlier \in There(b)
    /\ copied[b].answered => There(b) = copied[b].read

RowBounds ==
    /\ \A x \in branches : x.id <= made.branch
    /\ \A m \in messages : m.n <= made.message /\ (m.branch # None => m.branch <= made.branch)

\* A copy is of the branch's own conversation: what is of another one came later.
BranchKept(b) ==
    /\ b > made.branch => copied[b] = NoCopy
    /\ \A n \in copied[b].prefix : n <= made.message
    /\ \A x \in branches, m \in messages :
          x.id = b /\ m.branch = b /\ m.n \in copied[b].prefix => m.conv = x.conv
    /\ Exists(b) => PrefixKept(b)

\* What was read comes before all that was not, and what was copied before all that remains
\* to be copied.
CopyKept(me) ==
    LET prefix == copied[me.into].prefix
    IN  /\ ~copied[me.into].answered
        /\ me.things \subseteq me.read /\ me.read \subseteq prefix
        /\ \A n \in me.read, m \in prefix \ me.read : n < m
        /\ \A n \in me.read \ me.things, m \in me.things : n < m
        /\ Exists(me.into) => There(me.into) = me.read \ me.things

CopierKept(me) ==
    /\ me.at \in {"branching", "reading"} => \A n \in me.things : n <= made.message
    /\ me.at \in {"reading", "copying"} =>
          /\ me.into <= made.branch
          /\ \A x \in branches : x.id = me.into => x.conv = me.conv
    /\ me.at = "reading" =>
          /\ copied[me.into] = NoCopy
          /\ \A m \in messages : m.branch = me.into => \A n \in me.things : n < m.n
    /\ me.at = "copying" => CopyKept(me)

\* Each branch is filled by at most one request.
OneCopier ==
    \A s, t \in Slots :
        slot[s].at \in {"reading", "copying"} /\ slot[t].at \in {"reading", "copying"} /\ s # t
        => slot[s].into # slot[t].into

CopiesKept ==
    /\ RowBounds
    /\ \A b \in BranchIds : BranchKept(b)
    /\ \A s \in Slots : CopierKept(slot[s])
    /\ OneCopier

LEMMA InThere ==
    ASSUME NEW b, NEW n
    PROVE  n \in There(b) <=> n \in copied[b].prefix /\ \E m \in messages : m.branch = b /\ m.n = n
  BY DEF There

LEMMA CopiesKeptImplies == Shaped /\ CopiesKept => CopiesArePrefixes
  <1> SUFFICES ASSUME Shaped, CopiesKept, NEW row \in branches
               PROVE  PrefixKept(row.id)
    BY SMT DEF CopiesArePrefixes, PrefixKept, There
  <1>1. row.id \in BranchIds BY DEF Shaped, TypeOK, BranchRows
  <1>2. QED BY <1>1 DEF CopiesKept, BranchKept, Exists

\* A step of s that disturbs no branch but its own: the rows it adds come after all
\* there are, and what other branches have of their copies stays.
Undisturbed(s, own) ==
    /\ \A t \in Slots : t # s => slot'[t] = slot[t]
    /\ \A t \in Slots : t # s /\ slot[t].at \in {"reading", "copying"} => slot[t].into # own
    /\ made.branch <= made'.branch /\ made.message <= made'.message
    /\ \A x \in branches' \ branches : made.branch < x.id /\ x.id <= made'.branch
    /\ \A m \in messages' \ messages :
          /\ m.branch = own \/ made.message < m.n
          /\ m.n <= made'.message
          /\ m.branch # None => m.branch <= made'.branch
    /\ \A b \in BranchIds : b # own =>
          /\ copied'[b] = copied[b]
          /\ Exists(b)' /\ b <= made.branch => There(b)' = There(b)

LEMMA RowNumbers ==
    ASSUME Shaped
    PROVE  /\ made.branch \in Nat /\ made.message \in Nat
           /\ \A x \in branches : x.id \in BranchIds /\ x.conv \in Convs
           /\ \A m \in messages : m.n \in Nat /\ m.branch \in BranchIds \cup {None}
           /\ \A b \in BranchIds : copied[b].prefix \in SUBSET MessageIds
           /\ BranchIds \subseteq Nat /\ MessageIds \subseteq Nat
  <1>1. made.branch \in Nat /\ made.message \in Nat BY DEF Shaped, TypeOK
  <1>2. \A x \in branches : x.id \in BranchIds /\ x.conv \in Convs
    BY DEF Shaped, TypeOK, BranchRows
  <1>3. \A m \in messages : m.n \in Nat /\ m.branch \in BranchIds \cup {None}
    BY IdsFinite DEF Shaped, TypeOK, MessageRows
  <1>4. \A b \in BranchIds : copied[b].prefix \in SUBSET MessageIds BY DEF Shaped, TypeOK, Copies
  <1>5. QED BY <1>1, <1>2, <1>3, <1>4, IdsFinite

LEMMA RowsUndisturbed ==
    ASSUME Shaped, Shaped', CopiesKept, NEW s \in Slots, NEW own, Undisturbed(s, own)
    PROVE  RowBounds'
  <1>1. made.branch \in Nat /\ made.message \in Nat /\ made'.branch \in Nat /\ made'.message \in Nat
    BY DEF Shaped, TypeOK
  <1>2. \A x \in branches' : x.id \in Nat BY RowNumbers DEF Shaped, TypeOK, BranchRows, BranchIds
  <1>3. \A m \in messages' : m.n \in Nat /\ (m.branch # None => m.branch \in Nat)
    BY DEF Shaped, TypeOK, MessageRows, BranchIds, MessageIds
  <1>4. \A x \in branches' : x.id <= made'.branch
    BY <1>1, <1>2 DEF CopiesKept, RowBounds, Undisturbed
  <1>5. \A m \in messages' : m.n <= made'.message /\ (m.branch # None => m.branch <= made'.branch)
    BY <1>1, <1>3 DEF CopiesKept, RowBounds, Undisturbed
  <1>6. QED BY <1>4, <1>5 DEF RowBounds

LEMMA BranchUndisturbed ==
    ASSUME Shaped, Shaped', CopiesKept, NEW s \in Slots, NEW own, Undisturbed(s, own),
           NEW b \in BranchIds, b # own
    PROVE  BranchKept(b)'
  <1>0. BranchKept(b) /\ copied'[b] = copied[b] /\ b \in Nat
        /\ made.branch \in Nat /\ made.message \in Nat
        /\ made'.branch \in Nat /\ made'.message \in Nat
        /\ made.branch <= made'.branch /\ made.message <= made'.message
    BY IdsFinite DEF CopiesKept, Undisturbed, Shaped, TypeOK
  <1>p. \A n \in copied[b].prefix : n \in Nat BY RowNumbers
  <1>1. b > made'.branch => copied'[b] = NoCopy BY <1>0 DEF BranchKept
  <1>2. \A n \in copied'[b].prefix : n <= made'.message BY <1>0, <1>p DEF BranchKept
  <1>3. b > made.branch => copied[b].prefix = {} /\ ~copied[b].answered
    BY <1>0 DEF BranchKept, NoCopy
  <1>4. ASSUME NEW x \in branches', NEW m \in messages', x.id = b, m.branch = b,
               m.n \in copied'[b].prefix
        PROVE  m.conv = x.conv
    <2>1. m \in messages
      <3>1. m.n <= made.message BY <1>0, <1>4 DEF BranchKept
      <3>2. m.n \in Nat BY <1>0, <1>4, <1>p
      <3>3. QED BY <1>0, <1>4, <3>1, <3>2 DEF Undisturbed
    <2>2. x \in branches
      <3>1. ~(b > made.branch) BY <1>0, <1>3, <1>4
      <3>2. QED BY <1>0, <1>4, <3>1 DEF Undisturbed
    <2>3. QED BY <1>0, <1>4, <2>1, <2>2 DEF BranchKept
  <1>5. ASSUME Exists(b)' PROVE PrefixKept(b)'
    <2>1. CASE b > made.branch
      <3>1. copied'[b].prefix = {} /\ ~copied'[b].answered BY <1>0, <1>3, <2>1
      <3>2. QED BY <3>1 DEF PrefixKept
    <2>2. CASE b <= made.branch
      <3>1. There(b)' = There(b) BY <1>5, <2>2 DEF Undisturbed
      <3>2. Exists(b)
        <4>1. PICK x \in branches' : x.id = b BY <1>5 DEF Exists
        <4>2. x \in branches BY <1>0, <2>2, <4>1 DEF Undisturbed
        <4>3. QED BY <4>1, <4>2 DEF Exists
      <3>3. PrefixKept(b) BY <1>0, <3>2 DEF BranchKept
      <3>4. QED BY <1>0, <3>1, <3>3 DEF PrefixKept
    <2>3. QED BY <1>0, <2>1, <2>2
  <1>6. \A x \in branches', m \in messages' :
           x.id = b /\ m.branch = b /\ m.n \in copied'[b].prefix => m.conv = x.conv
    BY <1>4
  <1>7. QED BY <1>1, <1>2, <1>5, <1>6 DEF BranchKept

LEMMA CopierUndisturbed ==
    ASSUME Shaped, Shaped', CopiesKept, NEW s \in Slots, NEW own, Undisturbed(s, own),
           NEW t \in Slots, t # s
    PROVE  CopierKept(slot[t])'
  <1> DEFINE me == slot[t]
  <1>0. slot'[t] = me /\ CopierKept(me) /\ Fits(me)
        /\ made.branch \in Nat /\ made.message \in Nat
        /\ made'.branch \in Nat /\ made'.message \in Nat
        /\ made.branch <= made'.branch /\ made.message <= made'.message
    BY DEF CopiesKept, Undisturbed, Shaped, TypeOK
  <1>1. me.at \in Copying => \A n \in me.things : n \in Nat
    BY <1>0, IdsFinite DEF Fits
  <1>2. me.at \in {"branching", "reading"} => \A n \in me.things : n <= made'.message
    BY <1>0, <1>1 DEF CopierKept, Copying
  <1>3. ASSUME me.at \in {"reading", "copying"}
        PROVE  /\ me.into \in BranchIds /\ me.into # own /\ me.into <= made.branch
               /\ me.into <= made'.branch
               /\ copied'[me.into] = copied[me.into]
               /\ \A x \in branches' : x.id = me.into => x \in branches
    <2>1. me.into \in BranchIds /\ me.into \in Nat BY <1>0, <1>3, IdsFinite DEF Fits
    <2>2. me.into <= made.branch /\ me.into # own BY <1>0, <1>3 DEF CopierKept, Undisturbed
    <2>3. \A x \in branches' : x.id = me.into => x \in branches
      BY <1>0, <2>1, <2>2 DEF Undisturbed
    <2>4. QED BY <1>0, <2>1, <2>2, <2>3 DEF Undisturbed
  <1>4. me.at \in {"reading", "copying"} =>
           /\ me.into <= made'.branch
           /\ \A x \in branches' : x.id = me.into => x.conv = me.conv
    BY <1>0, <1>3 DEF CopierKept
  <1>5. me.at = "reading" =>
           /\ copied'[me.into] = NoCopy
           /\ \A m \in messages' : m.branch = me.into => \A n \in me.things : n < m.n
    <2> SUFFICES ASSUME me.at = "reading"
                 PROVE  /\ copied'[me.into] = NoCopy
                        /\ \A m \in messages' : m.branch = me.into => \A n \in me.things : n < m.n
      OBVIOUS
    <2>1. copied'[me.into] = NoCopy BY <1>0, <1>3 DEF CopierKept
    <2>2. ASSUME NEW m \in messages', m.branch = me.into, NEW n \in me.things PROVE n < m.n
      <3>1. CASE m \in messages BY <1>0, <2>2, <3>1 DEF CopierKept
      <3>2. CASE m \notin messages
        <4>1. made.message < m.n BY <1>3, <2>2, <3>2 DEF Undisturbed
        <4>2. n <= made.message /\ n \in Nat BY <1>0, <1>1 DEF CopierKept, Copying
        <4>3. m.n \in Nat BY DEF Shaped, TypeOK, MessageRows, MessageIds
        <4>4. QED BY <1>0, <4>1, <4>2, <4>3
      <3>3. QED BY <3>1, <3>2
    <2>3. QED BY <2>1, <2>2
  <1>6. ASSUME me.at = "copying" PROVE CopyKept(slot[t])'
    <2>1. CopyKept(me) BY <1>0, <1>6 DEF CopierKept
    <2>2. copied'[me.into] = copied[me.into] BY <1>3, <1>6
    <2>3. Exists(me.into)' => There(me.into)' = me.read \ me.things
      <3> SUFFICES ASSUME Exists(me.into)'
                   PROVE  There(me.into)' = me.read \ me.things
        OBVIOUS
      <3>1. PICK x \in branches' : x.id = slot'[t].into BY DEF Exists
      <3>2. Exists(me.into) BY <1>0, <1>3, <1>6, <3>1 DEF Exists
      <3>3. There(me.into) = me.read \ me.things BY <2>1, <3>2 DEF CopyKept
      <3>4. PICK b \in BranchIds : b = me.into BY <1>3, <1>6
      <3>5. Exists(b)' BY <1>0, <3>1, <3>4 DEF Exists
      <3>6. There(b)' = There(b) BY <1>3, <1>6, <3>4, <3>5 DEF Undisturbed
      <3>7. There(me.into)' = There(b)' BY <1>0, <3>4 DEF There
      <3>8. QED BY <3>3, <3>4, <3>6, <3>7
    <2>4. QED BY <1>0, <2>1, <2>2, <2>3 DEF CopyKept
  <1>7. QED BY <1>0, <1>2, <1>4, <1>5, <1>6 DEF CopierKept
\* Nothing of copies changes but what s itself does, and s copies nothing.
LEMMA CopiesElsewhere ==
    ASSUME Shaped, Shaped', CopiesKept, NEW s \in Slots, Undisturbed(s, None),
           slot'[s].at \notin Copying
    PROVE  CopiesKept'
  <1>1. \A b \in BranchIds : b # None BY Numbers, IdsFinite
  <1>2. \A b \in BranchIds : BranchKept(b)' BY <1>1, BranchUndisturbed
  <1>3. \A t \in Slots : CopierKept(slot[t])'
    <2>1. CopierKept(slot[s])' BY DEF CopierKept, Copying
    <2>2. QED BY <2>1, CopierUndisturbed
  <1>4. OneCopier' BY DEF OneCopier, Undisturbed, CopiesKept, Copying
  <1>5. RowBounds' BY RowsUndisturbed
  <1>6. QED BY <1>2, <1>3, <1>4, <1>5, Zenon DEF CopiesKept

\* A request that fills a branch of its own.
LEMMA CopiesOwn ==
    ASSUME Shaped, Shaped', CopiesKept, NEW s \in Slots, NEW own \in BranchIds,
           Undisturbed(s, own), BranchKept(own)', CopierKept(slot[s])',
           slot'[s].at \in Copying => slot'[s].into = own
    PROVE  CopiesKept'
  <1>2. \A b \in BranchIds : BranchKept(b)'
    <2> SUFFICES ASSUME NEW b \in BranchIds PROVE BranchKept(b)'
      OBVIOUS
    <2>1. CASE b = own BY <2>1
    <2>2. CASE b # own BY <2>2, BranchUndisturbed
    <2>3. QED BY <2>1, <2>2
  <1>3. \A t \in Slots : CopierKept(slot[t])' BY CopierUndisturbed
  <1>4. OneCopier' BY DEF OneCopier, Undisturbed, CopiesKept, Copying
  <1>5. RowBounds' BY RowsUndisturbed
  <1>6. QED BY <1>2, <1>3, <1>4, <1>5, Zenon DEF CopiesKept

LEMMA Others ==
    ASSUME Shaped, NEW s \in Slots, Step(s)
    PROVE  /\ \A t \in Slots : t # s => slot'[t] = slot[t]
           /\ slot'[s].at \in Copying => Branch(s)
  <1>1. PICK state \in SlotStates : Moves(s, state) BY StepMoves
  <1>2. slot'[s] = state /\ \A t \in Slots : t # s => slot'[t] = slot[t]
    BY <1>1, Moved DEF Moves, Turns
  <1>3. QED BY <1>1, <1>2 DEF Moves

\* No copying slot has this as its branch.
LEMMA NobodyFills ==
    ASSUME Shaped, NEW t \in Slots, slot[t].at \in {"reading", "copying"}
    PROVE  slot[t].into \in BranchIds /\ slot[t].into # None
  BY Numbers, IdsFinite DEF Shaped, Fits

\* Statements on other things.
LEMMA CopiesQuiet ==
    ASSUME Shaped, Shaped', CopiesKept, NEW s \in Slots, Step(s), ~Branch(s),
           UNCHANGED <<branches, messages, copied>>,
           made'.branch = made.branch, made'.message = made.message
    PROVE  CopiesKept'
  <1>0. made.branch \in Nat /\ made.message \in Nat BY DEF Shaped, TypeOK
  <1>1. \A b \in BranchIds : There(b)' = There(b) BY DEF There
  <1>2. Undisturbed(s, None) BY <1>0, <1>1, Others, NobodyFills DEF Undisturbed
  <1>3. slot'[s].at \notin Copying BY Others
  <1>4. QED BY <1>2, <1>3, CopiesElsewhere

\* A turn or an upload's message: numbered after all that is copied.
LEMMA CopiesMessages ==
    ASSUME Shaped, Shaped', CopiesKept, NEW s \in Slots, Step(s), ~Branch(s),
           UNCHANGED <<branches, copied>>,
           NEW c \in Convs, NEW b \in BranchIds \cup {None}, References(c, b), NewMessages(c, b)
    PROVE  CopiesKept'
  <1>0. made.branch \in Nat /\ made.message \in Nat BY DEF Shaped, TypeOK
  <1>1. PICK last \in 0..MaxMessages :
           /\ made' = [made EXCEPT !.message = last]
           /\ made.message <= last
           /\ messages \subseteq messages'
           /\ \A row \in messages' \ messages :
                 row.conv = c /\ row.branch = b /\ made.message < row.n /\ row.n <= last
    BY DEF NewMessages
  <1>2. made'.branch = made.branch /\ made'.message = last BY <1>1 DEF Shaped, TypeOK
  <1>3. b # None => b <= made.branch BY DEF References, Exists, CopiesKept, RowBounds
  <1>4. \A x \in BranchIds : There(x)' = There(x)
    <2> SUFFICES ASSUME NEW x \in BranchIds PROVE There(x)' = There(x)
      OBVIOUS
    <2>1. \A n \in copied[x].prefix : n <= made.message /\ n \in Nat
      BY RowNumbers DEF CopiesKept, BranchKept
    <2>2. \A m \in messages' \ messages : m.n \notin copied[x].prefix
      <3>1. \A m \in messages' : m.n \in Nat BY DEF Shaped, TypeOK, MessageRows, MessageIds
      <3>2. QED BY <1>0, <1>1, <2>1, <3>1
    <2>3. QED BY <1>1, <2>2 DEF There
  <1>5. Undisturbed(s, None) BY <1>0, <1>1, <1>2, <1>3, <1>4, Others, NobodyFills DEF Undisturbed
  <1>6. slot'[s].at \notin Copying BY Others
  <1>7. QED BY <1>5, <1>6, CopiesElsewhere

\* A branch with a new number.
LEMMA BranchUndisturbing ==
    ASSUME Shaped, CopiesKept, NEW s \in Slots, Step(s),
           UNCHANGED <<messages, copied>>, NEW c, NEW parent, InsertBranch(c, parent)
    PROVE  /\ Undisturbed(s, None)
           /\ made'.branch = made.branch + 1 /\ made'.message = made.message
           /\ branches' = branches \cup {[id |-> made.branch + 1, conv |-> c, parent |-> parent]}
  <1>0. made.branch \in Nat /\ made.message \in Nat BY DEF Shaped, TypeOK
  <1>1. made'.branch = made.branch + 1 /\ made'.message = made.message
    BY DEF InsertBranch, Shaped, TypeOK
  <1>2. branches' = branches \cup {[id |-> made.branch + 1, conv |-> c, parent |-> parent]}
    BY DEF InsertBranch
  <1>3. \A x \in branches' \ branches : x.id = made.branch + 1 BY <1>2
  <1>4. \A b \in BranchIds : There(b)' = There(b) BY DEF There
  <1>5. Undisturbed(s, None) BY <1>0, <1>1, <1>3, <1>4, Others, NobodyFills DEF Undisturbed
  <1>6. QED BY <1>1, <1>2, <1>5

\* What a conversation's deletion leaves of a branch of another one.
LEMMA CopiesDelete ==
    ASSUME Shaped, Shaped', CopiesKept, NEW s \in Slots, DeleteConversation(s)
    PROVE  CopiesKept'
  <1> DEFINE c == slot[s].conv
  <1>s. Step(s) BY DEF Step, Delete
  <1>0. made.branch \in Nat /\ made.message \in Nat BY DEF Shaped, TypeOK
  <1>1. branches' = {row \in branches : row.conv # c}
        /\ messages' = {row \in messages : row.conv # c}
        /\ UNCHANGED <<made, copied>>
    BY DEF DeleteConversation, history
  <1>2. ASSUME NEW b \in BranchIds, Exists(b)' PROVE There(b)' = There(b)
    <2>1. PICK x \in branches : x.id = b /\ x.conv # c BY <1>1, <1>2 DEF Exists
    <2>2. \A m \in messages : m.branch = b /\ m.n \in copied[b].prefix => m.conv = x.conv
      BY <2>1 DEF CopiesKept, BranchKept
    <2>3. QED BY <1>1, <2>1, <2>2 DEF There
  <1>3. Undisturbed(s, None) BY <1>0, <1>1, <1>2, <1>s, Others, NobodyFills DEF Undisturbed
  <1>4. slot'[s].at \notin Copying
    <2>1. slot[s].at = "deleting" BY DEF DeleteConversation
    <2>2. ~Branch(s)
      BY <2>1 DEF Branch, ReadSource, CreateBranch, ReadPrefix, CopyMessage, BranchAnswered
    <2>3. QED BY <1>s, <2>2, Others
  <1>5. QED BY <1>3, <1>4, CopiesElsewhere
LEMMA CopiesReadSource ==
    ASSUME Shaped, Shaped', CopiesKept, NEW s \in Slots, ReadSource(s)
    PROVE  CopiesKept'
  <1>s. Step(s) BY DEF Step, Branch
  <1>0. made.branch \in Nat /\ made.message \in Nat BY DEF Shaped, TypeOK
  <1>1. UNCHANGED <<branches, messages, copied, made>> BY DEF ReadSource, tables, history
  <1>2. \A b \in BranchIds : There(b)' = There(b) BY <1>1 DEF There
  <1>3. Undisturbed(s, None) BY <1>0, <1>1, <1>2, <1>s, Others, NobodyFills DEF Undisturbed
  <1>4. PICK source \in messages :
           slot' = [slot EXCEPT ![s] = [Idle EXCEPT !.at = "branching", !.conv = source.conv,
                                          !.branch = source.branch, !.things = {source.n}]]
    BY Zenon DEF ReadSource, Become
  <1>5. slot'[s].at = "branching" /\ slot'[s].things = {source.n}
    BY <1>4 DEF Shaped, TypeOK, Idle
  <1>6. CopierKept(slot[s])'
    BY <1>1, <1>5 DEF CopierKept, CopiesKept, RowBounds
  <1>7. \A b \in BranchIds : BranchKept(b)'
    <2>1. \A b \in BranchIds : b # None BY Numbers, IdsFinite
    <2>2. QED BY <1>3, <2>1, BranchUndisturbed
  <1>8. \A t \in Slots : CopierKept(slot[t])' BY <1>3, <1>6, CopierUndisturbed
  <1>9. OneCopier' BY <1>3, <1>5 DEF OneCopier, Undisturbed, CopiesKept
  <1>10. RowBounds' BY <1>3, RowsUndisturbed
  <1>11. QED BY <1>7, <1>8, <1>9, <1>10, Zenon DEF CopiesKept

LEMMA CopiesCreateBranch ==
    ASSUME Shaped, Shaped', CopiesKept, NEW s \in Slots, CreateBranch(s)
    PROVE  CopiesKept'
  <1> DEFINE me == slot[s]
  <1>s. Step(s) BY DEF Step, Branch
  <1>0. made.branch \in Nat /\ made.message \in Nat /\ me \in SlotStates /\ Fits(me)
    BY Me DEF Shaped, TypeOK
  <1>1. me.at = "branching" /\ InsertBranch(me.conv, me.branch)
        /\ UNCHANGED <<messages, copied>>
    BY DEF CreateBranch, history
  <1>2. PICK b \in BranchIds : b = made.branch + 1
    BY <1>1 DEF InsertBranch, Shaped, TypeOK, BranchIds
  <1>3. PICK parent : parent = me.branch OBVIOUS
  <1>4. Undisturbed(s, None) /\ made'.branch = b /\ made'.message = made.message
        /\ branches' = branches \cup {[id |-> b, conv |-> me.conv, parent |-> parent]}
    BY <1>1, <1>2, <1>3, <1>s, BranchUndisturbing
  <1>5. slot' = [slot EXCEPT ![s] = [me EXCEPT !.at = "reading", !.into = b]]
    BY <1>2 DEF CreateBranch, Become
  <1>6. slot'[s].at = "reading" /\ slot'[s].into = b /\ slot'[s].things = me.things
        /\ slot'[s].conv = me.conv
    BY <1>0, <1>5 DEF Shaped, TypeOK, SlotStates
  <1>7. \A n \in me.things : n <= made.message BY <1>1 DEF CopiesKept, CopierKept
  <1>8. copied'[b] = NoCopy
    BY <1>0, <1>1, <1>2 DEF CopiesKept, BranchKept
  <1>9. \A x \in branches' : x.id = b => x.conv = me.conv
    <2>1. \A x \in branches : x.id # b
      BY <1>0, <1>2, RowNumbers DEF CopiesKept, RowBounds
    <2>2. QED BY <1>4, <2>1
  <1>10. \A m \in messages' : m.branch # b
    <2>1. b # None BY <1>2, Numbers, IdsFinite
    <2>2. \A m \in messages : m.branch # b
      BY <1>0, <1>2, <2>1 DEF CopiesKept, RowBounds
    <2>3. QED BY <1>1, <2>2
  <1>11. CopierKept(slot[s])'
    BY <1>0, <1>2, <1>4, <1>6, <1>7, <1>8, <1>9, <1>10 DEF CopierKept
  <1>12. \A x \in BranchIds : BranchKept(x)'
    <2>1. \A x \in BranchIds : x # None BY Numbers, IdsFinite
    <2>2. QED BY <1>4, <2>1, BranchUndisturbed
  <1>13. \A t \in Slots : CopierKept(slot[t])' BY <1>4, <1>11, CopierUndisturbed
  <1>14. OneCopier'
    <2>1. \A t \in Slots : t # s /\ slot[t].at \in {"reading", "copying"} => slot[t].into # b
      <3>1. \A t \in Slots : slot[t].at \in {"reading", "copying"} =>
               slot[t].into \in Nat /\ slot[t].into <= made.branch
        BY NobodyFills, IdsFinite DEF CopiesKept, CopierKept
      <3>2. QED BY <1>0, <1>2, <3>1
    <2>2. QED BY <1>4, <1>6, <2>1 DEF OneCopier, Undisturbed, CopiesKept
  <1>15. RowBounds' BY <1>4, RowsUndisturbed
  <1>16. QED BY <1>12, <1>13, <1>14, <1>15, Zenon DEF CopiesKept

\* Where s fills a branch of its own and no row has a new number.
LEMMA OwnUndisturbing ==
    ASSUME Shaped, CopiesKept, NEW s \in Slots, Step(s),
           slot[s].at \in {"reading", "copying"},
           UNCHANGED <<branches, made>>,
           \A m \in messages' \ messages : m.branch = slot[s].into /\ m.n <= made.message,
           messages \subseteq messages',
           \A b \in BranchIds : b # slot[s].into => copied'[b] = copied[b]
    PROVE  Undisturbed(s, slot[s].into)
  <1> DEFINE own == slot[s].into
  <1>0. made.branch \in Nat /\ made.message \in Nat BY DEF Shaped, TypeOK
  <1>1. own <= made.branch BY DEF CopiesKept, CopierKept
  <1>2. \A t \in Slots : t # s /\ slot[t].at \in {"reading", "copying"} => slot[t].into # own
    BY DEF CopiesKept, OneCopier
  <1>3. \A b \in BranchIds : b # own => There(b)' = There(b) BY DEF There
  <1>4. \A t \in Slots : t # s => slot'[t] = slot[t] BY Others
  <1>5. QED BY <1>0, <1>1, <1>2, <1>3, <1>4 DEF Undisturbed

LEMMA CopiesReadPrefix ==
    ASSUME Shaped, Shaped', CopiesKept, NEW s \in Slots, ReadPrefix(s)
    PROVE  CopiesKept'
  <1> DEFINE me == slot[s]
             last == Max(me.things)
  <1>s. Step(s) BY DEF Step, Branch
  <1>0. me \in SlotStates /\ Fits(me) /\ me.at = "reading" BY Me DEF ReadPrefix
  <1>1. PICK own \in BranchIds : own = me.into BY <1>0 DEF Fits
  <1>2. PICK prefix : prefix = Prefix(me.conv, me.branch, last) OBVIOUS
  <1>k. PICK end \in 0..last :
           Become(s, [me EXCEPT !.at = "copying", !.things = Prefix(me.conv, me.branch, end),
                                !.read = Prefix(me.conv, me.branch, end)])
    BY DEF ReadPrefix
  <1>p. PICK part : part = Prefix(me.conv, me.branch, end) OBVIOUS
  <1>r. /\ part = Prefix(me.conv, me.branch, end)
        /\ Become(s, [me EXCEPT !.at = "copying", !.things = part, !.read = part])
    BY <1>k, <1>p
  <1>3. copied' = [copied EXCEPT ![own].prefix = prefix]
        /\ UNCHANGED <<branches, messages, made>>
    BY <1>1, <1>2 DEF ReadPrefix, tables
  <1>4. slot' = [slot EXCEPT ![s] = [me EXCEPT !.at = "copying", !.things = part, !.read = part]]
    BY <1>r DEF Become
  <1>5. slot'[s].at = "copying" /\ slot'[s].into = own /\ slot'[s].things = part
        /\ slot'[s].conv = me.conv /\ slot'[s].read = part
    BY <1>0, <1>1, <1>4 DEF Shaped, TypeOK, SlotStates
  <1>6. CopierKept(me) /\ BranchKept(own) BY DEF CopiesKept
  <1>7. copied'[own].prefix = prefix /\ ~copied'[own].answered
    BY <1>0, <1>1, <1>3, <1>6 DEF CopierKept, NoCopy, Shaped, TypeOK
  <1>8. \A n \in prefix : n <= last /\ n <= made.message
    BY <1>2 DEF Prefix, CopiesKept, RowBounds
  <1>9. last \in me.things
    <2>1. me.things \in SUBSET Nat /\ IsFiniteSet(me.things) /\ me.things # {}
      BY <1>0, IdsFinite DEF Fits, Copying
    <2>2. QED BY <2>1, MaxIn
  <1>10. \A m \in messages' : m.branch = own => m.n \notin prefix
    <2>1. \A m \in messages : m.branch = own => last < m.n
      BY <1>0, <1>1, <1>6, <1>9 DEF CopierKept
    <2>2. last \in Nat BY <1>0, <1>9, IdsFinite DEF Fits, Copying
    <2>3. QED BY <1>3, <1>8, <2>1, <2>2, RowNumbers
  <1>11. There(own)' = {} BY <1>7, <1>10 DEF There
  <1>12. Undisturbed(s, own)
    <2>1. \A b \in BranchIds : b # own => copied'[b] = copied[b] BY <1>3 DEF Shaped, TypeOK
    <2>2. QED BY <1>0, <1>1, <1>3, <1>s, <2>1, OwnUndisturbing
  <1>13. own <= made'.branch /\ \A x \in branches' : x.id = own => x.conv = me.conv
    BY <1>0, <1>1, <1>3, <1>6 DEF CopierKept
  <1>14. BranchKept(own)'
    <2>1. ~(own > made'.branch)
      <3>1. own \in Nat /\ made'.branch \in Nat BY <1>3, RowNumbers
      <3>2. QED BY <1>13, <3>1
    <2>2. PrefixKept(own)' BY <1>7, <1>11 DEF PrefixKept
    <2>3. QED BY <1>3, <1>7, <1>8, <1>10, <2>1, <2>2 DEF BranchKept
  <1>15. There(slot[s].into)' = {} BY <1>5, <1>11 DEF There
  <1>e. part \subseteq prefix /\ \A n \in part, m \in prefix \ part : n < m
    <2>1. last \in Nat /\ end \in Nat /\ end <= last
      BY <1>0, <1>9, <1>r, IdsFinite DEF Fits, Copying
    <2>2. part \subseteq Nat /\ prefix \subseteq Nat BY <1>2, <1>r, RowNumbers DEF Prefix
    <2>3. \A n \in part : n <= end BY <1>r DEF Prefix
    <2>4. \A n \in prefix : n <= end => n \in part BY <1>2, <1>r DEF Prefix
    <2>5. part \subseteq prefix BY <1>2, <1>r, <2>1, RowNumbers DEF Prefix
    <2>6. QED BY <2>1, <2>2, <2>3, <2>4, <2>5
  <1>16. CopyKept(slot[s])' BY <1>5, <1>7, <1>15, <1>e DEF CopyKept
  <1>17. CopierKept(slot[s])' BY <1>5, <1>13, <1>16 DEF CopierKept
  <1>18. QED BY <1>5, <1>12, <1>14, <1>17, CopiesOwn

LEMMA CopiesCopyMessage ==
    ASSUME Shaped, Shaped', CopiesKept, NEW s \in Slots, CopyMessage(s)
    PROVE  CopiesKept'
  <1> DEFINE me == slot[s]
  <1>s. Step(s) BY DEF Step, Branch
  <1>0. me \in SlotStates /\ Fits(me) /\ me.at = "copying" BY Me DEF CopyMessage
  <1>1. PICK own \in BranchIds : own = me.into BY <1>0 DEF Fits, Copying
  <1>2. PICK first \in me.things : first = OldestFirst(me.things) /\ \A n \in me.things : first <= n
    <2>1. me.things \in SUBSET Nat /\ IsFiniteSet(me.things) /\ me.things # {}
      BY <1>0, IdsFinite DEF Fits, Copying, CopyMessage
    <2>2. QED BY <2>1, MinIn DEF OldestFirst
  <1> DEFINE rest == me.things \ {first}
             prefix == copied[own].prefix
             read == me.read
  <1>3. messages' = messages \cup {[conv |-> me.conv, branch |-> own, n |-> first]}
        /\ UNCHANGED <<branches, made, copied>> /\ Exists(own)
    BY <1>1, <1>2, Numbers, IdsFinite DEF CopyMessage, References, history
  <1>4. slot' = [slot EXCEPT ![s] = [me EXCEPT !.things = rest]]
    BY <1>2 DEF CopyMessage, Become
  <1>5. slot'[s].at = "copying" /\ slot'[s].into = own /\ slot'[s].things = rest
        /\ slot'[s].conv = me.conv /\ slot'[s].read = read
    BY <1>0, <1>1, <1>4 DEF Shaped, TypeOK, SlotStates
  <1>6. CopierKept(me) /\ BranchKept(own) BY DEF CopiesKept
  <1>7. /\ ~copied[own].answered /\ me.things \subseteq read /\ read \subseteq prefix
        /\ There(own) = read \ me.things
        /\ \A n \in read, m \in prefix \ read : n < m
        /\ \A n \in read \ me.things, m \in me.things : n < m
    BY <1>0, <1>1, <1>3, <1>6 DEF CopierKept, CopyKept
  <1>8. prefix \subseteq Nat /\ \A n \in prefix : n <= made.message
    BY <1>6, RowNumbers DEF BranchKept
  <1>9. There(own)' = read \ rest
    <2>1. PICK copy : copy = [conv |-> me.conv, branch |-> own, n |-> first] OBVIOUS
    <2>2. copy.branch = own /\ copy.n = first /\ messages' = messages \cup {copy} BY <1>3, <2>1
    <2>3. first \in prefix /\ copied' = copied BY <1>3, <1>7
    <2>4. There(own)' = There(own) \cup {first} BY <2>2, <2>3 DEF There
    <2>5. QED BY <1>7, <2>4
  <1>10. \A n \in read \ rest, m \in rest : n < m BY <1>2, <1>7, <1>8
  <1>11. own <= made'.branch /\ \A x \in branches' : x.id = own => x.conv = me.conv
    BY <1>0, <1>1, <1>3, <1>6 DEF CopierKept
  <1>12. BranchKept(own)'
    <2>1. ~(own > made'.branch)
      <3>1. own \in Nat /\ made'.branch \in Nat BY <1>3, RowNumbers
      <3>2. QED BY <1>11, <3>1
    <2>2. \A x \in branches', m \in messages' :
             x.id = own /\ m.branch = own /\ m.n \in prefix => m.conv = x.conv
      <3>1. \A x \in branches, m \in messages :
               x.id = own /\ m.branch = own /\ m.n \in prefix => m.conv = x.conv
        BY <1>6 DEF BranchKept
      <3>2. QED BY <1>3, <1>11, <3>1
    <2>3. \A n \in There(own)', earlier \in prefix : earlier < n => earlier \in There(own)'
      <3>1. \A n \in read \ rest, earlier \in prefix \ (read \ rest) : n < earlier
        BY <1>7, <1>10
      <3>2. \A n \in read \ rest, earlier \in prefix \ (read \ rest) : ~(earlier < n)
        BY <1>7, <1>8, <3>1
      <3>3. QED BY <1>9, <3>2
    <2>4. PrefixKept(own)' BY <1>3, <1>7, <2>3 DEF PrefixKept
    <2>5. QED BY <1>3, <1>8, <2>1, <2>2, <2>4 DEF BranchKept
  <1>13. There(slot[s].into)' = read \ rest BY <1>5, <1>9 DEF There
  <1>14. rest \subseteq read BY <1>7
  <1> HIDE DEF rest
  <1>15. CopyKept(slot[s])' BY <1>3, <1>5, <1>7, <1>10, <1>13, <1>14 DEF CopyKept
  <1>16. CopierKept(slot[s])' BY <1>5, <1>11, <1>15 DEF CopierKept
  <1>17. Undisturbed(s, own)
    <2>1. \A m \in messages' \ messages : m.branch = own /\ m.n <= made.message
      BY <1>3, <1>7, <1>8
    <2>2. QED BY <1>0, <1>1, <1>3, <1>s, <2>1, OwnUndisturbing
  <1>18. QED BY <1>5, <1>12, <1>16, <1>17, CopiesOwn

LEMMA CopiesAnswered ==
    ASSUME Shaped, Shaped', CopiesKept, NEW s \in Slots, BranchAnswered(s)
    PROVE  CopiesKept'
  <1> DEFINE me == slot[s]
  <1>s. Step(s) BY DEF Step, Branch
  <1>0. me \in SlotStates /\ Fits(me) /\ me.at = "copying" /\ me.things = {}
    BY Me DEF BranchAnswered
  <1>1. PICK own \in BranchIds : own = me.into BY <1>0 DEF Fits, Copying
  <1>2. copied' = [copied EXCEPT ![own] = [@ EXCEPT !.answered = TRUE, !.read = me.read]]
        /\ UNCHANGED <<branches, messages, made>>
    BY <1>1 DEF BranchAnswered, tables
  <1>3. copied'[own].prefix = copied[own].prefix /\ copied'[own].read = me.read
        /\ \A b \in BranchIds : b # own => copied'[b] = copied[b]
    BY <1>2 DEF Shaped, TypeOK, Copies
  <1>4. slot'[s].at \notin Copying
    <2>1. Become(s, Idle) BY DEF BranchAnswered
    <2>2. slot'[s] = Idle BY <2>1, Moved
    <2>3. QED BY <2>2 DEF Idle, Copying
  <1>5. CopierKept(me) /\ BranchKept(own) BY DEF CopiesKept
  <1>6. own <= made.branch BY <1>0, <1>1, <1>5 DEF CopierKept
  <1>7. There(own)' = There(own) BY <1>2, <1>3 DEF There
  <1>8. Exists(own) =>
           /\ There(own) = me.read
           /\ me.read \subseteq copied[own].prefix
           /\ \A n \in me.read, m \in copied[own].prefix \ me.read : n < m
    BY <1>0, <1>1, <1>5 DEF CopierKept, CopyKept
  <1>9. BranchKept(own)'
    <2>1. ~(own > made'.branch)
      <3>1. own \in Nat /\ made'.branch \in Nat BY <1>2, RowNumbers
      <3>2. QED BY <1>2, <1>6, <3>1
    <2>2. ASSUME Exists(own)' PROVE PrefixKept(own)'
      <3>1. Exists(own) BY <1>2, <2>2 DEF Exists
      <3>2. There(own)' = me.read /\ copied'[own].prefix = copied[own].prefix
            /\ copied'[own].read = me.read
        BY <1>3, <1>7, <1>8, <3>1
      <3>3. \A n \in me.read, m \in copied[own].prefix \ me.read : ~(m < n)
        BY <1>8, <3>1, RowNumbers
      <3>4. QED BY <3>2, <3>3 DEF PrefixKept
    <2>3. QED BY <1>2, <1>3, <1>5, <2>1, <2>2 DEF BranchKept
  <1>10. CopierKept(slot[s])' BY <1>4 DEF CopierKept, Copying
  <1>11. Undisturbed(s, own) BY <1>0, <1>1, <1>2, <1>3, <1>s, OwnUndisturbing
  <1>12. QED BY <1>4, <1>9, <1>10, <1>11, CopiesOwn

LEMMA CopiesStep ==
    ASSUME Shaped, Shaped', CopiesKept, NEW s \in Slots, Step(s)
    PROVE  CopiesKept'
  <1>1. CASE Branch(s)
    BY <1>1, CopiesReadSource, CopiesCreateBranch, CopiesReadPrefix, CopiesCopyMessage,
       CopiesAnswered DEF Branch
  <1>2. CASE DeleteConversation(s) BY <1>2, CopiesDelete
  <1>3. CASE ~Branch(s) /\ (SaveTurn(s) \/ PostUpload(s))
    <2> DEFINE me == slot[s]
    <2>1. me.conv \in Convs /\ me.branch \in BranchIds \cup {None}
      BY <1>3, Me DEF SaveTurn, PostUpload, Fits, SlotStates
    <2>2. PICK count \in Nat : InsertMessages(me.conv, me.branch, count)
      <3>1. 1 \in Nat /\ 2 \in Nat OBVIOUS
      <3>2. QED BY <1>3, <3>1, Zenon DEF SaveTurn, PostUpload
    <2>3. References(me.conv, me.branch) /\ NewMessages(me.conv, me.branch)
      BY <2>1, <2>2, MessagesInserted DEF InsertMessages
    <2>4. UNCHANGED <<branches, copied>> BY <1>3 DEF SaveTurn, PostUpload, history
    <2>5. QED BY <1>3, <2>1, <2>3, <2>4, CopiesMessages
  <1>4. CASE ~Branch(s) /\ CreateMain(s)
    <2>1. PICK c : c = slot[s].conv OBVIOUS
    <2>2. InsertBranch(c, None) /\ UNCHANGED <<messages, copied>>
      BY <1>4, <2>1 DEF CreateMain, history
    <2>3. Undisturbed(s, None) BY <2>2, BranchUndisturbing
    <2>4. slot'[s].at \notin Copying BY <1>4, Others
    <2>5. QED BY <2>3, <2>4, CopiesElsewhere
  <1>5. CASE /\ ~Branch(s) /\ ~DeleteConversation(s)
             /\ ~SaveTurn(s) /\ ~PostUpload(s) /\ ~CreateMain(s)
    <2>1. UNCHANGED <<branches, messages, copied>>
          /\ made'.branch = made.branch /\ made'.message = made.message
      <3>1. CASE CreateConversation(s) \/ Attach(s) \/ Sweep(s) \/ Fails(s)
        BY <3>1 DEF CreateConversation, Attach, Sweep, SweepBegins, SweepConversation, SweepAsset,
                    SweepEnds, Fails, tables, history
      <3>2. CASE IntendUpload(s) BY <3>2 DEF IntendUpload, Shaped, TypeOK, history
      <3>3. CASE \/ DeletionBegins(s) \/ DropBegins(s) \/ DropAsset(s) \/ RemoveObject(s)
                 \/ DeletionEnds(s)
        BY <3>3 DEF DeletionBegins, DropBegins, DropAsset, RemoveObject, DeletionEnds, tables,
                    history
      <3>4. CASE ImportObject(s) \/ GenerateObject(s)
        BY <3>4 DEF ImportObject, GenerateObject, StoreObject, Shaped, TypeOK, tables, history
      <3>5. CASE ImportRow(s) \/ ImportUnheard(s) \/ GenerateRow(s) \/ ImportFails(s)
        BY <3>5 DEF ImportRow, ImportUnheard, GenerateRow, ImportFails, tables, history
      <3>6. CASE \/ ChatAnswered(s) \/ ImportsDone(s) \/ NoTurn(s) \/ FindTurn(s)
                 \/ ResolveBranch(s)
        BY <3>6 DEF ChatAnswered, ImportsDone, NoTurn, FindTurn, ResolveBranch, tables, history
      <3>7. QED BY <1>5, <3>1, <3>2, <3>3, <3>4, <3>5, <3>6 DEF Step, Create, Chat, Intend, Delete
    <2>2. QED BY <1>5, <2>1, CopiesQuiet
  <1>6. QED BY <1>1, <1>2, <1>3, <1>4, <1>5

LEMMA CopiesPreserved == Shaped /\ Shaped' /\ CopiesKept /\ [Next]_vars => CopiesKept'
  <1> SUFFICES ASSUME Shaped, Shaped', CopiesKept, [Next]_vars PROVE CopiesKept'
    OBVIOUS
  <1>1. ASSUME UNCHANGED <<branches, messages, made, copied, slot>> PROVE CopiesKept'
    BY <1>1 DEF CopiesKept, RowBounds, BranchKept, PrefixKept, There, Exists, CopierKept, CopyKept,
                OneCopier
  <1>2. CASE \E a \in 1..made.asset : PutStored(a) \/ PutTooLarge(a)
    BY <1>1, <1>2 DEF PutStored, PutTooLarge, tables, history
  <1>3. CASE UNCHANGED vars BY <1>1, <1>3 DEF vars, tables, history
  <1>4. QED BY <1>2, <1>3, CopiesStep, NextIsStep

LEMMA CopiesInit == Init => CopiesKept
  BY DEF Init, CopiesKept, RowBounds, BranchKept, CopierKept, OneCopier, Exists, NoCopy, Idle

\* What a branch has of the messages it was created from is a prefix of them, though the copy
\* fails half way, reads only a part, or turns are saved and conversations deleted while it
\* goes on, and a branch the client was told of has as many as it was told.
THEOREM CopiesPrefixes == Spec => []CopiesArePrefixes
  <1>1. Spec => []Shaped BY ShapedInit, ShapedPreserved, PTL DEF Spec
  <1>2. QED
    BY <1>1, CopiesInit, CopiesPreserved, CopiesKeptImplies, ShapedInit, ShapedPreserved, PTL
    DEF Spec
=============================================================================
