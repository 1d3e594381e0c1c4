------------------------------- MODULE Content -------------------------------
(***************************************************************************)
(* The content of one project: conversations, branches, messages, assets,  *)
(* and the objects the assets point to in the object storage               *)
(* (httpapi/handlers.go, lifecycle.go, object_storage.go,                  *)
(* cmd/retention-cleanup).                                                 *)
(*                                                                         *)
(* A slot is a goroutine that serves one request after another, or the     *)
(* retention job.  A statement outside a transaction is a step; so is a    *)
(* transaction that deletes, because the foreign keys make it fail if rows *)
(* come in between its statements; so is a read, write or removal of an    *)
(* object.  An insert succeeds while the rows it refers to exist.          *)
(*                                                                         *)
(* Ids are given in the order of creation.  Attachments and extractions    *)
(* are not kept: whatever deletes a message or an asset deletes them too.  *)
(* Nor is a conversation's time of change: whatever exists may have        *)
(* expired.                                                                *)
(***************************************************************************)
EXTENDS Integers, FiniteSets, FiniteSetsExt

CONSTANTS
    Slots,        \* as many requests and jobs as run at the same time
    Convs,        \* conversations
    MaxBranches,  \* bounds: branches, messages and assets ever created
    MaxMessages,
    MaxAssets,
    MaxArtifacts, \* assets one request generates: at most 4 in the code
    None          \* no conversation, no branch

ASSUME ContentAssumption ==
    /\ MaxBranches \in Nat /\ MaxMessages \in Nat
    /\ MaxAssets \in Nat /\ MaxArtifacts \in Nat
    /\ None \notin Convs \cup Nat
    /\ Convs \cap Nat = {}

BranchIds == 1..MaxBranches
MessageIds == 1..MaxMessages
AssetIds == 1..MaxAssets

VARIABLES
    convs,    \* user_conversations: which there are, and were
    branches, \* user_conversation_branches
    messages, \* user_messages, the copies of a message under the same number
    assets,   \* user_workbench_assets
    objects,  \* the assets whose object is stored
    made,     \* how many branches, messages and assets were created
    copied,   \* what each branch was to be a copy of, and what the answer counted
    lost,     \* assets whose object was removed though their row may be listed: by an
              \* import that did not hear of its insert, or by a client's PUT
    slot

tables == <<convs, branches, messages, assets>>
history == <<copied, lost>>
vars == <<tables, objects, made, history, slot>>

BranchRows == [id : BranchIds, conv : Convs, parent : BranchIds \cup {None}]
MessageRows == [conv : Convs, branch : BranchIds \cup {None}, n : MessageIds]
AssetRows == [id : AssetIds, conv : Convs \cup {None}, branch : BranchIds \cup {None},
              origin : {"generated", "uploaded"}]
Stages == {"idle", "naming", "importing", "imported", "saving", "turning",
           "resolving", "generating", "generated", "posting", "attaching", "branching",
           "reading", "copying", "deleting", "dropping", "removing", "sweeping"}
Idle == [at |-> "idle", conv |-> None, branch |-> None, into |-> None, asset |-> 0, left |-> 0,
         things |-> {}, read |-> {}, sweep |-> {}, job |-> FALSE]
SlotStates == [at : Stages, conv : Convs \cup {None}, branch : BranchIds \cup {None},
               into : BranchIds \cup {None}, asset : 0..MaxAssets, left : 0..MaxArtifacts,
               things : SUBSET (MessageIds \cup AssetIds), read : SUBSET MessageIds,
               sweep : SUBSET (Convs \cup AssetIds),
               job : BOOLEAN]
NoCopy == [prefix |-> {}, read |-> {}, answered |-> FALSE]
Copies == [prefix : SUBSET MessageIds, read : SUBSET MessageIds, answered : BOOLEAN]

TypeOK ==
    /\ convs \in [Convs -> {"absent", "live", "deleted"}]
    /\ branches \subseteq BranchRows
    /\ messages \subseteq MessageRows
    /\ assets \subseteq AssetRows
    /\ objects \subseteq AssetIds
    /\ made \in [branch : 0..MaxBranches, message : 0..MaxMessages, asset : 0..MaxAssets]
    /\ copied \in [BranchIds -> Copies]
    /\ lost \subseteq AssetIds
    /\ slot \in [Slots -> SlotStates]

Init ==
    /\ convs = [c \in Convs |-> "absent"]
    /\ branches = {} /\ messages = {} /\ assets = {} /\ objects = {}
    /\ made = [branch |-> 0, message |-> 0, asset |-> 0]
    /\ copied = [b \in BranchIds |-> NoCopy]
    /\ lost = {}
    /\ slot = [s \in Slots |-> Idle]

Become(s, state) == slot' = [slot EXCEPT ![s] = state]
Goto(s, stage) == slot' = [slot EXCEPT ![s].at = stage]
-----------------------------------------------------------------------------
(* Rows *)

Live(c) == convs[c] = "live"
Known == {c \in Convs : convs[c] # "absent"}
Exists(b) == \E row \in branches : row.id = b
BranchesOf(c) == {row.id : row \in {x \in branches : x.conv = c}}

\* Mutant: messages and assets have no foreign keys.
NoReferences(c, b) == TRUE

\* The foreign keys of messages and assets, which may also name neither: that a branch
\* is of the conversation is no constraint.
References(c, b) == (c # None => Live(c)) /\ (b # None => Exists(b))

InsertMessages(c, b, count) ==
    LET first == made.message + 1
        last == made.message + count
    IN  /\ References(c, b)
        /\ last <= MaxMessages
        /\ messages' = messages \cup {[conv |-> c, branch |-> b, n |-> i] : i \in first..last}
        /\ made' = [made EXCEPT !.message = last]

InsertAsset(a, c, b, origin) ==
    /\ References(c, b)
    /\ assets' = assets \cup {[id |-> a, conv |-> c, branch |-> b, origin |-> origin]}

InsertBranch(c, parent) ==
    LET id == made.branch + 1 IN
    /\ Live(c)
    /\ parent # None => Exists(parent)
    /\ id <= MaxBranches
    /\ branches' = branches \cup {[id |-> id, conv |-> c, parent |-> parent]}
    /\ made' = [made EXCEPT !.branch = id]

-----------------------------------------------------------------------------
(* createConversation *)

CreateConversation(s) ==
    /\ slot[s].at = "idle"
    /\ \E c \in Convs :
          /\ convs[c] = "absent"
          /\ convs' = [convs EXCEPT ![c] = "live"]
          /\ Become(s, [Idle EXCEPT !.at = "naming", !.conv = c])
    /\ UNCHANGED <<branches, messages, assets, objects, made, history>>

\* If this fails its error is ignored: a conversation without a branch.
CreateMain(s) ==
    /\ slot[s].at = "naming"
    /\ InsertBranch(slot[s].conv, None)
    /\ Become(s, Idle)
    /\ UNCHANGED <<convs, messages, assets, objects, history>>

-----------------------------------------------------------------------------
(* chatCompletions, as far as it makes content *)

\* The branch asked for, or the conversation's first one if it has any.
Resolved(c, b) ==
    IF c # None /\ b = None /\ BranchesOf(c) # {} THEN Min(BranchesOf(c)) ELSE b

\* After its capture.  A chat's answer may hold files to import, another model's
\* request generates assets, and either may name a conversation and a branch.
ChatAnswered(s) ==
    /\ slot[s].at = "idle"
    /\ \E c \in Known \cup {None}, b \in 1..made.branch \cup {None}, n \in 0..MaxArtifacts :
          Become(s, [Idle EXCEPT !.at = IF n = 0 THEN "importing" ELSE "saving",
                                 !.conv = c, !.branch = b, !.left = n,
                                 !.into = IF n = 0 THEN Resolved(c, b) ELSE None])
    /\ UNCHANGED <<tables, objects, made, history>>

\* writeGeneratedObject: the object comes before the row.
StoreObject(s, from, to) ==
    LET a == made.asset + 1 IN
    /\ slot[s].at = from
    /\ a <= MaxAssets
    /\ objects' = objects \cup {a}
    /\ made' = [made EXCEPT !.asset = a]
    /\ Become(s, [slot[s] EXCEPT !.at = to, !.asset = a])
    /\ UNCHANGED <<tables, history>>

ImportObject(s) == StoreObject(s, "importing", "imported")

ImportRow(s) ==
    /\ slot[s].at = "imported"
    /\ InsertAsset(slot[s].asset, slot[s].conv, slot[s].into, "generated")
    /\ Become(s, [slot[s] EXCEPT !.at = "importing", !.asset = 0])
    /\ UNCHANGED <<convs, branches, messages, objects, made, history>>

\* The insert fails: the object is deleted, if that does not fail too.
ImportFails(s) ==
    /\ slot[s].at = "imported"
    /\ objects' \in {objects, objects \ {slot[s].asset}}
    /\ Become(s, [slot[s] EXCEPT !.at = "importing", !.asset = 0])
    /\ UNCHANGED <<tables, made, history>>

\* The insert is applied and its answer lost: the row has no object.
ImportUnheard(s) ==
    /\ slot[s].at = "imported"
    /\ InsertAsset(slot[s].asset, slot[s].conv, slot[s].into, "generated")
    /\ objects' = objects \ {slot[s].asset}
    /\ lost' = lost \cup {slot[s].asset}
    /\ Become(s, [slot[s] EXCEPT !.at = "importing", !.asset = 0])
    /\ UNCHANGED <<convs, branches, messages, made, copied>>

ImportsDone(s) ==
    /\ slot[s].at = "importing"
    /\ Goto(s, "saving")
    /\ UNCHANGED <<tables, objects, made, history>>

GoOn(s) == IF slot[s].left > 0 THEN [slot[s] EXCEPT !.at = "resolving"] ELSE Idle

\* A request without a conversation or without messages saves no turn.
NoTurn(s) ==
    /\ slot[s].at = "saving"
    /\ Become(s, GoOn(s))
    /\ UNCHANGED <<tables, objects, made, history>>

\* saveConversationTurn: the conversation, and its branch or its first one.
FindTurn(s) ==
    LET c == slot[s].conv
        b == slot[s].branch
        own == BranchesOf(c)
    IN  /\ slot[s].at = "saving"
        /\ c # None /\ Live(c)
        /\ own # {}
        /\ b # None => b \in own
        /\ Become(s, [slot[s] EXCEPT !.at = "turning", !.branch = Resolved(c, b)])
        /\ UNCHANGED <<tables, objects, made, history>>

\* The prompt and the answer, in one statement.
SaveTurn(s) ==
    /\ slot[s].at = "turning"
    /\ InsertMessages(slot[s].conv, slot[s].branch, 2)
    /\ Become(s, GoOn(s))
    /\ UNCHANGED <<convs, branches, assets, objects, history>>

\* createMockGeneratedArtifacts fails if the conversation has no branch.
ResolveBranch(s) ==
    LET c == slot[s].conv
        b == slot[s].branch
    IN  /\ slot[s].at = "resolving"
        /\ c # None /\ b = None => BranchesOf(c) # {}
        /\ Become(s, [slot[s] EXCEPT !.at = "generating", !.into = Resolved(c, b)])
        /\ UNCHANGED <<tables, objects, made, history>>

GenerateObject(s) == StoreObject(s, "generating", "generated")

\* If it fails the object stays.
GenerateRow(s) ==
    /\ slot[s].at = "generated"
    /\ InsertAsset(slot[s].asset, slot[s].conv, slot[s].into, "generated")
    /\ Become(s, IF slot[s].left > 1
                 THEN [slot[s] EXCEPT !.at = "generating", !.asset = 0, !.left = @ - 1]
                 ELSE Idle)
    /\ UNCHANGED <<convs, branches, messages, objects, made, history>>
-----------------------------------------------------------------------------
(* createUploadIntent and the upload *)

IntendUpload(s) ==
    LET a == made.asset + 1 IN
    /\ slot[s].at = "idle"
    /\ a <= MaxAssets
    /\ \E c \in Known \cup {None}, b \in 1..made.branch \cup {None} :
          /\ InsertAsset(a, c, b, "uploaded")
          /\ Become(s, IF c = None THEN Idle
                       ELSE [Idle EXCEPT !.at = "posting", !.conv = c, !.branch = b, !.asset = a])
    /\ made' = [made EXCEPT !.asset = a]
    /\ UNCHANGED <<convs, branches, messages, objects, history>>

PostUpload(s) ==
    /\ slot[s].at = "posting"
    /\ InsertMessages(slot[s].conv, slot[s].branch, 1)
    /\ Goto(s, "attaching")
    /\ UNCHANGED <<convs, branches, assets, objects, history>>

\* The attachment refers to the message and the asset, so both must still be there;
\* nothing else keeps it.
Attach(s) ==
    /\ slot[s].at = "attaching"
    /\ Live(slot[s].conv)
    /\ \E row \in assets : row.id = slot[s].asset
    /\ Become(s, Idle)
    /\ UNCHANGED <<tables, objects, made, history>>

\* A PUT with a presigned URL, or to mockS3Object: the latter takes the key of any asset,
\* deleted or generated ones too, and what it stores may replace what is there.
PutStored(a) ==
    /\ objects' = objects \cup {a}
    /\ UNCHANGED <<tables, made, history, slot>>

\* mockS3Object notices only after writing that a body without a length is too large.
PutTooLarge(a) ==
    /\ objects' = objects \ {a}
    /\ lost' = lost \cup {a}
    /\ UNCHANGED <<tables, made, copied, slot>>
-----------------------------------------------------------------------------
(* createConversationBranch *)

ReadSource(s) ==
    /\ slot[s].at = "idle"
    /\ \E source \in messages :
          Become(s, [Idle EXCEPT !.at = "branching", !.conv = source.conv,
                                 !.branch = source.branch, !.things = {source.n}])
    /\ UNCHANGED <<tables, objects, made, history>>

CreateBranch(s) ==
    /\ slot[s].at = "branching"
    /\ InsertBranch(slot[s].conv, slot[s].branch)
    /\ Become(s, [slot[s] EXCEPT !.at = "reading", !.into = made.branch + 1])
    /\ UNCHANGED <<convs, messages, assets, objects, history>>

Prefix(c, b, last) ==
    {row.n : row \in {x \in messages : x.conv = c /\ x.branch = b /\ x.n <= last}}

\* A read that breaks midway is not noticed: it gives the first messages of the prefix.
ReadPrefix(s) ==
    LET c == slot[s].conv
        b == slot[s].branch
        asked == Max(slot[s].things)
    IN  /\ slot[s].at = "reading"
        /\ \E last \in 0..asked :
              Become(s, [slot[s] EXCEPT !.at = "copying", !.things = Prefix(c, b, last),
                                        !.read = Prefix(c, b, last)])
        /\ copied' = [copied EXCEPT ![slot[s].into].prefix = Prefix(c, b, asked)]
        /\ UNCHANGED <<tables, objects, made, lost>>

\* Mutant: the messages are copied from the last one on.
NewestFirst(ns) == Max(ns)

OldestFirst(ns) == Min(ns)

CopyMessage(s) ==
    LET c == slot[s].conv
        b == slot[s].into
        n == OldestFirst(slot[s].things)
    IN  /\ slot[s].at = "copying"
        /\ slot[s].things # {}
        /\ References(c, b)
        /\ messages' = messages \cup {[conv |-> c, branch |-> b, n |-> n]}
        /\ Become(s, [slot[s] EXCEPT !.things = @ \ {n}])
        /\ UNCHANGED <<convs, branches, assets, objects, made, history>>

BranchAnswered(s) ==
    /\ slot[s].at = "copying"
    /\ slot[s].things = {}
    /\ copied' = [copied EXCEPT ![slot[s].into] =
          [@ EXCEPT !.answered = TRUE, !.read = slot[s].read]]
    /\ Become(s, Idle)
    /\ UNCHANGED <<tables, objects, made, lost>>
-----------------------------------------------------------------------------
(* deleteConversation and deleteAsset, of a request or of the retention job *)

\* The object keys are listed before the transaction.
ListKeys(s, c) == [slot[s] EXCEPT !.at = "deleting", !.conv = c,
                                  !.things = {row.id : row \in {x \in assets : x.conv = c}}]

DeletionBegins(s) ==
    /\ slot[s].at = "idle"
    /\ \E c \in Known : Become(s, ListKeys(s, c))
    /\ UNCHANGED <<tables, objects, made, history>>

\* Rows of elsewhere that refer to the conversation's branches, and stay.
HeldFromElsewhere(c) ==
    \/ \E row \in messages \cup assets : row.conv # c /\ row.branch \in BranchesOf(c)
    \/ \E row \in branches : row.conv # c /\ row.parent \in BranchesOf(c)

\* Mutant: the conversation is archived.
ArchiveConversation(s) ==
    LET c == slot[s].conv IN
    /\ slot[s].at = "deleting"
    /\ ~HeldFromElsewhere(c)
    /\ convs' = [convs EXCEPT ![c] = "archived"]
    /\ Goto(s, "removing")
    /\ UNCHANGED <<branches, messages, assets, objects, made, history>>

\* A request answers 404 if there is no such conversation; the job does not look.
DeleteConversation(s) ==
    LET c == slot[s].conv IN
    /\ slot[s].at = "deleting"
    /\ ~slot[s].job => Live(c)
    /\ ~HeldFromElsewhere(c)
    /\ convs' = [convs EXCEPT ![c] = "deleted"]
    /\ branches' = {row \in branches : row.conv # c}
    /\ messages' = {row \in messages : row.conv # c}
    /\ assets' = {row \in assets : row.conv # c}
    /\ Goto(s, "removing")
    /\ UNCHANGED <<objects, made, history>>

DropBegins(s) ==
    /\ slot[s].at = "idle"
    /\ \E row \in assets : Become(s, [Idle EXCEPT !.at = "dropping", !.things = {row.id}])
    /\ UNCHANGED <<tables, objects, made, history>>

DropAsset(s) ==
    /\ slot[s].at = "dropping"
    /\ assets' = {row \in assets : row.id \notin slot[s].things}
    /\ Goto(s, "removing")
    /\ UNCHANGED <<convs, branches, messages, objects, made, history>>

\* The error of a removal is ignored.
RemoveObject(s) ==
    /\ slot[s].at = "removing"
    /\ \E a \in slot[s].things :
          /\ objects' \in {objects, objects \ {a}}
          /\ Become(s, [slot[s] EXCEPT !.things = @ \ {a}])
    /\ UNCHANGED <<tables, made, history>>

DeletionEnds(s) ==
    /\ slot[s].at = "removing"
    /\ slot[s].things = {}
    /\ Become(s, IF slot[s].job THEN [slot[s] EXCEPT !.at = "sweeping", !.conv = None] ELSE Idle)
    /\ UNCHANGED <<tables, objects, made, history>>

\* Mutant: the objects are removed although the transaction failed.
FailsButRemoves(s) ==
    /\ slot[s].at # "idle"
    /\ IF slot[s].at \in {"deleting", "dropping"} THEN Goto(s, "removing") ELSE Become(s, Idle)
    /\ UNCHANGED <<tables, objects, made, history>>

\* A statement fails and the handler returns, the job exits, or the process stops.
Fails(s) ==
    /\ slot[s].at # "idle"
    /\ Become(s, Idle)
    /\ UNCHANGED <<tables, objects, made, history>>
-----------------------------------------------------------------------------
(* The retention job: old conversations first, then old assets of none *)

Loose == {row.id : row \in {x \in assets : x.conv = None}}

SweepBegins(s) ==
    /\ slot[s].at = "idle"
    /\ \E old \in SUBSET ({c \in Convs : Live(c)} \cup Loose) :
          Become(s, [Idle EXCEPT !.at = "sweeping", !.job = TRUE, !.sweep = old])
    /\ UNCHANGED <<tables, objects, made, history>>

SweepConversation(s) ==
    /\ slot[s].at = "sweeping"
    /\ \E c \in slot[s].sweep \cap Convs :
          Become(s, [ListKeys(s, c) EXCEPT !.sweep = @ \ {c}])
    /\ UNCHANGED <<tables, objects, made, history>>

\* Where the asset is gone the job fails.
SweepAsset(s) ==
    /\ slot[s].at = "sweeping"
    /\ slot[s].sweep \cap Convs = {}
    /\ \E a \in slot[s].sweep \cap {row.id : row \in assets} :
          Become(s, [slot[s] EXCEPT !.at = "dropping", !.things = {a}, !.sweep = @ \ {a}])
    /\ UNCHANGED <<tables, objects, made, history>>

SweepEnds(s) ==
    /\ slot[s].at = "sweeping"
    /\ slot[s].sweep = {}
    /\ Become(s, Idle)
    /\ UNCHANGED <<tables, objects, made, history>>
-----------------------------------------------------------------------------
Create(s) == CreateConversation(s) \/ CreateMain(s)

Chat(s) ==
    \/ ChatAnswered(s)
    \/ ImportObject(s) \/ ImportRow(s) \/ ImportFails(s) \/ ImportUnheard(s) \/ ImportsDone(s)
    \/ NoTurn(s) \/ FindTurn(s) \/ SaveTurn(s)
    \/ ResolveBranch(s) \/ GenerateObject(s) \/ GenerateRow(s)

Intend(s) == IntendUpload(s) \/ PostUpload(s) \/ Attach(s)

Branch(s) ==
    ReadSource(s) \/ CreateBranch(s) \/ ReadPrefix(s) \/ CopyMessage(s) \/ BranchAnswered(s)

Delete(s) ==
    \/ DeletionBegins(s) \/ DeleteConversation(s)
    \/ DropBegins(s) \/ DropAsset(s)
    \/ RemoveObject(s) \/ DeletionEnds(s)

Sweep(s) == SweepBegins(s) \/ SweepConversation(s) \/ SweepAsset(s) \/ SweepEnds(s)

Next ==
    \/ \E s \in Slots :
          Create(s) \/ Chat(s) \/ Intend(s) \/ Branch(s) \/ Delete(s) \/ Sweep(s) \/ Fails(s)
    \/ \E a \in 1..made.asset : PutStored(a) \/ PutTooLarge(a)

Spec == Init /\ [][Next]_vars
-----------------------------------------------------------------------------
(* Properties *)

\* A generated asset that is listed has an object, whatever fails on the way and
\* whichever requests and jobs delete it or its conversation at the same time: the
\* object is stored before the row is inserted and removed after the row is gone.  The
\* exceptions are what the code itself removes without asking for a row: after an insert
\* that was applied although its answer was an error, and after a PUT that was too large.
GeneratedAreStored ==
    \A row \in assets : row.origin = "generated" /\ row.id \notin lost => row.id \in objects

\* What a branch has of the messages it was created from is a prefix of them: a copy that
\* fails, is read in part, or goes on while turns are saved, leaves no hole.  A branch the
\* client was told of has all that was read, as the message_count of the answer says.
CopiesArePrefixes ==
    \A b \in {row.id : row \in branches} :
        LET prefix == copied[b].prefix
            there == {row.n : row \in {x \in messages : x.branch = b}} \cap prefix
        IN  /\ \A n \in there : \A earlier \in prefix : earlier < n => earlier \in there
            /\ copied[b].answered => there = copied[b].read

\* A deleted conversation leaves no row, even when turns, uploads, copies and imports
\* were under way in it, and no row refers to a branch that is gone.
NothingOutlivesItsConversation ==
    /\ \A row \in branches \cup messages \cup assets : row.conv \in Convs => Live(row.conv)
    /\ \A row \in messages \cup assets : row.branch # None => Exists(row.branch)
    /\ \A row \in branches : row.parent # None => Exists(row.parent)
=============================================================================
