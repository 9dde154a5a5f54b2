------------------------------ MODULE Hierarchy ------------------------------
(* The two-level hierarchy: contract sets that narrow what teams may use,  *)
(* team journals, and the receipts that seal them.  Every file is put in   *)
(* place by a look, an atomic replacement and a second look, under no lock.*)
EXTENDS Naturals, FiniteSets, Sequences, SequencesExt

CONSTANTS
    Team,
    ContractSet,   \* the contract sets somebody may install
    Contract,      \* each set: its hierarchy, the seconds and models of a team
    Hierarchies,   \* each hierarchy: the seconds and models it allows in all
    Clerk,         \* concurrent installers and receipt writers
    EvidencePath,
    Usage,         \* the seconds a team may report
    MaxRecord,     \* bound on the records of all journals
    MaxCall,       \* bound on the calls made
    NoFile

VARIABLES
    files,         \* the orchestration root
    teamJournal,   \* how many records each team's journal has
    clerk,
    calls,         \* made so far
    honoured       \* contract sets and root receipts that readers could verify

hierarchy == <<files, teamJournal, clerk, calls, honoured>>

HierarchyFile == <<"hierarchy", 0>>
ManifestFile == <<"manifest", 0>>
RootFile == <<"root", 0>>
File == {HierarchyFile, ManifestFile, RootFile} \cup ({"contract", "receipt"} \X Team)
Off == [step |-> "idle", todo |-> <<>>, content |-> NoFile]

Busy(c, step) == clerk[c].step = step
Starts(c) == Busy(c, "idle") /\ calls < MaxCall /\ calls' = calls + 1
Leave(c) == clerk' = [clerk EXCEPT ![c] = Off]
TeamFiles(name) == SetToSeq({name} \X Team)

-----------------------------------------------------------------------------
(* validate_team_delegation_contract: nothing wider than the hierarchy.    *)
Narrowed(s) ==
    /\ Contract[s].seconds <= Hierarchies[Contract[s].hierarchy].seconds
    /\ Contract[s].models \subseteq Hierarchies[Contract[s].hierarchy].models

(* What a set or a receipt has for one file of the root.                   *)
ContentFor(content, file) ==
    CASE file = HierarchyFile -> Contract[content.set].hierarchy
      [] file[1] \in {"root", "receipt"} -> content
      [] OTHER -> content.set

(* read_contract_set: every file there, as the manifest recorded it, and   *)
(* bound to this hierarchy.                                                *)
ReadContractSet ==
    /\ files[HierarchyFile] # NoFile /\ files[ManifestFile] # NoFile
    /\ Contract[files[ManifestFile]].hierarchy = files[HierarchyFile]
    /\ \A t \in Team : /\ files[<<"contract", t>>] = files[ManifestFile]
                       /\ Narrowed(files[<<"contract", t>>])

(* verify_team_receipt under contract set s: the contract and the journal  *)
(* are as sealed, the usage within the team's own budget.                  *)
VerifyTeamReceipt(t, s) ==
    LET r == files[<<"receipt", t>>] IN
    /\ r # NoFile /\ r.set = s /\ files[<<"contract", t>>] = s
    /\ r.count = teamJournal[t] /\ r.digest = teamJournal[t]
    /\ r.used <= Contract[s].seconds

Total(f) == FoldFunctionOnSet(+, 0, f, Team)
Used(receipts) == Total([t \in Team |-> receipts[t].used])

(* A bug for comparison: each team is held against the total by itself.    *)
AggregateWithinEach(receipts, s) ==
    \A t \in Team : receipts[t].used <= Hierarchies[Contract[s].hierarchy].seconds

(* _validate_aggregate_budget_usage over all teams' receipts.              *)
AggregateWithin(receipts, s) == Used(receipts) <= Hierarchies[Contract[s].hierarchy].seconds

(* No evidence path is sealed by more than one team receipt.               *)
Disjoint(receipts) ==
    \A t, u \in Team : t # u => receipts[t].evidence \cap receipts[u].evidence = {}

(* verify_root_receipt.                                                    *)
VerifyRootReceipt ==
    LET root == files[RootFile] IN
    /\ ReadContractSet /\ root # NoFile /\ root.set = files[ManifestFile]
    /\ \A t \in Team : /\ VerifyTeamReceipt(t, root.set)
                       /\ root.receipts[t] = files[<<"receipt", t>>]
    /\ AggregateWithin(root.receipts, root.set) /\ Disjoint(root.receipts)

-----------------------------------------------------------------------------
(* install_contract_set: the hierarchy, the teams' contracts in order, the *)
(* manifest.                                                               *)
InstallContractSet(c, s) ==
    /\ Starts(c) /\ Narrowed(s)
    /\ clerk' = [clerk EXCEPT ![c] =
          [step |-> "look", content |-> [set |-> s],
           todo |-> <<HierarchyFile>> \o TeamFiles("contract") \o <<ManifestFile>>]]
    /\ UNCHANGED <<files, teamJournal>>

(* A bug for comparison: what is there is overwritten.                     *)
LookAtFileBlind(c) ==
    /\ Busy(c, "look")
    /\ clerk' = [clerk EXCEPT ![c].step = "write"]
    /\ UNCHANGED <<files, teamJournal, calls>>

(* The file is as it should be: on to the next, or done.                   *)
NextFile(c) ==
    IF Len(clerk[c].todo) = 1 THEN Leave(c)
    ELSE clerk' = [clerk EXCEPT ![c].todo = Tail(@), ![c].step = "look"]

(* _install_immutable_json and _install_receipt: what is there must be     *)
(* what would be written, else the file is written and read back.          *)
LookAtFile(c) ==
    LET there == files[Head(clerk[c].todo)]
    IN  /\ Busy(c, "look")
        /\ IF there = NoFile THEN clerk' = [clerk EXCEPT ![c].step = "write"]
           ELSE IF there = ContentFor(clerk[c].content, Head(clerk[c].todo)) THEN NextFile(c)
           ELSE Leave(c)
        /\ UNCHANGED <<files, teamJournal, calls>>

WriteFile(c) ==
    LET me == clerk[c] IN
    /\ Busy(c, "write")
    /\ files' = [files EXCEPT ![Head(me.todo)] = ContentFor(me.content, Head(me.todo))]
    /\ clerk' = [clerk EXCEPT ![c].step = "confirm"]
    /\ UNCHANGED <<teamJournal, calls>>

ConfirmFile(c) ==
    LET me == clerk[c] IN
    /\ Busy(c, "confirm")
    /\ IF files[Head(me.todo)] = ContentFor(me.content, Head(me.todo)) THEN NextFile(c)
       ELSE Leave(c)
    /\ UNCHANGED <<files, teamJournal, calls>>

-----------------------------------------------------------------------------
(* create_team_receipt for the installed contract: the journal's records   *)
(* are read, then its bytes.                                               *)
CreateTeamReceipt(c, t) ==
    LET s == files[<<"contract", t>>] IN
    /\ Starts(c) /\ s # NoFile
    /\ \E used \in {u \in Usage : u <= Contract[s].seconds},
          evidence \in {{e} : e \in EvidencePath} :
          clerk' = [clerk EXCEPT ![c] =
              [step |-> "digest", todo |-> <<<<"receipt", t>>>>,
               content |-> [set |-> s, used |-> used, evidence |-> evidence,
                            count |-> teamJournal[t], digest |-> 0]]]
    /\ UNCHANGED <<files, teamJournal>>

DigestJournal(c) ==
    /\ Busy(c, "digest")
    /\ clerk' = [clerk EXCEPT ![c].step = "look",
                     ![c].content.digest = teamJournal[Head(clerk[c].todo)[2]]]
    /\ UNCHANGED <<files, teamJournal, calls>>

(* create_root_receipt: the set is read, each team's receipt verified in   *)
(* turn, then their sum and their evidence.                                *)
CreateRootReceipt(c) ==
    /\ Starts(c) /\ ReadContractSet
    /\ clerk' = [clerk EXCEPT ![c] = [step |-> "collect", todo |-> TeamFiles("receipt"),
                                       content |-> [set |-> files[ManifestFile],
                                                    receipts |-> [t \in Team |-> NoFile]]]]
    /\ UNCHANGED <<files, teamJournal>>

CollectTeam(c) ==
    LET me == clerk[c]
        t == Head(me.todo)[2]
    IN  /\ Busy(c, "collect") /\ me.todo # <<>>
        /\ IF VerifyTeamReceipt(t, me.content.set)
           THEN clerk' = [clerk EXCEPT ![c].todo = Tail(@),
                              ![c].content.receipts[t] = files[<<"receipt", t>>]]
           ELSE Leave(c)
        /\ UNCHANGED <<files, teamJournal, calls>>

SealRoot(c) ==
    LET receipts == clerk[c].content.receipts IN
    /\ Busy(c, "collect") /\ clerk[c].todo = <<>>
    /\ IF AggregateWithin(receipts, clerk[c].content.set) /\ Disjoint(receipts)
       THEN clerk' = [clerk EXCEPT ![c].step = "look", ![c].todo = <<RootFile>>]
       ELSE Leave(c)
    /\ UNCHANGED <<files, teamJournal, calls>>

KillClerk(c) ==
    /\ ~Busy(c, "idle") /\ Leave(c)
    /\ UNCHANGED <<files, teamJournal, calls>>

-----------------------------------------------------------------------------
(* append_journal_record, one transaction of the journal.                  *)
AppendRecord(t) ==
    /\ Total(teamJournal) < MaxRecord
    /\ teamJournal' = [teamJournal EXCEPT ![t] = @ + 1]
    /\ UNCHANGED <<files, clerk, calls>>

-----------------------------------------------------------------------------
InstalledFiles(s) ==
    [f \in File |-> IF f = RootFile \/ f[1] = "receipt" THEN NoFile
                    ELSE ContentFor([set |-> s], f)]

(* An empty orchestration root, or one with a contract set in it.          *)
HierarchyInit ==
    /\ \/ files = [f \in File |-> NoFile]
       \/ \E s \in ContractSet : Narrowed(s) /\ files = InstalledFiles(s)
    /\ teamJournal = [t \in Team |-> 0]
    /\ clerk = [c \in Clerk |-> Off] /\ calls = 0
    /\ honoured = [sets |-> IF ReadContractSet THEN {files[ManifestFile]} ELSE {}, roots |-> {}]

HierarchyStep ==
    \/ \E c \in Clerk :
          \/ \E s \in ContractSet : InstallContractSet(c, s)
          \/ LookAtFile(c) \/ WriteFile(c) \/ ConfirmFile(c)
          \/ \E t \in Team : CreateTeamReceipt(c, t)
          \/ DigestJournal(c) \/ CreateRootReceipt(c) \/ CollectTeam(c) \/ SealRoot(c)
          \/ KillClerk(c)
    \/ \E t \in Team : AppendRecord(t)

(* For the properties: what somebody who reads now would rely on.          *)
Honour ==
    IF UNCHANGED <<files, teamJournal>> THEN UNCHANGED honoured
    ELSE honoured' =
        [sets |-> honoured.sets \cup (IF ReadContractSet' THEN {files'[ManifestFile]} ELSE {}),
         roots |-> honoured.roots \cup (IF VerifyRootReceipt' THEN {files'[RootFile]} ELSE {})]

HierarchyNext == HierarchyStep /\ Honour

HierarchySpec == HierarchyInit /\ [][HierarchyNext]_hierarchy

-----------------------------------------------------------------------------
(* However two installers race, are killed or come back with other inputs: *)
(* once a reader has accepted a contract set, no reader ever accepts       *)
(* another one, although any single file may have been replaced.  It rests *)
(* on how few they are: four at once, each between its look and its write  *)
(* of another file, can replace an accepted set by another one file by     *)
(* file.                                                                   *)
ContractSetForGood == Cardinality(honoured.sets) <= 1

(* Nor does a second root receipt ever verify that seals anything else;    *)
(* and the one that does keeps all teams together within the seconds of    *)
(* the hierarchy, with evidence that no two teams share.                   *)
RootReceiptForGood ==
    /\ Cardinality(honoured.roots) <= 1
    /\ \A root \in honoured.roots :
          /\ root.set \in honoured.sets
          /\ Used(root.receipts) <= Hierarchies[Contract[root.set].hierarchy].seconds
          /\ \A t, u \in Team :
                t # u => root.receipts[t].evidence \cap root.receipts[u].evidence = {}

(* The safety of the hierarchy.                                            *)
HierarchySafe == ContractSetForGood /\ RootReceiptForGood

-----------------------------------------------------------------------------
(* What the code guarantees whatever the number of clerks.  Once a         *)
(* contract set can be read and nobody is about to write one of its files, *)
(* no installer replaces any of them: the look finds each one there.       *)
SetFile == {HierarchyFile, ManifestFile} \cup ({"contract"} \X Team)

Settled ==
    /\ ReadContractSet
    /\ \A c \in Clerk : Busy(c, "write") => Head(clerk[c].todo) \notin SetFile

SettledSetStays == Settled => Settled' /\ \A f \in SetFile : files'[f] = files[f]

(* What HierarchySafe needs of those who call: no two are between the look *)
(* and the write of the manifest, or of the root receipt, at once.         *)
OneWriter(f) ==
    \A c, d \in Clerk :
        /\ Busy(c, "write") /\ Head(clerk[c].todo) = f
        /\ Busy(d, "write") /\ Head(clerk[d].todo) = f
        => c = d

Unraced == OneWriter(ManifestFile) /\ OneWriter(RootFile)

(* The inductive invariant under Unraced: a write finds the file its look  *)
(* found missing still missing, so what was honoured is still there.       *)
HierarchyShape ==
    /\ DOMAIN files = File /\ DOMAIN clerk = Clerk
    /\ \A c \in Clerk : DOMAIN clerk[c] = {"step", "todo", "content"}
    /\ honoured = [sets |-> honoured.sets, roots |-> honoured.roots]

StillMissing ==
    \A c \in Clerk, f \in {ManifestFile, RootFile} :
        Busy(c, "write") /\ Head(clerk[c].todo) = f => files[f] = NoFile

HonouredThere ==
    /\ \A s \in honoured.sets : s = files[ManifestFile] /\ s # NoFile
    /\ \A root \in honoured.roots :
          /\ root = files[RootFile] /\ root # NoFile /\ root.set \in honoured.sets
          /\ AggregateWithin(root.receipts, root.set) /\ Disjoint(root.receipts)

HierarchyInv == HierarchyShape /\ StillMissing /\ HonouredThere
=============================================================================
