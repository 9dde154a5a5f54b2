-------------------------------- MODULE Inbox --------------------------------
(* The aggregate inbox of an orchestrator: the registry of its children,   *)
(* the import of their messages, the durable cursors of the replay, and    *)
(* the watch process that runs the replay and notifies the host.           *)
EXTENDS Naturals, SequencesExt

CONSTANTS
    Child,      \* agent runs that may be registered
    Editor,     \* register and unregister commands
    Script,     \* the kinds of message each child posts, in order
    Batch,      \* batch_size of a replay
    PerChild,   \* max_per_child of a replay
    MaxKill,    \* bound on the kills of the watch process
    First,      \* the child that is registered already
    NoEdit, NoImport, Over

EventKind == {"progress", "task_complete"}
Kind == EventKind \cup {"steer"}

ASSUME InboxAssumption == Script \in [Child -> Seq(Kind)] /\ First \in Child

VARIABLES
    registry,   \* registry.json: children in order, state of each
    edit,       \* what each command read of the registry and will write;
                \* a command and an import run once
    source,     \* messages.jsonl of each child
    sealed,     \* the child's assignment is closed and its run sealed
    inbox,      \* inbox.jsonl
    cursor,     \* cursors/<child>.json
    watch,      \* the watch process
    importing,  \* an import_registered command in progress
    kills

inboxFiles == <<registry, source, sealed, inbox, cursor>>
inboxVars == <<inboxFiles, edit, watch, importing, kills>>

ChildState == {"none", "active", "completed", "abandoned"}
SourceMessage == UNION {[child : {c}, n : DOMAIN Script[c]] : c \in Child}
Msg(c, n) == [child |-> c, n |-> n]
Imported(c, n) == Contains(inbox, Msg(c, n))
Registered(c) == registry.state[c] = "active"

NoWatch == [step |-> "off"]
Between == [step |-> "between"]

-----------------------------------------------------------------------------
(* register_child and unregister_child read the registry, decide, and      *)
(* write the whole of it back; the lock is held for the write only.        *)

RegisterRead(e, c) ==
    /\ edit[e] = NoEdit /\ registry.state[c] = "none"
    /\ edit' = [edit EXCEPT ![e] = [list |-> Append(registry.list, c),
                                    state |-> [registry.state EXCEPT ![c] = "active"]]]
    /\ UNCHANGED <<inboxFiles, watch, importing, kills>>

(* completed needs a closed assignment in a sealed run; abandoned nothing. *)
UnregisterRead(e, c, state) ==
    /\ edit[e] = NoEdit /\ registry.state[c] \in {"active", state}
    /\ state = "completed" => sealed[c]
    /\ edit' = [edit EXCEPT ![e] = [registry EXCEPT !.state[c] = state]]
    /\ UNCHANGED <<inboxFiles, watch, importing, kills>>

WriteRegistry(e) ==
    /\ edit[e] \notin {NoEdit, Over}
    /\ registry' = edit[e] /\ edit' = [edit EXCEPT ![e] = Over]
    /\ UNCHANGED <<source, sealed, inbox, cursor, watch, importing, kills>>

-----------------------------------------------------------------------------
(* import_message of message n of c: an active child, and for a completion *)
(* the evidence of _verify_source; otherwise it raises.                    *)
Importable(c, n) ==
    /\ Registered(c)
    /\ source[c][n] = "task_complete" => sealed[c]

(* A bug for comparison: no search for the source identity.                *)
WithMessageAlways(c, n) == Append(inbox, Msg(c, n))

(* The journal transaction: a source identity is recorded once.            *)
WithMessage(c, n) == IF Imported(c, n) THEN inbox ELSE Append(inbox, Msg(c, n))

(* import_registered for a child: its journal from the start, no cursor.   *)
ImportBegin(c) ==
    /\ importing = NoImport /\ Registered(c)
    /\ importing' = [child |-> c, next |-> 1, upto |-> Len(source[c])]
    /\ UNCHANGED <<inboxFiles, edit, watch, kills>>

ImportStep ==
    /\ importing \notin {NoImport, Over}
    /\ LET c == importing.child
           n == importing.next
           on == [importing EXCEPT !.next = n + 1]
       IN  IF n > importing.upto THEN importing' = Over /\ UNCHANGED inbox
           ELSE IF source[c][n] \notin EventKind THEN importing' = on /\ UNCHANGED inbox
           ELSE IF Importable(c, n) THEN importing' = on /\ inbox' = WithMessage(c, n)
           ELSE importing' = Over /\ UNCHANGED inbox
    /\ UNCHANGED <<registry, edit, source, sealed, cursor, watch, kills>>

-----------------------------------------------------------------------------
(* watch takes the lease or fails; then it replays again and again.        *)
StartWatch ==
    /\ watch = NoWatch /\ watch' = Between
    /\ UNCHANGED <<inboxFiles, edit, importing, kills>>

SumOf(f, s) == FoldSeq(LAMBDA c, sum : f[c] + sum, 0, s)

(* replay_registered reads the registry, the cursors and the journals, and *)
(* starts with the child that the progress so far points at.               *)
BeginReplay ==
    LET children == SelectSeq(registry.list, Registered)
        start == IF children = <<>> THEN 0
                 ELSE SumOf(cursor, children) % Len(children)
    IN  /\ watch = Between
        /\ watch' = [step |-> "serve",
                     children |-> SubSeq(children, start + 1, Len(children))
                                  \o SubSeq(children, 1, start),
                     last |-> 0, total |-> 0,
                     at |-> cursor,
                     upto |-> [c \in Child |-> Len(source[c])],
                     done |-> [c \in Child |-> 0]]
        /\ UNCHANGED <<inboxFiles, edit, importing, kills>>

Serviceable(i) ==
    LET c == watch.children[i]
    IN  watch.done[c] < PerChild /\ watch.at[c] < watch.upto[c]

(* The child the round robin comes to next, as a position in children.     *)
NextTurn(i) ==
    LET n == Len(watch.children)
        distance(j) == (j + n - watch.last - 1) % n
    IN  /\ i \in 1..n /\ Serviceable(i)
        /\ \A j \in 1..n : Serviceable(j) => distance(i) <= distance(j)

(* A bug for comparison: an import that raises is passed over.             *)
ServeChildSwallows ==
    /\ watch.step = "serve" /\ watch.total < Batch
    /\ \E i \in DOMAIN watch.children, c \in Child :
          LET n == watch.at[c] + 1
              served == [watch EXCEPT !.step = "cursor", !.last = i]
          IN  /\ watch.children[i] = c /\ NextTurn(i)
              /\ IF source[c][n] \notin EventKind THEN watch' = served /\ UNCHANGED inbox
                 ELSE IF Importable(c, n)
                 THEN watch' = served /\ inbox' = WithMessage(c, n)
                 ELSE watch' = served /\ UNCHANGED inbox
    /\ UNCHANGED <<registry, source, sealed, cursor, edit, importing, kills>>

(* A bug for comparison: a kind that is not delivered raises, too.         *)
ServeChildStrict ==
    /\ watch.step = "serve" /\ watch.total < Batch
    /\ \E i \in DOMAIN watch.children, c \in Child :
          LET n == watch.at[c] + 1
              served == [watch EXCEPT !.step = "cursor", !.last = i]
          IN  /\ watch.children[i] = c /\ NextTurn(i)
              /\ IF source[c][n] \notin EventKind THEN watch' = Between /\ UNCHANGED inbox
                 ELSE IF Importable(c, n)
                 THEN watch' = served /\ inbox' = WithMessage(c, n)
                 ELSE watch' = Between /\ UNCHANGED inbox
    /\ UNCHANGED <<registry, source, sealed, cursor, edit, importing, kills>>

(* One message: imported if its kind is delivered; an import that raises   *)
(* ends the whole replay, and the watch records the error.                 *)
ServeChild ==
    /\ watch.step = "serve" /\ watch.total < Batch
    /\ \E i \in DOMAIN watch.children, c \in Child :
          LET n == watch.at[c] + 1
              served == [watch EXCEPT !.step = "cursor", !.last = i]
          IN  /\ watch.children[i] = c /\ NextTurn(i)
              /\ IF source[c][n] \notin EventKind THEN watch' = served /\ UNCHANGED inbox
                 ELSE IF Importable(c, n)
                 THEN watch' = served /\ inbox' = WithMessage(c, n)
                 ELSE watch' = Between /\ UNCHANGED inbox
    /\ UNCHANGED <<registry, source, sealed, cursor, edit, importing, kills>>

(* The cursor is written after the inbox.                                  *)
WriteCursor ==
    /\ watch.step = "cursor"
    /\ LET c == watch.children[watch.last]
           n == watch.at[c] + 1
       IN  /\ cursor' = [cursor EXCEPT ![c] = n]
           /\ watch' = [watch EXCEPT !.step = "serve", !.total = @ + 1,
                                     !.at[c] = n, !.done[c] = @ + 1]
    /\ UNCHANGED <<registry, source, sealed, inbox, edit, importing, kills>>

(* The replay is over: batch full or nothing left.  The host is notified   *)
(* of what was imported, which changes nothing.                            *)
EndReplay ==
    /\ watch.step = "serve"
    /\ \/ watch.total = Batch
       \/ \A i \in DOMAIN watch.children : ~Serviceable(i)
    /\ watch' = Between
    /\ UNCHANGED <<inboxFiles, edit, importing, kills>>

(* The process dies and the kernel gives the lease back.                   *)
KillWatch ==
    /\ watch # NoWatch /\ kills < MaxKill
    /\ watch' = NoWatch /\ kills' = kills + 1
    /\ UNCHANGED <<inboxFiles, edit, importing>>

-----------------------------------------------------------------------------
(* The children.                                                           *)
Post(c) ==
    /\ Len(source[c]) < Len(Script[c])
    /\ source' = [source EXCEPT ![c] = SubSeq(Script[c], 1, Len(@) + 1)]
    /\ UNCHANGED <<registry, sealed, inbox, cursor, edit, watch, importing, kills>>

Seal(c) ==
    /\ Contains(source[c], "task_complete") /\ ~sealed[c]
    /\ sealed' = [sealed EXCEPT ![c] = TRUE]
    /\ UNCHANGED <<registry, source, inbox, cursor, edit, watch, importing, kills>>

-----------------------------------------------------------------------------
InboxInit ==
    /\ registry = [list |-> <<First>>,
                   state |-> [c \in Child |-> IF c = First THEN "active" ELSE "none"]]
    /\ edit = [e \in Editor |-> NoEdit]
    /\ source = [c \in Child |-> <<>>]
    /\ sealed = [c \in Child |-> FALSE]
    /\ inbox = <<>> /\ cursor = [c \in Child |-> 0]
    /\ watch = NoWatch /\ importing = NoImport /\ kills = 0

WatchStep == StartWatch \/ BeginReplay \/ ServeChild \/ WriteCursor \/ EndReplay

InboxNext ==
    \/ \E e \in Editor :
          \/ \E c \in Child : \/ RegisterRead(e, c)
                              \/ \E s \in {"completed", "abandoned"} : UnregisterRead(e, c, s)
          \/ WriteRegistry(e)
    \/ \E c \in Child : ImportBegin(c) \/ Seal(c) \/ Post(c)
    \/ ImportStep \/ WatchStep \/ KillWatch

(* The watch process runs until it is killed, and is started again.        *)
InboxSpec == InboxInit /\ [][InboxNext]_inboxVars /\ WF_inboxVars(WatchStep)

-----------------------------------------------------------------------------
(* The type invariant; a cursor is never ahead of its journal, which is    *)
(* the state replay_registered refuses to go on from.                      *)
InboxTypeOK ==
    /\ registry.state \in [Child -> ChildState] /\ IsInjective(registry.list)
    /\ inbox \in Seq(SourceMessage)
    /\ cursor \in [Child -> Nat] /\ sealed \in [Child -> BOOLEAN]
    /\ \A c \in Child : source[c] \in Seq(Kind) /\ cursor[c] <= Len(source[c])

(* Whatever was killed, raised, unregistered or imported by hand between:  *)
(* each deliverable message that a cursor has passed is in the inbox.      *)
CursorNeverSkips ==
    \A c \in Child : \A n \in 1..cursor[c] :
        source[c][n] \in EventKind => Imported(c, n)

(* The inbox holds a source message once, and the messages of a child in   *)
(* the order of its journal.                                               *)
InboxOnceInOrder ==
    \A i, j \in 1..Len(inbox) :
        (i < j /\ inbox[i].child = inbox[j].child) => inbox[i].n < inbox[j].n

(* The next message of an active child is a completion without a seal.     *)
Blocked(c) ==
    /\ Registered(c) /\ cursor[c] < Len(source[c])
    /\ source[c][cursor[c] + 1] = "task_complete" /\ ~sealed[c]

(* A message of a child that stays active is imported in the end, however  *)
(* small the batch and however busy the other children, unless some child  *)
(* blocks: its import raises, and takes the other children's turns along.  *)
EveryMessageImported ==
    \A m \in {m \in SourceMessage : Script[m.child][m.n] \in EventKind} :
        (Registered(m.child) /\ m.n <= Len(source[m.child]))
            ~> (\/ Imported(m.child, m.n) \/ ~Registered(m.child)
                \/ \E d \in Child : Blocked(d))

(* The safety of the inbox: nothing skipped, nothing twice, nothing out of *)
(* order.                                                                  *)
InboxSafe == InboxTypeOK /\ CursorNeverSkips /\ InboxOnceInOrder

-----------------------------------------------------------------------------
(* The inductive invariant behind the theorem of EvidenceProofs.           *)

(* The registry, and what a command will write over it.                    *)
RegistryOK(r) ==
    /\ r \in [list : Seq(Child), state : [Child -> ChildState]]
    /\ IsInjective(r.list)
    /\ \A i \in 1..Len(r.list) : r.state[r.list[i]] # "none"

(* What the children have posted is a part of what they will post.         *)
SourcesOK ==
    /\ source \in [Child -> Seq(Kind)]
    /\ \A c \in Child : /\ Len(source[c]) <= Len(Script[c])
                        /\ \A n \in 1..Len(source[c]) : source[c][n] = Script[c][n]

(* Every deliverable message of c up to n is in the inbox.                 *)
ImportedTo(c, n) == \A k \in 1..n : source[c][k] \in EventKind => Imported(c, k)

(* A message in the inbox was posted, and all before it are in the inbox.  *)
NoGaps ==
    \A i \in 1..Len(inbox) :
        /\ inbox[i].n <= Len(source[inbox[i].child])
        /\ ImportedTo(inbox[i].child, inbox[i].n)

(* An import goes through a journal from its start.                        *)
ImportOK ==
    importing \notin {NoImport, Over} =>
        /\ importing \in [child : Child, next : Nat \ {0}, upto : Nat]
        /\ importing.upto <= Len(source[importing.child])
        /\ importing.next <= importing.upto + 1
        /\ ImportedTo(importing.child, importing.next - 1)

(* A replay has the cursors as they are: the watch alone writes them.      *)
ReplayOK ==
    /\ watch.step \in {"off", "between", "serve", "cursor"}
    /\ watch.step \in {"serve", "cursor"} =>
          /\ DOMAIN watch = {"step", "children", "last", "total", "at", "upto", "done"}
          /\ watch.at = cursor /\ watch.upto \in [Child -> Nat]
          /\ \A c \in Child : watch.upto[c] <= Len(source[c])
    /\ watch.step = "cursor" =>
          \E c \in Child : /\ watch.children[watch.last] = c
                           /\ cursor[c] < watch.upto[c] /\ ImportedTo(c, cursor[c] + 1)

InboxInv ==
    /\ InboxSafe /\ SourcesOK /\ NoGaps /\ ImportOK /\ ReplayOK
    /\ RegistryOK(registry) /\ DOMAIN edit = Editor
    /\ \A e \in Editor : edit[e] \notin {NoEdit, Over} => RegistryOK(edit[e])
=============================================================================
