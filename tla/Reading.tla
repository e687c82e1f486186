-------------------------------- MODULE Reading --------------------------------
(***************************************************************************)
(* What callers read of the conversations while uploads store new ones,    *)
(* users delete and audits judge: the listing of a project page by page,   *)
(* each page a request of its own with the cursor of the last; the listing *)
(* of everything grouped by upload, two statements; the detail of one      *)
(* conversation, four statements.  A statement sees what is committed then *)
(* (READ COMMITTED), less what the filter of soft-deleted rows and the row *)
(* policies hide.                                                          *)
(*                                                                         *)
(* A conversation is the number of its random id among the ids; audits are *)
(* numbered by created_at, the start of the transaction that stored their  *)
(* verdicts.  Columns that are only displayed are left out.                *)
(***************************************************************************)
EXTENDS Access, FiniteSets

CONSTANTS Convs,      \* the ids of conversations, stored or still to be
          Uploads,    \* the uploads, whose tasks are running
          Projects,
          UploadOf,   \* the upload of a conversation
          ProjectOf,  \* the project of an upload
          Own,        \* the projects of the callers' organization
          Allowed,    \* the projects their tokens or users rows list
          Limits,     \* the page sizes a caller asks for
          Audits,     \* the audits, by the created_at of their verdicts
          Judged,     \* the conversations they judge
          Messages,   \* the messages of a conversation
          None        \* no cursor

ASSUME ReadingAssumption ==
  /\ IsFiniteSet(Convs) /\ Convs \subseteq Nat
  /\ UploadOf \in [Convs -> Uploads]
  /\ ProjectOf \in [Uploads -> Projects]
  /\ Limits \subseteq Nat \ {0}
  /\ IsFiniteSet(Audits) /\ Audits \subseteq Nat \ {0}
  /\ Judged \subseteq Convs
  /\ None \notin Convs

VARIABLES
  stored,     \* conversations whose row is committed
  gone,       \* soft-deleted projects, uploads and conversations, each tagged
  evaluated,  \* conversations with an evaluations row
  verdicts,   \* <<audit, conversation, message>>: the live message verdicts
  reading,    \* what a caller reads: [kind, of]
  step,       \* the next statement of its request
  cursor,     \* listing: the cursor of the next page, None before the first
  times,      \* how many times the answers so far show a conversation
  ids,        \* grouped listing: upload_ids
  found,      \* detail: the messages read
  scored,     \* detail: whether an evaluation was read
  labels,     \* detail: the audit whose verdict a message shows, 0 if none
  steady,     \* history: visible from the start of the reading until now
  known       \* history: the rows of the detail when its reading began

rows    == <<stored, gone, evaluated, verdicts>>
answer  == <<cursor, times, ids, found, scored, labels>>
history == <<steady, known>>
vars    == <<accessVars, rows, reading, step, answer, history>>

Nothing   == [kind |-> "nothing", of |-> None]
Unshown   == [c \in Convs |-> 0]
Unlabeled == [i \in Messages |-> 0]
Unknown   == [scored |-> FALSE, verdicts |-> {}]

ProjectOfConv(c) == ProjectOf[UploadOf[c]]

\* The two policies of a table are permissive: a row passes if either holds.
Visible(p) == p \in Own \cup Allowed

LiveProject(p) == Visible(p) /\ <<"project", p>> \notin gone
LiveUpload(u)  == Visible(ProjectOf[u]) /\ <<"upload", u>> \notin gone
LiveConv(c)    == c \in stored /\ Visible(ProjectOfConv(c)) /\ <<"conv", c>> \notin gone

Init ==
  /\ AccessInit
  /\ stored \in SUBSET Convs
  /\ gone = {}
  /\ evaluated = {}
  /\ verdicts = {}
  /\ reading = [r \in Callers |-> Nothing]
  /\ step = [r \in Callers |-> "none"]
  /\ cursor = [r \in Callers |-> None]
  /\ times = [r \in Callers |-> Unshown]
  /\ ids = [r \in Callers |-> {}]
  /\ found = [r \in Callers |-> {}]
  /\ scored = [r \in Callers |-> FALSE]
  /\ labels = [r \in Callers |-> Unlabeled]
  /\ steady = [r \in Callers |-> {}]
  /\ known = [r \in Callers |-> Unknown]
-----------------------------------------------------------------------------
(* The writers, at the commits of their transactions.                      *)

\* The worker of an upload: it has read the upload before, deleted since or not.
StoreConversation(c) ==
  /\ c \notin stored
  /\ stored' = stored \cup {c}
  /\ UNCHANGED <<accessVars, gone, evaluated, verdicts, reading, step, answer, history>>

\* The worker of an audit: the verdicts of the messages the judge returned.
JudgeConversation(a, c) ==
  /\ c \in stored \cap Judged
  /\ \A v \in verdicts : ~(v[1] = a /\ v[2] = c)
  /\ \E some \in SUBSET Messages :
       verdicts' = verdicts \cup {<<a, c, i>> : i \in some}
  /\ evaluated' = evaluated \cup {c}
  /\ UNCHANGED <<accessVars, stored, gone, reading, step, answer, history>>

\* A delete flags its root and the rows it finds, their verdicts included.  What is
\* hidden with it has not been visible all the while, found or not: the grouped
\* listing needs the upload and the project too.
StaysVisible(r, c, doomed) ==
  /\ <<"conv", c>> \notin doomed
  /\ reading[r].kind = "groups" => /\ <<"upload", UploadOf[c]>> \notin doomed
                                   /\ <<"project", ProjectOfConv(c)>> \notin doomed

Delete(doomed) ==
  /\ gone' = gone \cup doomed
  /\ verdicts' = {v \in verdicts : <<"conv", v[2]>> \notin doomed}
  /\ steady' = [r \in Callers |-> {c \in steady[r] : StaysVisible(r, c, doomed)}]
  /\ UNCHANGED <<accessVars, stored, evaluated, reading, step, answer, known>>

DeleteConversation(c) == LiveConv(c) /\ Delete({<<"conv", c>>})

\* The conversations below the uploads S, but for those stored while it ran.
Below(S) == {d \in stored : UploadOf[d] \in S}
Tagged(cs) == {<<"conv", c>> : c \in cs}

DeleteUpload(u) ==
  /\ LiveUpload(u)
  /\ \E seen \in SUBSET Below({u}) : Delete({<<"upload", u>>} \cup Tagged(seen))

DeleteProject(p) ==
  LET S == {u \in Uploads : ProjectOf[u] = p}
  IN  /\ LiveProject(p)
      /\ \E seen \in SUBSET Below(S) :
           Delete({<<"project", p>>} \cup {<<"upload", u>> : u \in S} \cup Tagged(seen))
-----------------------------------------------------------------------------
(* The callers.                                                            *)

\* What is visible when a reading begins, for the properties.
Scope(what) ==
  CASE what.kind = "list"   -> {c \in Convs : LiveConv(c) /\ ProjectOfConv(c) = what.of}
    [] what.kind = "groups" -> {c \in Convs : /\ LiveConv(c)
                                              /\ LiveUpload(UploadOf[c])
                                              /\ LiveProject(ProjectOfConv(c))}
    [] OTHER                -> {}

FirstStatement(what) ==
  CASE what.kind = "list" -> "project" [] what.kind = "groups" -> "uploads" [] OTHER -> "conv"

Readings == {[kind |-> "list", of |-> p] : p \in Projects}
            \cup {[kind |-> "detail", of |-> c] : c \in Judged}
            \cup {[kind |-> "groups", of |-> None]}

\* A caller decides what to read; its first request is still to be let in.
Begin(r, what) ==
  /\ reading[r] = Nothing
  /\ reading' = [reading EXCEPT ![r] = what]
  /\ step' = [step EXCEPT ![r] = FirstStatement(what)]
  /\ steady' = [steady EXCEPT ![r] = Scope(what)]
  /\ known' = [known EXCEPT ![r] = [scored   |-> what.of \in evaluated,
                                    verdicts |-> {v \in verdicts : v[2] = what.of}]]
  /\ UNCHANGED <<accessVars, rows, answer>>

\* A request is served from its first statement to its answer.
Serving(r, kind, name) ==
  /\ access[r] = "in"
  /\ reading[r].kind = kind
  /\ step[r] = name

\* 404: the root of the reading is not visible.
NotFound(r) ==
  /\ access[r] = "in"
  /\ \/ step[r] = "project" /\ ~LiveProject(reading[r].of)
     \/ step[r] = "conv" /\ ~LiveConv(reading[r].of)
  /\ step' = [step EXCEPT ![r] = "missing"]
  /\ Leave(r)
  /\ UNCHANGED <<rows, reading, answer, history>>

FindProject(r) ==
  /\ Serving(r, "list", "project")
  /\ LiveProject(reading[r].of)
  /\ step' = [step EXCEPT ![r] = "page"]
  /\ UNCHANGED <<accessVars, rows, reading, answer, history>>

\* The SELECT of a page: the rows of the project under the cursor, the highest
\* ids first, one more than the limit.
Listed(p) == {c \in Convs : LiveConv(c) /\ ProjectOfConv(c) = p}
Under(r) == {c \in Listed(reading[r].of) : cursor[r] = None \/ c < cursor[r]}
Top(S, n) == {c \in S : Cardinality({d \in S : d > c}) < n}
HasMore(S, n) == Cardinality(S) > n
Lowest(S) == CHOOSE c \in S : \A d \in S : c <= d

\* Bug: the cursor is the row that was fetched to see whether there are more.
NextCursor_Extra(S, n) == Lowest(Top(S, n + 1))

NextCursor(S, n) == Lowest(Top(S, n))

\* The answer with a page: next_cursor if there are more rows, else the end.
ReadPage(r, n) ==
  LET S == Under(r)
  IN  /\ Serving(r, "list", "page")
      /\ times' = [times EXCEPT ![r] = [c \in Convs |-> IF c \in Top(S, n) THEN @[c] + 1 ELSE @[c]]]
      /\ \/ /\ HasMore(S, n)
            /\ cursor' = [cursor EXCEPT ![r] = NextCursor(S, n)]
            /\ step' = [step EXCEPT ![r] = "project"]
         \/ /\ ~HasMore(S, n)
            /\ cursor' = cursor
            /\ step' = [step EXCEPT ![r] = "done"]
      /\ Leave(r)
      /\ UNCHANGED <<rows, reading, ids, found, scored, labels, history>>

\* The grouped listing: the uploads with their projects.
ReadUploads(r) ==
  /\ Serving(r, "groups", "uploads")
  /\ ids' = [ids EXCEPT ![r] = {u \in Uploads : LiveUpload(u) /\ LiveProject(ProjectOf[u])}]
  /\ step' = [step EXCEPT ![r] = "grouped"]
  /\ UNCHANGED <<accessVars, rows, reading, cursor, times, found, scored, labels, history>>

\* Then the conversations of those uploads.
ReadGrouped(r) ==
  /\ Serving(r, "groups", "grouped")
  /\ times' = [times EXCEPT ![r] =
       [c \in Convs |-> IF LiveConv(c) /\ UploadOf[c] \in ids[r] THEN 1 ELSE 0]]
  /\ step' = [step EXCEPT ![r] = "done"]
  /\ Leave(r)
  /\ UNCHANGED <<rows, reading, cursor, ids, found, scored, labels, history>>

FindConversation(r) ==
  /\ Serving(r, "detail", "conv")
  /\ LiveConv(reading[r].of)
  /\ step' = [step EXCEPT ![r] = "messages"]
  /\ UNCHANGED <<accessVars, rows, reading, answer, history>>

ReadMessages(r) ==
  /\ Serving(r, "detail", "messages")
  /\ found' = [found EXCEPT ![r] = IF LiveConv(reading[r].of) THEN Messages ELSE {}]
  /\ step' = [step EXCEPT ![r] = "evaluation"]
  /\ UNCHANGED <<accessVars, rows, reading, cursor, times, ids, scored, labels, history>>

\* The evaluations row is flagged with its conversation.
ReadEvaluation(r) ==
  /\ Serving(r, "detail", "evaluation")
  /\ scored' = [scored EXCEPT ![r] = LiveConv(reading[r].of) /\ reading[r].of \in evaluated]
  /\ step' = [step EXCEPT ![r] = "verdicts"]
  /\ UNCHANGED <<accessVars, rows, reading, cursor, times, ids, found, labels, history>>

\* Bug: the first verdict of a message is kept.
Shown_First(S) == CHOOSE a \in S : \A b \in S : a <= b

\* In the order of created_at, each verdict of a message replaces the one before.
Shown(S) == CHOOSE a \in S : \A b \in S : a >= b

JudgedBy(c, i) == {a \in Audits : <<a, c, i>> \in verdicts}

ReadVerdicts(r) ==
  /\ Serving(r, "detail", "verdicts")
  /\ labels' = [labels EXCEPT ![r] = [i \in Messages |->
       LET S == JudgedBy(reading[r].of, i)
       IN  IF i \in found[r] /\ S # {} THEN Shown(S) ELSE 0]]
  /\ step' = [step EXCEPT ![r] = "done"]
  /\ Leave(r)
  /\ UNCHANGED <<rows, reading, cursor, times, ids, found, scored, history>>

\* A refused caller tries again: the next page with the same cursor.
Retry(r) ==
  /\ access[r] = "refused"
  /\ Leave(r)
  /\ UNCHANGED <<rows, reading, step, answer, history>>

\* The reading is over, or the caller gives up.
Close(r) ==
  /\ reading[r] # Nothing
  /\ access[r] \in Outside
  /\ reading' = [reading EXCEPT ![r] = Nothing]
  /\ step' = [step EXCEPT ![r] = "none"]
  /\ cursor' = [cursor EXCEPT ![r] = None]
  /\ times' = [times EXCEPT ![r] = Unshown]
  /\ ids' = [ids EXCEPT ![r] = {}]
  /\ found' = [found EXCEPT ![r] = {}]
  /\ scored' = [scored EXCEPT ![r] = FALSE]
  /\ labels' = [labels EXCEPT ![r] = Unlabeled]
  /\ steady' = [steady EXCEPT ![r] = {}]
  /\ known' = [known EXCEPT ![r] = Unknown]
  /\ UNCHANGED <<accessVars, rows>>

-----------------------------------------------------------------------------
Writers ==
  \/ \E c \in Convs : StoreConversation(c) \/ DeleteConversation(c)
  \/ \E a \in Audits, c \in Convs : JudgeConversation(a, c)
  \/ \E u \in Uploads : DeleteUpload(u)
  \/ \E p \in Projects : DeleteProject(p)

\* A caller asks to be let in only for a reading that has statements left.
Waiting(r) == step[r] \notin {"none", "done", "missing"}

Entering ==
  /\ AccessStep
  /\ \A r \in Callers : access'[r] # access[r] => Waiting(r)
  /\ UNCHANGED <<rows, reading, step, answer, history>>

Caller(r) ==
  \/ \E what \in Readings : Begin(r, what)
  \/ NotFound(r) \/ FindProject(r)
  \/ \E n \in Limits : ReadPage(r, n)
  \/ ReadUploads(r) \/ ReadGrouped(r)
  \/ FindConversation(r) \/ ReadMessages(r) \/ ReadEvaluation(r) \/ ReadVerdicts(r)
  \/ Retry(r) \/ Close(r)

Next == Entering \/ Writers \/ \E r \in Callers : Caller(r)

Spec == Init /\ [][Next]_vars
-----------------------------------------------------------------------------
(* Properties.                                                             *)

Steps == {"none", "project", "page", "uploads", "grouped", "conv", "messages",
          "evaluation", "verdicts", "done", "missing"}

TypeOK ==
  /\ AccessTypeOK
  /\ stored \subseteq Convs
  /\ evaluated \subseteq Convs
  /\ verdicts \subseteq Audits \X Convs \X Messages
  /\ reading \in [Callers -> Readings \cup {Nothing}]
  /\ step \in [Callers -> Steps]
  /\ cursor \in [Callers -> Convs \cup {None}]
  /\ times \in [Callers -> [Convs -> Nat]]
  /\ ids \in [Callers -> SUBSET Uploads]
  /\ found \in [Callers -> SUBSET Messages]
  /\ scored \in [Callers -> BOOLEAN]
  /\ labels \in [Callers -> [Messages -> Audits \cup {0}]]
  /\ steady \in [Callers -> SUBSET Convs]
  /\ known \in [Callers -> [scored : BOOLEAN, verdicts : SUBSET (Audits \X Convs \X Messages)]]

\* A listing that was read to its end, over as many pages and refused requests
\* as it took, or the grouped one, shows every conversation that was visible
\* all the while, and none twice, whatever was stored and deleted meanwhile.
NothingMissed ==
  \A r \in Callers : step[r] = "done" /\ reading[r].kind \in {"list", "groups"} =>
    \A c \in Convs : times[r][c] <= 1 /\ (c \in steady[r] => times[r][c] = 1)

\* "ultimo por mensaje, de la auditoria mas reciente": the detail of a
\* conversation that is still there is no older than its request, although an
\* audit may commit between its statements: each message shows a verdict at
\* least as recent as any it had then, and the evaluation is not missing.
DetailIsCurrent ==
  \A r \in Callers :
    LET c == reading[r].of
    IN  step[r] = "done" /\ reading[r].kind = "detail" /\ <<"conv", c>> \notin gone =>
          /\ known[r].scored => scored[r]
          /\ \A v \in known[r].verdicts : labels[r][v[3]] >= v[1]
=============================================================================
