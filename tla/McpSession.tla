------------------------------ MODULE McpSession ------------------------------
(***************************************************************************)
(* The session of one MCP server (app/gateway/mcp_transport.py, and the    *)
(* endpoints of routers/mcp.py that use it): tool calls made concurrently, *)
(* each of which opens a session when none is stored; the operator's       *)
(* forced initialize; a cancellation; and a server that may rename,        *)
(* forget or refuse a session.                                             *)
(*                                                                         *)
(* A McpSession is an object that the store and the calls share, and a     *)
(* call changes it in place, so the model keeps the objects apart from the *)
(* identifiers in them.  An object is named by the call that made it.      *)
(* A step ends where the code awaits the server; the server takes a        *)
(* request, and the gateway reads the answer, in steps of their own.       *)
(***************************************************************************)
EXTENDS Naturals, FiniteSets

CONSTANTS
    Tool,      \* POST /mcp/tools/{tool_name}/call with a server that wants sessions
    Opener,    \* POST /mcp/servers/{server_name}/initialize
    Canceller, \* POST /mcp/servers/{server_name}/cancel
    Offers,    \* the sets of capabilities the server may have
    Expected,  \* the one whose digest is configured
    MaxIds,    \* bound: session identifiers the server hands out
    None       \* no object

Actor == Tool \cup Opener \cup Canceller
Ids == 1..MaxIds

\* No Mcp-Session-Id header.
Absent == 0

ASSUME McpAssumption ==
    /\ IsFiniteSet(Actor)
    /\ Tool \cap Opener = {} /\ Tool \cap Canceller = {} /\ Opener \cap Canceller = {}
    /\ Expected \in Offers
    /\ MaxIds \in Nat
    /\ None \notin Actor

VARIABLES
    pc,      \* where each handler is
    stored,  \* the object in the store
    object,  \* the session_id in the object each actor made
    ref,     \* the object a handler has in its hands
    header,  \* Mcp-Session-Id of the answer on its way to each actor
    outcome  \* what that answer holds: a result, a JSON-RPC error, or rubbish

gateway == <<stored, object, ref>>

\* The MCP server.
VARIABLES
    issued,  \* identifiers handed out so far
    live,    \* those it accepts
    offer    \* its capabilities now

\* History, read by the server's steps and the properties.
VARIABLES
    sent,     \* the identifier each request was sent with
    root,     \* the session an identifier names, by its first identifier
    opened,   \* the capabilities the server answered when it opened the session
    told,     \* identifiers the gateway read a replacement for
    reported  \* the session_id in the response and in the audit event

answer == <<header, outcome>>
server == <<issued, live, offer, root, opened>>
history == <<sent, told, reported>>
vars == <<pc, gateway, answer, server, history>>

Stages == {"new", "opening", "opened", "notifying", "calling", "answered", "refused",
           "cancelling", "deleting", "done", "failed"}
Outcomes == {"result", "error", "garbled"}

Go(a, stage) == pc' = [pc EXCEPT ![a] = stage]

-----------------------------------------------------------------------------
(* Opening a session                                                       *)

\* The headers are built when the request is sent, from the object as it is then.
SendTool(a, o) ==
    /\ ref' = [ref EXCEPT ![a] = o]
    /\ sent' = [sent EXCEPT ![a] = object[o]]
    /\ Go(a, "calling")

\* Governance refuses the tool, or the credential cannot be resolved.
Refuse(a) ==
    /\ pc[a] = "new"
    /\ Go(a, "failed")
    /\ UNCHANGED <<gateway, answer, server, history>>

\* A tool call that was let through and finds a session: nothing is awaited
\* between the look-up and the post.
CallInSession(a) ==
    /\ a \in Tool
    /\ pc[a] = "new"
    /\ stored # None
    /\ SendTool(a, stored)
    /\ UNCHANGED <<stored, object, answer, server, told, reported>>

\* It finds none, or the operator asks for a new one.
Initialize(a) ==
    /\ pc[a] = "new"
    /\ \/ a \in Tool /\ stored = None
       \/ a \in Opener
    /\ Go(a, "opening")
    /\ UNCHANGED <<gateway, answer, server, history>>

\* The post fails, or its answer is lost, is not JSON, or is an error.
InitializeFails(a) ==
    /\ pc[a] \in {"opening", "opened"}
    /\ Go(a, "failed")
    /\ UNCHANGED <<gateway, answer, server, history>>

BugMismatch(id) == stored # None /\ opened[root[object[stored]]] # Expected

Mismatch(id) == opened[root[id]] # Expected

\* The answer to initialize.  A session whose capabilities do not have the
\* configured digest is refused before it is stored.
ReadInitialize(a) ==
    /\ pc[a] = "opened"
    /\ \/ /\ Mismatch(header[a])
          /\ Go(a, "failed")
          /\ UNCHANGED gateway
       \/ /\ ~ Mismatch(header[a])
          /\ object' = [object EXCEPT ![a] = header[a]]
          /\ stored' = a
          /\ ref' = [ref EXCEPT ![a] = a]
          /\ Go(a, "notifying")
    /\ UNCHANGED <<answer, server, history>>

\* notifications/initialized is over, whether or not it worked: a tool call goes
\* on with the object it made, the operator is answered.
Notified(a) ==
    /\ pc[a] = "notifying"
    /\ \/ /\ a \in Tool
          /\ SendTool(a, ref[a])
       \/ /\ a \in Opener
          /\ Go(a, "done")
          /\ UNCHANGED <<ref, sent>>
    /\ UNCHANGED <<stored, object, answer, server, told, reported>>

-----------------------------------------------------------------------------
(* Calling a tool                                                          *)

\* A timeout, a broken connection, or a status that raise_for_status() refuses:
\* the session is not looked at.
CallFails(a) ==
    /\ pc[a] \in {"calling", "answered", "refused"}
    /\ Go(a, "failed")
    /\ UNCHANGED <<gateway, answer, server, history>>

\* The same, but into whatever object is stored now.
BugRefresh(a) ==
    /\ object' = [object EXCEPT ![stored] = header[a]]
    /\ UNCHANGED stored

\* The identifier in the answer goes into the object the call was sent with, and
\* that object into the store.
Refresh(a) ==
    /\ object' = [object EXCEPT ![ref[a]] = header[a]]
    /\ stored' = ref[a]

\* An answer that is an error raises before its identifier is looked at.
BugRefreshes(a) == header[a] # Absent /\ outcome[a] = "result"

Refreshes(a) == header[a] # Absent /\ outcome[a] # "garbled"

\* The body is parsed first, the identifier is read next, and the error last.
ReadAnswer(a) ==
    /\ pc[a] = "answered"
    /\ IF Refreshes(a) THEN Refresh(a) ELSE UNCHANGED <<object, stored>>
    /\ told' = IF outcome[a] # "garbled" /\ header[a] \notin {Absent, sent[a]}
               THEN told \cup {sent[a]} ELSE told
    /\ \/ /\ outcome[a] = "result"
          /\ reported' = [reported EXCEPT ![a] = object'[ref[a]]]
          /\ Go(a, "done")
       \/ /\ outcome[a] # "result"
          /\ UNCHANGED reported
          /\ Go(a, "failed")
    /\ UNCHANGED <<ref, answer, server, sent>>

-----------------------------------------------------------------------------
(* Cancelling                                                              *)

\* The session is the one stored now, not the one the cancelled call used.
Cancel(a) ==
    /\ a \in Canceller
    /\ pc[a] = "new"
    /\ sent' = [sent EXCEPT ![a] = IF stored = None THEN Absent ELSE object[stored]]
    /\ Go(a, "cancelling")
    /\ UNCHANGED <<gateway, answer, server, told, reported>>

\* A status of 400 and above is followed by a DELETE of the whole session.
CancelAnswered(a) ==
    /\ pc[a] = "cancelling"
    /\ \/ Go(a, "done")
       \/ Go(a, "failed")
       \/ sent[a] # Absent /\ Go(a, "deleting")
    /\ UNCHANGED <<gateway, answer, server, history>>

\* The store keeps the object whether or not the server has deleted its session.
Delete(a) ==
    /\ pc[a] = "deleting"
    /\ live' \in {live, live \ {sent[a]}}
    /\ \E stage \in {"done", "failed"} : Go(a, stage)
    /\ UNCHANGED <<gateway, answer, issued, offer, root, opened, history>>

-----------------------------------------------------------------------------
(* The MCP server                                                          *)

Fresh == issued + 1
CanIssue == issued < MaxIds

ServerOpens(a) ==
    /\ pc[a] = "opening"
    /\ CanIssue
    /\ issued' = Fresh
    /\ live' = live \cup {Fresh}
    /\ root' = [root EXCEPT ![Fresh] = Fresh]
    /\ opened' = [opened EXCEPT ![Fresh] = offer]
    /\ header' = [header EXCEPT ![a] = Fresh]
    /\ Go(a, "opened")
    /\ UNCHANGED <<gateway, outcome, offer, history>>

\* It runs the tool in a session it knows; the answer has no session header, or
\* repeats the one it was sent.
ServerAnswers(a) ==
    /\ pc[a] = "calling"
    /\ sent[a] \in live
    /\ \E id \in {Absent, sent[a]} : header' = [header EXCEPT ![a] = id]
    /\ \E what \in Outcomes : outcome' = [outcome EXCEPT ![a] = what]
    /\ Go(a, "answered")
    /\ UNCHANGED <<gateway, server, history>>

\* It gives the session a new identifier; the old one is good no more, or stays
\* good until it expires.
ServerRenames(a) ==
    /\ pc[a] = "calling"
    /\ sent[a] \in live
    /\ CanIssue
    /\ issued' = Fresh
    /\ live' \in {live \cup {Fresh}, (live \ {sent[a]}) \cup {Fresh}}
    /\ root' = [root EXCEPT ![Fresh] = root[sent[a]]]
    /\ header' = [header EXCEPT ![a] = Fresh]
    /\ \E what \in Outcomes : outcome' = [outcome EXCEPT ![a] = what]
    /\ Go(a, "answered")
    /\ UNCHANGED <<gateway, offer, opened, history>>

ServerRefuses(a) ==
    /\ pc[a] = "calling"
    /\ sent[a] \notin live
    /\ Go(a, "refused")
    /\ UNCHANGED <<gateway, answer, server, history>>

ServerForgets(id) ==
    /\ id \in live
    /\ live' = live \ {id}
    /\ UNCHANGED <<pc, gateway, answer, issued, offer, root, opened, history>>

\* The server is upgraded or replaced.
ServerChanges ==
    /\ \E o \in Offers \ {offer} : offer' = o
    /\ UNCHANGED <<pc, gateway, answer, issued, live, root, opened, history>>

-----------------------------------------------------------------------------
Init ==
    /\ pc = [a \in Actor |-> "new"]
    /\ stored = None
    /\ object = [a \in Actor |-> Absent]
    /\ ref = [a \in Actor |-> None]
    /\ header = [a \in Actor |-> Absent]
    /\ outcome = [a \in Actor |-> "result"]
    /\ issued = 0
    /\ live = {}
    /\ offer \in Offers
    /\ sent = [a \in Actor |-> Absent]
    /\ root = [id \in Ids |-> Absent]
    /\ opened = [id \in Ids |-> Expected]
    /\ told = {}
    /\ reported = [a \in Actor |-> Absent]

Handle(a) ==
    \/ Refuse(a) \/ CallInSession(a)
    \/ Initialize(a) \/ InitializeFails(a) \/ ReadInitialize(a) \/ Notified(a)
    \/ CallFails(a) \/ ReadAnswer(a)
    \/ Cancel(a) \/ CancelAnswered(a) \/ Delete(a)

Serve(a) == ServerOpens(a) \/ ServerAnswers(a) \/ ServerRenames(a) \/ ServerRefuses(a)

Next ==
    \/ \E a \in Actor : Handle(a) \/ Serve(a)
    \/ \E id \in Ids : ServerForgets(id)
    \/ ServerChanges

Spec == Init /\ [][Next]_vars

-----------------------------------------------------------------------------
(* Properties                                                              *)

\* Every variable has its type, and the server only knows identifiers it issued.
TypeOK ==
    /\ pc \in [Actor -> Stages]
    /\ stored \in Actor \cup {None}
    /\ object \in [Actor -> {Absent} \cup Ids]
    /\ ref \in [Actor -> Actor \cup {None}]
    /\ header \in [Actor -> {Absent} \cup Ids]
    /\ outcome \in [Actor -> Outcomes]
    /\ issued \in 0..MaxIds
    /\ live \subseteq 1..issued
    /\ offer \in Offers
    /\ sent \in [Actor -> {Absent} \cup Ids]
    /\ root \in [Ids -> {Absent} \cup Ids]
    /\ opened \in [Ids -> Offers]
    /\ told \subseteq Ids
    /\ reported \in [Actor -> {Absent} \cup Ids]

\* No tool runs in a session whose capabilities differ from the configured digest,
\* whoever opened it, whatever the server offers by then, and under every name the
\* server has given it since.
PinnedSession ==
    \A a \in Tool : sent[a] # Absent => opened[root[sent[a]]] = Expected

\* The session a response and its audit event name is the one the tool ran in, or
\* its later name: the shared object may be renamed by another call, and the store
\* replaced by the operator, while the call is out.
ReportedSession ==
    \A a \in Tool : reported[a] # Absent => root[reported[a]] = root[sent[a]]

\* A gateway that was told the new name of a session goes on with it.  Only two
\* calls sent under the old name can bring that one back: the answer of the one
\* repeats it, and is read after the answer of the other has replaced it.
FollowsRenaming ==
    \A o \in Actor :
        object[o] \in told =>
            \E a, b \in Tool :
                /\ a # b /\ sent[a] = object[o] /\ sent[b] = object[o]
                /\ header[a] = object[o] /\ header[b] \notin {Absent, object[o]}
=============================================================================
