---------------------------- MODULE GatewayHealth ---------------------------
(***************************************************************************)
(* The gateway's health page: the dictionary that gateway.py's main hands  *)
(* to make_health_server (src/gateway/gateway.py, src/common/health.py).   *)
(*                                                                         *)
(* The page is put together by an HTTP thread that calls is_established,   *)
(* reads session_id, calls is_established again and reads state, while the *)
(* senders and the reconnector of CloudChannel change these fields.  Every *)
(* read is a step.  An HTTP thread writes nothing that another reads, so   *)
(* one request at a time shows what several do.                            *)
(***************************************************************************)
EXTENDS CloudChannel

VARIABLES
    probe,      \* what the HTTP thread reads next
    call,       \* the key of the page whose is_established() call this is
    page,       \* the page so far
    installed   \* history: sessions installed at some time of the request

http == <<probe, call, page, installed>>
hvars == <<vars, http>>

NoPage == [status |-> FALSE, connected |-> FALSE, id |-> NoSession,
           state |-> "disconnected"]
Page   == [status : BOOLEAN, connected : BOOLEAN,
           id : Session \cup {NoSession}, state : State]
Calls  == {"status", "connected"}

Under == {"state", "sock", "key", "id", "last"}  \* a request is under way

HInit ==
    /\ Init
    /\ probe = "idle"
    /\ call = "status"
    /\ page = NoPage
    /\ installed = {}

-----------------------------------------------------------------------------
(* do_GET for /health.  The server is started after main has established   *)
(* the first session.                                                      *)
Get ==
    /\ epc[Main] = "done"
    /\ probe = "idle"
    /\ probe' = "state"
    /\ call' = "status"
    /\ page' = NoPage
    /\ installed' = {sock} \ {NoSession}
    /\ UNCHANGED vars

Reading == UNCHANGED <<vars, installed>>

(* is_established returns b.                                               *)
Answer(b) ==
    /\ page' = [page EXCEPT ![call] = b]
    /\ probe' = IF call = "status" THEN "id" ELSE "last"
    /\ UNCHANGED call

(* A field that passes leads to the next one; "and" stops at the first     *)
(* that does not.                                                          *)
Conjunct(holds, next) ==
    \/ /\ holds
       /\ probe' = next
       /\ UNCHANGED <<call, page>>
    \/ /\ ~holds
       /\ Answer(FALSE)

ReadState == probe = "state" /\ Reading /\ Conjunct(state = "established",
                                                    "sock")

(* Mutant: is_established does not look at the socket.                     *)
ReadSockUnchecked == probe = "sock" /\ Reading /\ Conjunct(TRUE, "key")

ReadSock == probe = "sock" /\ Reading /\ Conjunct(sock # NoSession, "key")

ReadSessionKey == probe = "key" /\ Reading /\ Answer(sessionKey # NoSession)

ReadSessionId ==
    /\ probe = "id"
    /\ page' = [page EXCEPT !.id = sessionId]
    /\ probe' = "state"
    /\ call' = "connected"
    /\ Reading

ReadLast ==
    /\ probe = "last"
    /\ page' = [page EXCEPT !.state = state]
    /\ probe' = "done"
    /\ Reading
    /\ UNCHANGED call

(* The page is sent.                                                       *)
Respond ==
    /\ probe = "done"
    /\ probe' = "idle"
    /\ call' = "status"
    /\ page' = NoPage
    /\ installed' = {}
    /\ UNCHANGED vars

Probe == \/ Get \/ ReadState \/ ReadSock \/ ReadSessionKey
         \/ ReadSessionId \/ ReadLast \/ Respond

(* A step of the channel's threads, seen by a request that is under way.   *)
Channel ==
    /\ Next
    /\ \/ /\ probe \in Under
          /\ installed' = installed \cup ({sock'} \ {NoSession})
       \/ /\ probe \notin Under
          /\ UNCHANGED installed
    /\ UNCHANGED <<probe, call, page>>

HNext == Channel \/ Probe

HSpec == HInit /\ [][HNext]_hvars

-----------------------------------------------------------------------------
(* Properties.                                                             *)

(* The HTTP thread's variables have their types.                           *)
HTypeOK ==
    /\ TypeOK
    /\ probe \in Under \cup {"idle", "done"}
    /\ call \in Calls
    /\ page \in Page
    /\ installed \subseteq Session

(* "truthful operational status" (gateway.py:180): a page says ok only if  *)
(* a session was installed at some time of the request; and if it calls the*)
(* channel connected after it has read the session identifier, then this   *)
(* is the identifier of such a session: never that of an attempt which came*)
(* to nothing or of a session dropped before.  More cannot be said of the  *)
(* status: the state may be that of the old session, read before it was    *)
(* marked as failed, and the socket and key those of the next.             *)
ShowsInstalledSession ==
    probe = "done" /\ page.status =>
        /\ installed # {}
        /\ page.connected => page.id \in installed
=============================================================================
