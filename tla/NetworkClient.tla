--------------------------- MODULE NetworkClient ---------------------------
(***************************************************************************)
(* The HTTP calls of one Network: call_client with its retries, the pool   *)
(* of clients that all calls of the network share, the check of a Tor      *)
(* proxy, and the thread that waits for a call with a timeout.             *)
(*                                                                         *)
(* The coroutines run in one event loop (network/client.py, init), so what *)
(* happens between two awaits is one step.  What a server or httpx does    *)
(* with a request is nondeterministic.  Threads that give a call up do not *)
(* cancel it.                                                              *)
(***************************************************************************)
EXTENDS Integers, FiniteSets

CONSTANTS
    Calls,          \* the calls, each made by a thread of its own
    WithCookies,    \* the calls whose kwargs have cookies
    Retries,        \* Network.retries
    NKeys,          \* keys of _clients the address and proxy cycles go through
    None            \* no client, no cookies, no result yet

ASSUME CallsAssumption == WithCookies \subseteq Calls /\ None \notin Calls
ASSUME RetriesAssumption == Retries \in Nat
ASSUME KeysAssumption == NKeys \in Nat \ {0}

VARIABLES
    tor,        \* using_tor_proxy
    torResult,  \* _TOR_CHECK_RESULT of the proxies
    turn,       \* the key the cycles give next
    clients,    \* _clients: the client of each key, 0 when there is none
    made,       \* how many clients were made; they are numbered
    open,       \* the clients that are not closed
    jar,        \* client.cookies: the call whose cookies a client holds
    dropped,    \* done() has closed the network
    pc,         \* where the coroutine of a call is
    left,       \* its variable retries
    disc,       \* its variable was_disconnected
    kw,         \* its kwargs still have the cookies
    cl,         \* its client, and the key it has
    key,
    hop,        \* its request was redirected
    carried,    \* the call whose cookies its last request carried
    sent,       \* how many requests it has sent
    result,     \* what it returned
    thread      \* the thread that waits for it

netVars == <<tor, torResult, turn, clients, made, open, jar, dropped>>
callVars == <<pc, left, disc, kw, cl, key, hop, carried, sent, result, thread>>
vars == <<netVars, callVars>>

Keys == 0 .. (NKeys - 1)
Locations == {"idle", "loop", "check", "sent", "ended"}
Results == {"response", "error", "nothing"}

TypeOK ==
    /\ tor \in BOOLEAN /\ torResult \in BOOLEAN \cup {None}
    /\ turn \in Keys /\ made \in Nat
    /\ clients \in [Keys -> 0 .. made]
    /\ open \subseteq 1 .. made
    /\ jar \in [1 .. made -> Calls \cup {None}]
    /\ dropped \in BOOLEAN
    /\ pc \in [Calls -> Locations]
    /\ left \in [Calls -> 0 .. Retries]
    /\ disc \in [Calls -> BOOLEAN] /\ kw \in [Calls -> BOOLEAN]
    /\ cl \in [Calls -> 0 .. made] /\ key \in [Calls -> Keys]
    /\ hop \in [Calls -> BOOLEAN]
    /\ carried \in [Calls -> Calls \cup {None}]
    /\ sent \in [Calls -> Nat]
    /\ result \in [Calls -> Results \cup {None}]
    /\ thread \in [Calls -> {"idle", "waiting", "gaveup", "returned"}]

(* A network before its first call, open or already closed by done().      *)
InitWith(closed) ==
    /\ tor \in BOOLEAN /\ torResult = None
    /\ turn = 0 /\ clients = [k \in Keys |-> 0]
    /\ made = 0 /\ open = {} /\ jar = <<>> /\ dropped = closed
    /\ pc = [c \in Calls |-> "idle"]
    /\ left = [c \in Calls |-> Retries]
    /\ disc = [c \in Calls |-> FALSE]
    /\ kw = [c \in Calls |-> c \in WithCookies]
    /\ cl = [c \in Calls |-> 0] /\ key = [c \in Calls |-> 0]
    /\ hop = [c \in Calls |-> FALSE]
    /\ carried = [c \in Calls |-> None]
    /\ sent = [c \in Calls |-> 0]
    /\ result = [c \in Calls |-> None]
    /\ thread = [c \in Calls |-> "idle"]

Init == InitWith(FALSE)

-----------------------------------------------------------------------------
(* The thread: request() submits the coroutine and waits for its future.   *)

Submit(c) ==
    /\ pc[c] = "idle" /\ ~dropped
    /\ pc' = [pc EXCEPT ![c] = "loop"]
    /\ thread' = [thread EXCEPT ![c] = "waiting"]
    /\ UNCHANGED <<netVars, left, disc, kw, cl, key, hop, carried, sent, result>>

(* future.result(timeout) raises; the coroutine is left alone.             *)
GiveUp(c) ==
    /\ thread[c] = "waiting" /\ pc[c] # "ended"
    /\ thread' = [thread EXCEPT ![c] = "gaveup"]
    /\ UNCHANGED <<netVars, pc, left, disc, kw, cl, key, hop, carried, sent, result>>

Deliver(c) ==
    /\ thread[c] = "waiting" /\ pc[c] = "ended"
    /\ thread' = [thread EXCEPT ![c] = "returned"]
    /\ UNCHANGED <<netVars, pc, left, disc, kw, cl, key, hop, carried, sent, result>>

-----------------------------------------------------------------------------
(* The coroutine.                                                          *)

Ends(c, r) ==
    /\ pc' = [pc EXCEPT ![c] = "ended"]
    /\ result' = [result EXCEPT ![c] = r]

(* The cookies of the kwargs, popped in the first round, replace those of  *)
(* the client; the request is built before anything is awaited.            *)
KeptCookies(c, n) == IF kw[c] THEN c ELSE IF n \in open THEN jar[n] ELSE None
CookiesFor(c, n) == IF kw[c] THEN c ELSE None

Send(c, k, n) ==
    /\ jar' = [m \in 1 .. made' |-> IF m = n THEN CookiesFor(c, n) ELSE jar[m]]
    /\ carried' = [carried EXCEPT ![c] = CookiesFor(c, n)]
    /\ kw' = [kw EXCEPT ![c] = FALSE]
    /\ pc' = [pc EXCEPT ![c] = "sent"]
    /\ cl' = [cl EXCEPT ![c] = n] /\ key' = [key EXCEPT ![c] = k]
    /\ hop' = [hop EXCEPT ![c] = FALSE]
    /\ sent' = [sent EXCEPT ![c] = @ + 1]
    /\ UNCHANGED <<left, disc, result, thread>>

NeverUsable(k) == FALSE
Usable(k) == clients[k] \in open

(* get_client finds an open client of the next key.                        *)
UseClient(c) ==
    /\ pc[c] = "loop" /\ Usable(turn)
    /\ turn' = (turn + 1) % NKeys
    /\ UNCHANGED <<tor, torResult, clients, made, open, dropped>>
    /\ Send(c, turn, clients[turn])

(* get_client makes one, and stores it at once when Tor need not be asked. *)
MakeClient(c) ==
    /\ pc[c] = "loop" /\ ~Usable(turn)
    /\ ~tor \/ torResult = TRUE
    /\ turn' = (turn + 1) % NKeys
    /\ made' = made + 1
    /\ open' = open \cup {made'}
    /\ clients' = [clients EXCEPT ![turn] = made']
    /\ UNCHANGED <<tor, torResult, dropped>>
    /\ Send(c, turn, made')

(* A proxy that is known not to be Tor, or does not resolve names: the new *)
(* client is closed again and the exception leaves call_client.            *)
RefuseClient(c) ==
    /\ pc[c] = "loop" /\ ~Usable(turn)
    /\ tor /\ torResult # TRUE
    /\ turn' = (turn + 1) % NKeys
    /\ Ends(c, "error")
    /\ UNCHANGED <<tor, torResult, clients, made, open, jar, dropped, left,
                   disc, kw, cl, key, hop, carried, sent, thread>>

(* The first client of a Tor proxy asks check.torproject.org.              *)
AskTor(c) ==
    /\ pc[c] = "loop" /\ ~Usable(turn)
    /\ tor /\ torResult = None
    /\ turn' = (turn + 1) % NKeys
    /\ made' = made + 1
    /\ open' = open \cup {made'}
    /\ jar' = [m \in 1 .. made' |-> IF m = made' THEN None ELSE jar[m]]
    /\ pc' = [pc EXCEPT ![c] = "check"]
    /\ cl' = [cl EXCEPT ![c] = made'] /\ key' = [key EXCEPT ![c] = turn]
    /\ UNCHANGED <<tor, torResult, clients, dropped, left, disc, kw, hop,
                   carried, sent, result, thread>>

TorAccepted(c) ==
    /\ pc[c] = "check"
    /\ torResult' = TRUE
    /\ clients' = [clients EXCEPT ![key[c]] = cl[c]]
    /\ UNCHANGED <<tor, turn, made, open, dropped>>
    /\ Send(c, key[c], cl[c])

(* IsTor is false: the client is closed.  The request of the check raises: *)
(* it is not.  Both leave call_client, get_client is outside of its try.   *)
TorRefused(c) ==
    /\ pc[c] = "check"
    /\ \/ torResult' = FALSE /\ open' = open \ {cl[c]}
       \/ UNCHANGED <<torResult, open>>
    /\ Ends(c, "error")
    /\ UNCHANGED <<tor, turn, clients, made, jar, dropped, left, disc, kw, cl,
                   key, hop, carried, sent, thread>>

(* httpx follows a redirect with the cookies its client has by then; one   *)
(* redirect stands for up to max_redirects.                                *)
Redirect(c) ==
    /\ pc[c] = "sent" /\ ~hop[c]
    /\ hop' = [hop EXCEPT ![c] = TRUE]
    /\ carried' = [carried EXCEPT ![c] = jar[cl[c]]]
    /\ UNCHANGED <<netVars, pc, left, disc, kw, cl, key, sent, result, thread>>

Answered(c) ==
    /\ pc[c] = "sent"
    /\ Ends(c, "response")
    /\ UNCHANGED <<netVars, left, disc, kw, cl, key, hop, carried, sent, thread>>

(* An exception call_client does not catch, such as access denied.         *)
Denied(c) ==
    /\ pc[c] = "sent"
    /\ Ends(c, "error")
    /\ UNCHANGED <<netVars, left, disc, kw, cl, key, hop, carried, sent, thread>>

(* A request error, an HTTP error or a status to retry: the error is       *)
(* raised, and the bad status returned, when no retry is left.             *)
OneRoundMore(c) == left[c] < 0
LastRound(c) == left[c] <= 0

Failed(c) ==
    /\ pc[c] = "sent"
    /\ IF LastRound(c)
       THEN /\ \E r \in {"response", "error"} : Ends(c, r)
            /\ UNCHANGED left
       ELSE /\ left' = [left EXCEPT ![c] = @ - 1]
            /\ IF left'[c] >= 0
               THEN pc' = [pc EXCEPT ![c] = "loop"] /\ UNCHANGED result
               ELSE Ends(c, "nothing")
    /\ UNCHANGED <<netVars, disc, kw, cl, key, hop, carried, sent, thread>>

(* RemoteProtocolError: once per call the client is closed, whoever else   *)
(* uses it, and the round repeated without counting it.                    *)
AlwaysRepeated(c) ==
    /\ pc[c] = "sent"
    /\ open' = open \ {cl[c]}
    /\ pc' = [pc EXCEPT ![c] = "loop"]
    /\ UNCHANGED <<tor, torResult, turn, clients, made, jar, dropped, left, disc,
                   kw, cl, key, hop, carried, sent, result, thread>>
Disconnected(c) ==
    /\ pc[c] = "sent" /\ ~disc[c]
    /\ disc' = [disc EXCEPT ![c] = TRUE]
    /\ open' = open \ {cl[c]}
    /\ pc' = [pc EXCEPT ![c] = "loop"]
    /\ UNCHANGED <<tor, torResult, turn, clients, made, jar, dropped, left, kw,
                   cl, key, hop, carried, sent, result, thread>>

(* done(): the clients of _clients are closed; calls that still run go on. *)
Done ==
    /\ ~dropped
    /\ dropped' = TRUE
    /\ open' = open \ {clients[k] : k \in Keys}
    /\ UNCHANGED <<tor, torResult, turn, clients, made, jar, callVars>>

GetClient(c) ==
    UseClient(c) \/ MakeClient(c) \/ RefuseClient(c) \/ AskTor(c)
CheckEnds(c) == TorAccepted(c) \/ TorRefused(c)
RequestEnds(c) == Answered(c) \/ Denied(c) \/ Failed(c) \/ Disconnected(c)

Coroutine(c) == GetClient(c) \/ CheckEnds(c) \/ Redirect(c) \/ RequestEnds(c)

Next ==
    \/ \E c \in Calls : Submit(c) \/ GiveUp(c) \/ Deliver(c) \/ Coroutine(c)
    \/ Done

Spec == Init /\ [][Next]_vars

(* The loop runs every coroutine that can go on, and every request ends:   *)
(* httpx has a timeout for each.                                           *)
Fairness ==
    \A c \in Calls :
        /\ WF_vars(GetClient(c))
        /\ WF_vars(CheckEnds(c))
        /\ WF_vars(RequestEnds(c))

FairSpec == Spec /\ Fairness

-----------------------------------------------------------------------------
(* A call sends one request, one more for each retry and one more for a    *)
(* disconnect, whether or not its thread still waits (network.py,          *)
(* call_client: the disconnect is repeated without counting it).           *)
RequestsBounded ==
    \A c \in Calls : sent[c] <= Retries + 1 + (IF disc[c] THEN 1 ELSE 0)

(* All calls of a network share a client and its cookies.  A request       *)
(* carries the cookies of another call only after a redirect               *)
(* (network.py, call_client: cookies are set before every request).        *)
ForeignCookiesNeedRedirect ==
    \A c \in Calls : carried[c] \notin {c, None} => hop[c]

(* A client that is open but neither in _clients nor held by a check is    *)
(* never closed (network.py, done: "Close all HTTP client").  Only the     *)
(* check of a Tor proxy can leave one behind: it raises, or two calls make *)
(* a client for one key while they wait for their checks.                  *)
Held == {clients[k] : k \in Keys} \cup {cl[c] : c \in {d \in Calls : pc[d] = "check"}}
LostClientNeedsTor == open \ Held # {} => tor

(* A call that was submitted ends with a response or an exception, never   *)
(* with the None behind the loop of call_client, even after its thread     *)
(* gave it up.                                                             *)
CallsEnd ==
    \A c \in Calls : pc[c] = "loop" ~> result[c] \in {"response", "error"}
=============================================================================
