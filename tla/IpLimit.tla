------------------------------ MODULE IpLimit ------------------------------
(***************************************************************************)
(* The limiter: ip_limit.filter_request counts the requests of an IP       *)
(* network in sliding windows, link_token tells browsers from bots by a    *)
(* style sheet they load, and all of it is kept in Valkey.  One network    *)
(* stands for all: they share nothing but the token.                       *)
(*                                                                         *)
(* Several workers serve the network; each command to Valkey, and each     *)
(* script (INCR_SLIDING_WINDOW), is one step.                              *)
(***************************************************************************)
EXTENDS ServerClock, FiniteSets

CONSTANTS
    Clients,            \* browser sessions of the network: the ping keys
    ApiWindow,       ApiMax,                \* API_WINDOW, API_MAX
    BurstWindow,     BurstMax,              \* BURST_WINDOW, BURST_MAX
    LongWindow,      LongMax,               \* LONG_WINDOW, LONG_MAX
    SuspiciousWindow, SuspiciousMax,        \* SUSPICIOUS_IP_WINDOW, .._MAX
    BurstMaxSuspicious, LongMaxSuspicious,  \* BURST_MAX_SUSPICIOUS, LONG_..
    PingLive, TokenLive,                    \* PING_LIVE_TIME, TOKEN_LIVE_TIME
    MaxRequests, MaxTokens                  \* bounds of a behaviour

ASSUME LimitsAssumption ==
    /\ IsFiniteSet(Threads)
    /\ {ApiWindow, ApiMax, BurstWindow, BurstMax, LongWindow, LongMax,
        SuspiciousWindow, SuspiciousMax, BurstMaxSuspicious, LongMaxSuspicious,
        MaxRequests, MaxTokens} \subseteq Nat
    /\ {PingLive, TokenLive} \subseteq Nat \ {0}

VARIABLES
    linkToken,  \* cfg botdetection.ip_limit.link_token
    windows,    \* the sorted set of each window: requests and their times
    pings,      \* when the ping key of a client expires, 0 without one
    tokenKey,   \* the token in Valkey, 0 when it has expired
    tokens,     \* tokens that were stored and whose time is not over
    drawn,      \* how many tokens were drawn
    requests,   \* how many requests were filtered
    refused,    \* the requests that were not let through
    place,      \* what a worker does next
    client,     \* the client it serves
    request     \* the request it filters, or the token it has drawn

valkeyVars == <<windows, pings, tokenKey, tokens>>
limitState == <<linkToken, valkeyVars, drawn, requests, refused, place, client,
                request>>
limitVars == <<now, limitState>>

Windows == {"api", "suspicious", "burst", "long"}
Length(w) ==
    CASE w = "api" -> ApiWindow [] w = "suspicious" -> SuspiciousWindow
      [] w = "burst" -> BurstWindow [] w = "long" -> LongWindow
MaxOf(w) ==
    CASE w = "api" -> ApiMax [] w = "suspicious" -> SuspiciousMax
      [] w = "burst" -> IF linkToken THEN BurstMaxSuspicious ELSE BurstMax
      [] w = "long" -> IF linkToken THEN LongMaxSuspicious ELSE LongMax

WorkerPlaces == Windows \cup {"idle", "ping", "renew", "drop", "token", "valid"}
Hits == [id : Nat, at : Nat]

LimitTypeOK ==
    /\ now \in Nat /\ linkToken \in BOOLEAN
    /\ windows \in [Windows -> SUBSET Hits]
    /\ pings \in [Clients -> Nat]
    /\ tokenKey \in Nat /\ drawn \in Nat
    /\ tokens \subseteq [id : Nat, ends : Nat]
    /\ requests \in Nat /\ refused \subseteq Nat
    /\ place \in [Threads -> WorkerPlaces]
    /\ client \in [Threads -> Clients \cup {None}]
    /\ request \in [Threads -> Nat]

LimitInit ==
    /\ now = 0 /\ linkToken \in BOOLEAN
    /\ windows = [w \in Windows |-> {}]
    /\ pings = [c \in Clients |-> 0]
    /\ tokenKey = 0 /\ tokens = {} /\ drawn = 0
    /\ requests = 0 /\ refused = {}
    /\ place = [t \in Threads |-> "idle"]
    /\ client = [t \in Threads |-> None]
    /\ request = [t \in Threads |-> 0]

Turns(t, p) == place' = [place EXCEPT ![t] = p]
Ends(t) ==
    /\ Turns(t, "idle")
    /\ client' = [client EXCEPT ![t] = None]
    /\ request' = [request EXCEPT ![t] = 0]

-----------------------------------------------------------------------------
(* filter_request.                                                         *)

AfterApi == IF linkToken THEN "ping" ELSE "burst"

(* A request of a client; the API window is for formats other than html.   *)
Filter(t, c) ==
    /\ place[t] = "idle" /\ requests < MaxRequests
    /\ requests' = requests + 1
    /\ client' = [client EXCEPT ![t] = c]
    /\ request' = [request EXCEPT ![t] = requests']
    /\ Turns(t, "api") \/ Turns(t, AfterApi)
    /\ UNCHANGED <<now, linkToken, valkeyVars, drawn, refused>>

(* The window from now back, and the script that counts a request in it.   *)
Counted(w, hits) == {h \in hits : h.at > now - Length(w)}

(* MUTANT: counted before it is added.                                     *)
OverBefore(t, w) == Cardinality(Counted(w, windows[w])) > MaxOf(w)
Over(t, w) ==
    Cardinality(Counted(w, windows[w] \cup {[id |-> request[t], at |-> now]})) > MaxOf(w)

Increment(t, w) ==
    windows' = [windows EXCEPT ![w] = Counted(w, @) \cup {[id |-> request[t], at |-> now]}]

AfterWindow(w) ==
    CASE w = "api" -> AfterApi [] w = "suspicious" -> "burst"
      [] w = "burst" -> "long" [] w = "long" -> "idle"

(* A refused request stays in the windows it was counted in.               *)
Refuse(t, w) ==
    /\ place[t] = w /\ Over(t, w)
    /\ Increment(t, w)
    /\ refused' = refused \cup {request[t]}
    /\ Ends(t)
    /\ UNCHANGED <<now, linkToken, pings, tokenKey, tokens, drawn, requests>>

Pass(t, w) ==
    /\ place[t] = w /\ ~Over(t, w)
    /\ Increment(t, w)
    /\ IF w = "long" THEN Ends(t)
       ELSE Turns(t, AfterWindow(w)) /\ UNCHANGED <<client, request>>
    /\ UNCHANGED <<now, linkToken, pings, tokenKey, tokens, drawn, requests, refused>>

(* is_suspicious: without a ping key the client is; with one it is renewed *)
(* and the counter of the network dropped.                                 *)
Suspect(t) ==
    /\ place[t] = "ping"
    /\ Turns(t, IF pings[client[t]] > 0 THEN "renew" ELSE "suspicious")
    /\ UNCHANGED <<now, linkToken, valkeyVars, drawn, requests, refused, client, request>>

Renew(t) ==
    /\ place[t] = "renew"
    /\ pings' = [pings EXCEPT ![client[t]] = now + PingLive]
    /\ Turns(t, "drop")
    /\ UNCHANGED <<now, linkToken, windows, tokenKey, tokens, drawn, requests,
                   refused, client, request>>

Drop(t) ==
    /\ place[t] = "drop"
    /\ windows' = [windows EXCEPT !["suspicious"] = {}]
    /\ Ends(t)
    /\ UNCHANGED <<now, linkToken, pings, tokenKey, tokens, drawn, requests, refused>>

-----------------------------------------------------------------------------
(* get_token, for a page or for the test of a ping, reads the key and      *)
(* stores a new token in two commands.                                     *)

(* MUTANT: the token in Valkey is never found.                             *)
TokenUnseen == FALSE
TokenFound == tokenKey > 0

DrawToken(t) ==
    /\ place[t] = "idle" /\ ~TokenFound /\ linkToken
    /\ Turns(t, "token")
    /\ UNCHANGED <<now, linkToken, valkeyVars, drawn, requests, refused, client, request>>

StoreNewToken(t) ==
    /\ place[t] = "token" /\ drawn < MaxTokens
    /\ drawn' = drawn + 1
    /\ tokenKey' = drawn'
    /\ tokens' = tokens \cup {[id |-> drawn', ends |-> now + TokenLive]}
    /\ Ends(t)
    /\ UNCHANGED <<now, linkToken, windows, pings, requests, refused>>

(* ping: a client loads the style sheet with the token of its page, which  *)
(* is valid if it is still the one in Valkey.                              *)
Ping(t, c) ==
    /\ place[t] = "idle" /\ linkToken /\ TokenFound
    /\ client' = [client EXCEPT ![t] = c]
    /\ Turns(t, "valid")
    /\ UNCHANGED <<now, linkToken, valkeyVars, drawn, requests, refused, request>>

StorePing(t) ==
    /\ place[t] = "valid"
    /\ pings' = [pings EXCEPT ![client[t]] = now + PingLive]
    /\ Ends(t)
    /\ UNCHANGED <<now, linkToken, windows, tokenKey, tokens, drawn, requests, refused>>

(* Time passes: keys expire, and old members of the windows are forgotten. *)
LimitTick ==
    /\ Tick
    /\ pings' = [c \in Clients |-> IF now' < pings[c] THEN pings[c] ELSE 0]
    /\ tokens' = {i \in tokens : now' < i.ends}
    /\ tokenKey' = IF \E i \in tokens' : i.id = tokenKey THEN tokenKey ELSE 0
    /\ windows' = [w \in Windows |->
                     {h \in windows[w] : h.at > now' - Length(w)}]
    /\ UNCHANGED <<linkToken, drawn, requests, refused, place, client, request>>

WorkerStep(t) ==
    \/ \E c \in Clients : Filter(t, c) \/ Ping(t, c)
    \/ \E w \in Windows : Refuse(t, w) \/ Pass(t, w)
    \/ Suspect(t) \/ Renew(t) \/ Drop(t)
    \/ DrawToken(t) \/ StoreNewToken(t) \/ StorePing(t)

LimitNext ==
    \/ \E t \in Threads : WorkerStep(t)
    \/ LimitTick

LimitSpec == LimitInit /\ [][LimitNext]_limitVars

-----------------------------------------------------------------------------
(* However the workers interleave, no window has more requests that were   *)
(* let through than its limit: in the last BURST_WINDOW, LONG_WINDOW and   *)
(* API_WINDOW seconds, and since the counter of the suspicious network was *)
(* last dropped (ip_limit.py, filter_request: "Maximum requests from one   *)
(* IP in the" window).                                                     *)
AdmittedBounded ==
    \A w \in Windows :
        Cardinality({h \in Counted(w, windows[w]) : h.id \notin refused}) <= MaxOf(w)

(* Workers that draw tokens at the same time replace those of each other:  *)
(* at no time are more tokens in use than there are workers, and pages     *)
(* that hold another one than the last are not recognised (link_token.py,  *)
(* get_token).                                                             *)
LiveTokensBounded == Cardinality(tokens) <= Cardinality(Threads)
=============================================================================
