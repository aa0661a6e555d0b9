------------------------ MODULE NetworkClient_proofs ------------------------
(***************************************************************************)
(* Theorems about NetworkClient, for any calls, retries and keys, and      *)
(* about ResponseStream, however far its loop is ahead of its reader.      *)
(***************************************************************************)
EXTENDS NetworkClient, ResponseStream, TLAPS

(* A call that checks or uses a client has one.                            *)
HasClient(c) == pc[c] \in {"check", "sent"} => cl[c] \in 1 .. made

(* What a call has sent, what it may repeat, and the request it is about   *)
(* to send.                                                                *)
Pending(c) == IF pc[c] \in {"idle", "loop", "check"} THEN 1 ELSE 0
Repeats(c) == IF disc[c] THEN 1 ELSE 0
InBudget(c) == sent[c] + left[c] + Pending(c) <= Retries + 1 + Repeats(c)

(* Without a Tor proxy nothing is checked and every open client is in use. *)
CheckNeedsTor(c) == pc[c] = "check" => tor
AllKept == ~tor => \A n \in open : \E k \in Keys : clients[k] = n

OwnCookies(c) == carried[c] \notin {c, None} => hop[c]

CallInv == \A c \in Calls : /\ HasClient(c) /\ InBudget(c)
                            /\ CheckNeedsTor(c) /\ OwnCookies(c)
IInv == TypeOK /\ CallInv /\ AllKept

-----------------------------------------------------------------------------
LEMMA TurnInKeys == ASSUME TypeOK PROVE turn \in Keys /\ (turn + 1) % NKeys \in Keys
BY KeysAssumption DEF TypeOK, Keys

LEMMA InitType == Init => TypeOK
<1> SUFFICES ASSUME Init PROVE TypeOK
  OBVIOUS
<1>1. turn \in Keys /\ made \in Nat /\ jar \in [1 .. made -> Calls \cup {None}]
  BY KeysAssumption DEF Init, InitWith, Keys
<1>2. left \in [Calls -> 0 .. Retries]
  BY RetriesAssumption DEF Init, InitWith
<1>3. kw \in [Calls -> BOOLEAN]
  BY DEF Init, InitWith
<1>4. clients \in [Keys -> 0 .. made] /\ open \subseteq 1 .. made
  BY DEF Init, InitWith
<1>9. dropped \in BOOLEAN
  BY DEF Init, InitWith
<1>8. tor \in BOOLEAN /\ torResult \in BOOLEAN \cup {None}
  BY Zenon DEF Init, InitWith
<1>5. /\ pc \in [Calls -> Locations] /\ disc \in [Calls -> BOOLEAN]
      /\ cl \in [Calls -> 0 .. made] /\ hop \in [Calls -> BOOLEAN]
      /\ sent \in [Calls -> Nat]
      /\ thread \in [Calls -> {"idle", "waiting", "gaveup", "returned"}]
  BY DEF Init, InitWith, Locations
<1>6. key \in [Calls -> Keys]
  BY KeysAssumption DEF Init, InitWith, Keys
<1>7. /\ carried \in [Calls -> Calls \cup {None}]
      /\ result \in [Calls -> Results \cup {None}]
  BY DEF Init, InitWith
<1> QED
  BY <1>1, <1>2, <1>3, <1>4, <1>5, <1>6, <1>7, <1>8, <1>9 DEF TypeOK

(* Initially every call has its whole budget and no client is open.        *)
LEMMA InitInv == Init => IInv
<1> SUFFICES ASSUME Init PROVE IInv
  OBVIOUS
<1>1. TypeOK
  BY InitType
<1>2. AllKept
  BY DEF Init, InitWith, AllKept
<1>3. ASSUME NEW c \in Calls
      PROVE HasClient(c) /\ InBudget(c) /\ CheckNeedsTor(c) /\ OwnCookies(c)
  BY RetriesAssumption
  DEF Init, InitWith, HasClient, InBudget, Pending, Repeats, CheckNeedsTor, OwnCookies
<1> QED
  BY <1>1, <1>2, <1>3 DEF IInv, CallInv

-----------------------------------------------------------------------------
(* Sending a request with client n of key k.                               *)
Sending(c, k, n) ==
    /\ Send(c, k, n)
    /\ made' \in Nat /\ made <= made'
    /\ n \in 1 .. made' /\ k \in Keys
    /\ \A m \in 1 .. made' : m = n \/ m \in 1 .. made

LEMMA SendType ==
  ASSUME TypeOK, NEW c \in Calls, NEW k, NEW n, Sending(c, k, n)
  PROVE  /\ jar' \in [1 .. made' -> Calls \cup {None}]
         /\ pc' \in [Calls -> Locations] /\ kw' \in [Calls -> BOOLEAN]
         /\ cl' \in [Calls -> 0 .. made'] /\ key' \in [Calls -> Keys]
         /\ hop' \in [Calls -> BOOLEAN]
         /\ carried' \in [Calls -> Calls \cup {None}]
         /\ sent' \in [Calls -> Nat]
         /\ left' \in [Calls -> 0 .. Retries] /\ disc' \in [Calls -> BOOLEAN]
         /\ result' \in [Calls -> Results \cup {None}]
         /\ thread' \in [Calls -> {"idle", "waiting", "gaveup", "returned"}]
<1>1. CookiesFor(c, n) \in Calls \cup {None}
  BY DEF CookiesFor
<1>2. jar' \in [1 .. made' -> Calls \cup {None}]
  BY <1>1 DEF TypeOK, Sending, Send
<1>3. cl' \in [Calls -> 0 .. made'] /\ key' \in [Calls -> Keys]
  <2>1. \A d \in Calls : cl[d] \in 0 .. made'
    BY DEF TypeOK, Sending
  <2>2. n \in 0 .. made'
    BY DEF Sending
  <2> QED
    BY <2>1, <2>2 DEF TypeOK, Sending, Send
<1>4. /\ pc' \in [Calls -> Locations] /\ kw' \in [Calls -> BOOLEAN]
      /\ hop' \in [Calls -> BOOLEAN]
  BY DEF TypeOK, Sending, Send, Locations
<1>5. carried' \in [Calls -> Calls \cup {None}] /\ sent' \in [Calls -> Nat]
  BY <1>1 DEF TypeOK, Sending, Send
<1> QED
  BY <1>2, <1>3, <1>4, <1>5 DEF TypeOK, Sending, Send

(* What a request does to the budget and to the cookies of a call.         *)
LEMMA SendCall ==
  ASSUME TypeOK, CallInv, NEW c \in Calls, NEW k, NEW n, Sending(c, k, n),
         pc[c] \in {"loop", "check"}, UNCHANGED tor
  PROVE  CallInv'
<1> SUFFICES ASSUME NEW d \in Calls
             PROVE (HasClient(d) /\ InBudget(d) /\ CheckNeedsTor(d) /\ OwnCookies(d))'
  BY DEF CallInv
<1>0. HasClient(d) /\ InBudget(d) /\ CheckNeedsTor(d) /\ OwnCookies(d)
  BY DEF CallInv
<1>t. /\ sent[d] \in Nat /\ left[d] \in Nat /\ cl[d] \in Nat /\ made \in Nat
      /\ Retries \in Nat /\ disc[d] \in BOOLEAN
  BY RetriesAssumption DEF TypeOK
<1>1. CASE d = c
  <2>1. /\ pc'[d] = "sent" /\ cl'[d] = n /\ sent'[d] = sent[d] + 1
        /\ hop'[d] = FALSE /\ carried'[d] = CookiesFor(c, n)
        /\ left' = left /\ disc' = disc
    BY <1>1 DEF TypeOK, Sending, Send
  <2>2. OwnCookies(d)'
    BY <1>1, <2>1 DEF OwnCookies, CookiesFor
  <2>3. Pending(d) = 1 /\ Pending(d)' = 0 /\ Repeats(d)' = Repeats(d) /\ Repeats(d) \in Nat
    BY <1>1, <2>1 DEF Pending, Repeats
  <2>4. InBudget(d)'
    BY <1>0, <1>t, <2>1, <2>3 DEF InBudget
  <2> QED
    BY <2>1, <2>2, <2>4 DEF HasClient, CheckNeedsTor, Sending
<1>2. CASE d # c
  <2>1. /\ pc'[d] = pc[d] /\ cl'[d] = cl[d] /\ sent'[d] = sent[d]
        /\ hop'[d] = hop[d] /\ carried'[d] = carried[d]
        /\ left' = left /\ disc' = disc
    BY <1>2 DEF TypeOK, Sending, Send
  <2>2. made \in Nat /\ made' \in Nat /\ made <= made'
    BY <1>t DEF Sending
  <2> QED
    BY <1>0, <1>t, <2>1, <2>2
    DEF HasClient, InBudget, Pending, Repeats, CheckNeedsTor, OwnCookies
<1> QED
  BY <1>1, <1>2

-----------------------------------------------------------------------------
(* Every step keeps the types.                                             *)
LEMMA StepType ==
  ASSUME IInv, [Next]_vars PROVE TypeOK'
<1> USE DEF IInv
<1>t. turn \in Keys /\ (turn + 1) % NKeys \in Keys
  BY TurnInKeys
<1>1. ASSUME NEW c \in Calls, Submit(c) \/ GiveUp(c) \/ Deliver(c) PROVE TypeOK'
  BY <1>1 DEF Submit, GiveUp, Deliver, netVars, TypeOK, Locations
<1>2. ASSUME NEW c \in Calls, UseClient(c) PROVE TypeOK'
  <2>1. made' = made /\ clients[turn] \in 1 .. made
    BY <1>2, <1>t DEF UseClient, Usable, TypeOK
  <2>2. Sending(c, turn, clients[turn])
    BY <1>2, <1>t, <2>1 DEF UseClient, Sending, TypeOK
  <2> QED
    BY <1>2, <1>t, <2>2, SendType DEF UseClient, TypeOK
<1>3. ASSUME NEW c \in Calls, MakeClient(c) PROVE TypeOK'
  <2>1. made' = made + 1 /\ made' \in Nat
    BY <1>3 DEF MakeClient, TypeOK
  <2>2. Sending(c, turn, made')
    BY <1>3, <1>t, <2>1 DEF MakeClient, Sending, TypeOK
  <2>3. clients' \in [Keys -> 0 .. made'] /\ open' \subseteq 1 .. made'
    BY <1>3, <2>1 DEF MakeClient, TypeOK
  <2> QED
    BY <1>3, <1>t, <2>1, <2>2, <2>3, SendType DEF MakeClient, TypeOK
<1>4. ASSUME NEW c \in Calls, RefuseClient(c) PROVE TypeOK'
  BY <1>4, <1>t DEF RefuseClient, Ends, TypeOK, Locations, Results
<1>5. ASSUME NEW c \in Calls, AskTor(c) PROVE TypeOK'
  <2>1. made' = made + 1 /\ made' \in Nat
    BY <1>5 DEF AskTor, TypeOK
  <2>2. clients' \in [Keys -> 0 .. made'] /\ open' \subseteq 1 .. made'
    BY <1>5, <2>1 DEF AskTor, TypeOK
  <2>3. jar' \in [1 .. made' -> Calls \cup {None}]
    BY <1>5, <2>1 DEF AskTor, TypeOK
  <2>4. cl' \in [Calls -> 0 .. made'] /\ key' \in [Calls -> Keys]
    BY <1>5, <1>t, <2>1 DEF AskTor, TypeOK
  <2>5. pc' \in [Calls -> Locations]
    BY <1>5 DEF AskTor, TypeOK, Locations
  <2> QED
    BY <1>5, <1>t, <2>1, <2>2, <2>3, <2>4, <2>5 DEF AskTor, TypeOK
<1>6. ASSUME NEW c \in Calls, TorAccepted(c) PROVE TypeOK'
  <2>1. made' = made /\ cl[c] \in 1 .. made /\ key[c] \in Keys
    BY <1>6 DEF TorAccepted, CallInv, HasClient, TypeOK
  <2>2. Sending(c, key[c], cl[c])
    BY <1>6, <2>1 DEF TorAccepted, Sending, TypeOK
  <2>3. clients' \in [Keys -> 0 .. made]
    BY <1>6, <2>1 DEF TorAccepted, TypeOK
  <2> QED
    BY <1>6, <2>1, <2>2, <2>3, SendType DEF TorAccepted, TypeOK
<1>7. ASSUME NEW c \in Calls, TorRefused(c) PROVE TypeOK'
  <2>1. torResult' \in BOOLEAN \cup {None} /\ open' \subseteq 1 .. made
    BY <1>7 DEF TorRefused, TypeOK
  <2> QED
    BY <1>7, <2>1 DEF TorRefused, Ends, TypeOK, Locations, Results
<1>8. ASSUME NEW c \in Calls, Redirect(c) PROVE TypeOK'
  <2>1. jar[cl[c]] \in Calls \cup {None}
    BY <1>8 DEF Redirect, CallInv, HasClient, TypeOK
  <2> QED
    BY <1>8, <2>1 DEF Redirect, netVars, TypeOK
<1>9. ASSUME NEW c \in Calls, Answered(c) \/ Denied(c) PROVE TypeOK'
  BY <1>9 DEF Answered, Denied, Ends, netVars, TypeOK, Locations, Results
<1>10. ASSUME NEW c \in Calls, Failed(c) PROVE TypeOK'
  <2>0. left \in [Calls -> 0 .. Retries] /\ Retries \in Nat
    BY RetriesAssumption DEF TypeOK
  <2>1. left' \in [Calls -> 0 .. Retries]
    <3>1. CASE left[c] <= 0
      BY <1>10, <2>0, <3>1 DEF Failed, LastRound
    <3>2. CASE ~(left[c] <= 0)
      <4>1. left' = [left EXCEPT ![c] = left[c] - 1]
        BY <1>10, <3>2 DEF Failed, LastRound
      <4>2. left[c] - 1 \in 0 .. Retries
        BY <2>0, <3>2
      <4> QED
        BY <2>0, <4>1, <4>2
    <3> QED
      BY <3>1, <3>2
  <2>2. pc' \in [Calls -> Locations] /\ result' \in [Calls -> Results \cup {None}]
    BY <1>10 DEF Failed, Ends, TypeOK, Locations, Results
  <2> QED
    BY <1>10, <2>1, <2>2 DEF Failed, netVars, TypeOK
<1>11. ASSUME NEW c \in Calls, Disconnected(c) PROVE TypeOK'
  BY <1>11 DEF Disconnected, TypeOK, Locations
<1>12. ASSUME Done PROVE TypeOK'
  BY <1>12 DEF Done, callVars, TypeOK
<1>13. ASSUME UNCHANGED vars PROVE TypeOK'
  BY <1>13 DEF vars, netVars, callVars, TypeOK
<1> QED
  BY <1>1, <1>2, <1>3, <1>4, <1>5, <1>6, <1>7, <1>8, <1>9, <1>10, <1>11, <1>12, <1>13
  DEF Next, Coroutine, GetClient, CheckEnds, RequestEnds

(* No step takes a call out of its budget, its client or its own cookies.  *)
LEMMA StepCall ==
  ASSUME IInv, [Next]_vars PROVE CallInv'
<1> USE DEF IInv
<1>1. ASSUME NEW c \in Calls, UseClient(c) \/ MakeClient(c) \/ TorAccepted(c)
      PROVE CallInv'
  <2>t. turn \in Keys /\ (turn + 1) % NKeys \in Keys
    BY TurnInKeys
  <2>1. CASE UseClient(c)
    <3>1. made' = made /\ clients[turn] \in 1 .. made
      BY <2>1, <2>t DEF UseClient, Usable, TypeOK
    <3>2. Sending(c, turn, clients[turn])
      BY <2>1, <2>t, <3>1 DEF UseClient, Sending, TypeOK
    <3> QED
      BY <2>1, <3>2, SendCall DEF UseClient
  <2>2. CASE MakeClient(c)
    <3>1. made' = made + 1 /\ made' \in Nat
      BY <2>2 DEF MakeClient, TypeOK
    <3>2. Sending(c, turn, made')
      BY <2>2, <2>t, <3>1 DEF MakeClient, Sending, TypeOK
    <3> QED
      BY <2>2, <3>2, SendCall DEF MakeClient
  <2>3. CASE TorAccepted(c)
    <3>1. made' = made /\ cl[c] \in 1 .. made /\ key[c] \in Keys
      BY <2>3 DEF TorAccepted, CallInv, HasClient, TypeOK
    <3>2. Sending(c, key[c], cl[c])
      BY <2>3, <3>1 DEF TorAccepted, Sending, TypeOK
    <3> QED
      BY <2>3, <3>2, SendCall DEF TorAccepted
  <2> QED
    BY <1>1, <2>1, <2>2, <2>3
<1> DEFINE Fine(d) == HasClient(d) /\ InBudget(d) /\ CheckNeedsTor(d) /\ OwnCookies(d)
<1>d. ASSUME NEW d \in Calls
      PROVE  /\ Fine(d)
             /\ sent[d] \in Nat /\ left[d] \in Nat /\ cl[d] \in Nat /\ made \in Nat
             /\ Retries \in Nat /\ disc[d] \in BOOLEAN
  BY RetriesAssumption DEF TypeOK, CallInv
<1>2. ASSUME NEW c \in Calls, Submit(c) \/ GiveUp(c) \/ Deliver(c) PROVE CallInv'
  <2>1. ASSUME NEW d \in Calls PROVE Fine(d)'
    <3>1. pc'[d] = pc[d] \/ (pc[d] = "idle" /\ pc'[d] = "loop")
      BY <1>2 DEF Submit, GiveUp, Deliver, TypeOK
    <3> QED
      BY <1>2, <1>d, <3>1 DEF Submit, GiveUp, Deliver, netVars, HasClient, InBudget,
         Pending, Repeats, CheckNeedsTor, OwnCookies
  <2> QED
    BY <2>1 DEF CallInv
<1>3. ASSUME NEW c \in Calls, RefuseClient(c) \/ TorRefused(c) \/ Answered(c) \/ Denied(c)
      PROVE CallInv'
  <2>1. ASSUME NEW d \in Calls PROVE Fine(d)'
    <3>1. pc'[d] = pc[d] \/ pc'[d] = "ended"
      BY <1>3 DEF RefuseClient, TorRefused, Answered, Denied, Ends, TypeOK
    <3>2. UNCHANGED <<cl, made, sent, left, disc, tor, carried, hop>>
      BY <1>3 DEF RefuseClient, TorRefused, Answered, Denied, netVars
    <3> QED
      BY <1>d, <3>1, <3>2 DEF HasClient, InBudget,
         Pending, Repeats, CheckNeedsTor, OwnCookies
  <2> QED
    BY <2>1 DEF CallInv
<1>4. ASSUME NEW c \in Calls, AskTor(c) PROVE CallInv'
  <2>1. ASSUME NEW d \in Calls PROVE Fine(d)'
    <3>1. \/ d # c /\ pc'[d] = pc[d] /\ cl'[d] = cl[d]
          \/ d = c /\ pc[d] = "loop" /\ pc'[d] = "check" /\ cl'[d] = made' /\ tor
      BY <1>4 DEF AskTor, TypeOK
    <3>2. made' = made + 1 /\ UNCHANGED <<sent, left, disc, tor, carried, hop>>
      BY <1>4 DEF AskTor
    <3> QED
      BY <1>d, <3>1, <3>2 DEF HasClient, InBudget,
         Pending, Repeats, CheckNeedsTor, OwnCookies
  <2> QED
    BY <2>1 DEF CallInv
<1>5. ASSUME NEW c \in Calls, Redirect(c) PROVE CallInv'
  <2>1. ASSUME NEW d \in Calls PROVE Fine(d)'
    <3>1. \/ d # c /\ hop'[d] = hop[d] /\ carried'[d] = carried[d]
          \/ d = c /\ hop'[d] = TRUE
      BY <1>5 DEF Redirect, TypeOK
    <3>2. UNCHANGED <<pc, cl, made, sent, left, disc, tor>>
      BY <1>5 DEF Redirect, netVars
    <3> QED
      BY <1>d, <3>1, <3>2 DEF HasClient, InBudget,
         Pending, Repeats, CheckNeedsTor, OwnCookies
  <2> QED
    BY <2>1 DEF CallInv
<1>6. ASSUME NEW c \in Calls, Failed(c) PROVE CallInv'
  <2>1. ASSUME NEW d \in Calls PROVE Fine(d)'
    <3>1. \/ left'[d] = left[d] /\ (pc'[d] = pc[d] \/ pc'[d] = "ended")
          \/ /\ pc[d] = "sent" /\ left'[d] = left[d] - 1
             /\ pc'[d] \in {"loop", "ended"}
      BY <1>6 DEF Failed, Ends, TypeOK
    <3>2. UNCHANGED <<cl, made, sent, disc, tor, carried, hop>>
      BY <1>6 DEF Failed, netVars
    <3> QED
      BY <1>d, <3>1, <3>2 DEF HasClient, InBudget,
         Pending, Repeats, CheckNeedsTor, OwnCookies
  <2> QED
    BY <2>1 DEF CallInv
<1>7. ASSUME NEW c \in Calls, Disconnected(c) PROVE CallInv'
  <2>1. ASSUME NEW d \in Calls PROVE Fine(d)'
    <3>1. \/ pc'[d] = pc[d] /\ disc'[d] = disc[d]
          \/ /\ pc[d] = "sent" /\ pc'[d] = "loop"
             /\ ~disc[d] /\ disc'[d] = TRUE
      BY <1>7 DEF Disconnected, TypeOK
    <3>2. UNCHANGED <<cl, made, sent, left, tor, carried, hop>>
      BY <1>7 DEF Disconnected
    <3> QED
      BY <1>d, <3>1, <3>2 DEF HasClient, InBudget,
         Pending, Repeats, CheckNeedsTor, OwnCookies
  <2> QED
    BY <2>1 DEF CallInv
<1>8. ASSUME Done \/ UNCHANGED vars PROVE CallInv'
  <2>1. ASSUME NEW d \in Calls PROVE Fine(d)'
    BY <1>8, <1>d DEF Done, vars, netVars, callVars, HasClient, InBudget,
       Pending, Repeats, CheckNeedsTor, OwnCookies
  <2> QED
    BY <2>1 DEF CallInv
<1> QED
  BY <1>1, <1>2, <1>3, <1>4, <1>5, <1>6, <1>7, <1>8
  DEF Next, Coroutine, GetClient, CheckEnds, RequestEnds

(* Without Tor a client is made only for a key whose client is closed.     *)
LEMMA StepKept ==
  ASSUME IInv, [Next]_vars PROVE AllKept'
<1> USE DEF IInv
<1>1. SUFFICES ASSUME ~tor' PROVE \A n \in open' : \E k \in Keys : clients'[k] = n
  BY DEF AllKept
<1>2. ~tor
  BY <1>1 DEF Next, Submit, GiveUp, Deliver, Coroutine, GetClient, CheckEnds,
     RequestEnds, UseClient, MakeClient, RefuseClient, AskTor, TorAccepted,
     TorRefused, Redirect, Answered, Denied, Failed, Disconnected, Done, vars, netVars
<1>3. \A n \in open : \E k \in Keys : clients[k] = n
  BY <1>2 DEF AllKept
<1>4. ASSUME NEW c \in Calls, MakeClient(c)
      PROVE \A n \in open' : \E k \in Keys : clients'[k] = n
  <2>1. turn \in Keys
    BY TurnInKeys
  <2>2. ASSUME NEW n \in open', n # made' PROVE \E k \in Keys : clients'[k] = n
    <3>1. n \in open
      BY <1>4, <2>2 DEF MakeClient
    <3>2. PICK k \in Keys : clients[k] = n
      BY <1>3, <3>1
    <3>3. k # turn
      BY <1>4, <3>1, <3>2 DEF MakeClient, Usable
    <3> QED
      BY <1>4, <3>2, <3>3 DEF MakeClient, TypeOK
  <2>3. clients'[turn] = made'
    BY <1>4, <2>1 DEF MakeClient, TypeOK
  <2> QED
    BY <2>1, <2>2, <2>3
<1>5. ASSUME ~\E c \in Calls : MakeClient(c)
      PROVE open' \subseteq open /\ clients' = clients
  <2>1. ASSUME NEW c \in Calls PROVE ~AskTor(c)
    BY <1>2 DEF AskTor
  <2>2. ASSUME NEW c \in Calls PROVE ~TorAccepted(c)
    BY <1>2 DEF TorAccepted, CallInv, CheckNeedsTor
  <2> QED
    BY <1>5, <2>1, <2>2 DEF Next, Submit, GiveUp, Deliver, Coroutine, GetClient,
       CheckEnds, RequestEnds, UseClient, RefuseClient, TorRefused, Redirect,
       Answered, Denied, Failed, Disconnected, Done, vars, netVars
<1> QED
  BY <1>3, <1>4, <1>5

-----------------------------------------------------------------------------
(* IInv holds in every state.                                              *)
LEMMA Invariance == Spec => []IInv
<1>1. IInv /\ [Next]_vars => IInv'
  BY StepType, StepCall, StepKept DEF IInv
<1> QED
  BY InitInv, <1>1, PTL DEF Spec

(* All variables of a network and its calls keep their types, whatever the *)
(* number of calls, keys and retries (network.py, Network).                *)
THEOREM TypeCorrect == Spec => []TypeOK
<1>1. IInv => TypeOK
  BY DEF IInv
<1> QED
  BY Invariance, <1>1, PTL

(* No interleaving of calls makes one of them send more requests than its  *)
(* retries and one disconnect allow (network.py, call_client).             *)
THEOREM RequestsAreBounded == Spec => []RequestsBounded
<1>1. IInv => RequestsBounded
  <2> SUFFICES ASSUME IInv, NEW c \in Calls
               PROVE sent[c] <= Retries + 1 + (IF disc[c] THEN 1 ELSE 0)
    BY DEF RequestsBounded
  <2>1. InBudget(c) /\ sent[c] \in Nat /\ left[c] \in Nat /\ Retries \in Nat
    BY RetriesAssumption DEF IInv, CallInv, TypeOK
  <2> QED
    BY <2>1 DEF InBudget, Pending, Repeats
<1> QED
  BY Invariance, <1>1, PTL

(* Without a redirect no request carries the cookies of another call, with *)
(* any number of calls sharing the clients (network.py, call_client).      *)
THEOREM CookiesAreOwn == Spec => []ForeignCookiesNeedRedirect
<1>1. IInv => ForeignCookiesNeedRedirect
  BY DEF IInv, CallInv, OwnCookies, ForeignCookiesNeedRedirect
<1> QED
  BY Invariance, <1>1, PTL

(* Without a Tor proxy every open client is one done() will close          *)
(* (network.py, get_client and done).                                      *)
THEOREM ClientsKept == Spec => []LostClientNeedsTor
<1>1. IInv => LostClientNeedsTor
  <2> SUFFICES ASSUME IInv, ~tor PROVE open \ Held = {}
    BY DEF LostClientNeedsTor, IInv, TypeOK
  <2>1. \A n \in open : n \in {clients[k] : k \in Keys}
    BY DEF IInv, AllKept
  <2> QED
    BY <2>1 DEF Held
<1> QED
  BY Invariance, <1>1, PTL

-----------------------------------------------------------------------------
(* How a call ends.                                                        *)

(* A call that ended has a response or an exception, never the None behind *)
(* the loop of call_client (network.py, call_client).                      *)
EndedWell == \A c \in Calls : pc[c] = "ended" => result[c] \in {"response", "error"}

(* A retry is taken only while one is left, so that the loop goes on.      *)
LEMMA RetryGoesOn ==
  ASSUME TypeOK, NEW c \in Calls, Failed(c)
  PROVE  \/ /\ pc' = [pc EXCEPT ![c] = "loop"] /\ UNCHANGED result
            /\ left[c] > 0 /\ left' = [left EXCEPT ![c] = left[c] - 1]
         \/ /\ \E r \in {"response", "error"} : Ends(c, r)
            /\ UNCHANGED left
<1>1. left[c] \in Nat
  BY RetriesAssumption DEF TypeOK
<1>2. CASE left[c] <= 0
  BY <1>2 DEF Failed, LastRound
<1>3. CASE ~(left[c] <= 0)
  <2>1. left' = [left EXCEPT ![c] = left[c] - 1]
    BY <1>3 DEF Failed, LastRound
  <2>2. left'[c] >= 0
    BY <1>1, <1>3, <2>1 DEF TypeOK
  <2>3. QED
    BY <1>1, <1>3, <2>1, <2>2 DEF Failed, LastRound
<1>4. QED
  BY <1>2, <1>3

(* Whatever fails, and whether or not its thread still waits, a call ends  *)
(* with a response or an exception (network.py, call_client).              *)
THEOREM CallsEndWell == Spec => []EndedWell
<1>1. Init => EndedWell
  BY DEF Init, InitWith, EndedWell
<1>2. ASSUME TypeOK, EndedWell, [Next]_vars PROVE EndedWell'
  <2> SUFFICES ASSUME NEW d \in Calls, pc'[d] = "ended"
               PROVE  result'[d] \in {"response", "error"}
    BY DEF EndedWell
  <2>1. pc[d] = "ended" => result[d] \in {"response", "error"}
    BY <1>2 DEF EndedWell
  <2>2. ASSUME pc'[d] = pc[d], result'[d] = result[d]
        PROVE  result'[d] \in {"response", "error"}
    BY <2>1, <2>2
  <2>3. ASSUME NEW c \in Calls, NEW r \in {"response", "error"}, Ends(c, r)
        PROVE  result'[d] \in {"response", "error"}
    BY <1>2, <2>1, <2>3 DEF Ends, TypeOK
  <2>4. ASSUME NEW c \in Calls, Submit(c) \/ GiveUp(c) \/ Deliver(c)
        PROVE  result'[d] \in {"response", "error"}
    BY <1>2, <2>1, <2>4 DEF Submit, GiveUp, Deliver, TypeOK
  <2>5. ASSUME NEW c \in Calls, UseClient(c) \/ MakeClient(c) \/ TorAccepted(c) \/ AskTor(c)
        PROVE  result'[d] \in {"response", "error"}
    <3>1. result' = result /\ (pc'[d] = pc[d] \/ pc'[d] \in {"sent", "check"})
      BY <1>2, <2>5 DEF UseClient, MakeClient, TorAccepted, AskTor, Send, TypeOK
    <3>2. QED
      BY <2>1, <3>1
  <2>6. ASSUME NEW c \in Calls, RefuseClient(c) \/ TorRefused(c) \/ Answered(c) \/ Denied(c)
        PROVE  result'[d] \in {"response", "error"}
    BY <2>3, <2>6 DEF RefuseClient, TorRefused, Answered, Denied
  <2>7. ASSUME NEW c \in Calls, Failed(c)
        PROVE  result'[d] \in {"response", "error"}
    <3>1. CASE pc' = [pc EXCEPT ![c] = "loop"] /\ UNCHANGED result
      BY <1>2, <2>1, <3>1 DEF TypeOK
    <3>2. QED
      BY <1>2, <2>3, <2>7, <3>1, RetryGoesOn
  <2>8. ASSUME NEW c \in Calls, Redirect(c) \/ Disconnected(c)
        PROVE  result'[d] \in {"response", "error"}
    BY <1>2, <2>1, <2>8 DEF Redirect, Disconnected, TypeOK
  <2>9. CASE Done \/ UNCHANGED vars
    BY <2>2, <2>9 DEF Done, vars, callVars
  <2>10. QED
    BY <1>2, <2>4, <2>5, <2>6, <2>7, <2>8, <2>9
    DEF Next, Coroutine, GetClient, CheckEnds, RequestEnds
<1>3. QED
  BY <1>1, <1>2, TypeCorrect, PTL DEF Spec

(* What a call has before it: the rounds that it may still repeat, of six  *)
(* steps each, and what is left of the present one.                        *)
Rounds(c) == left[c] + (IF disc[c] THEN 0 ELSE 1)
Place(c) ==
  CASE pc[c] = "idle"  -> 5
    [] pc[c] = "loop"  -> 4
    [] pc[c] = "check" -> 3
    [] pc[c] = "sent"  -> IF hop[c] THEN 1 ELSE 2
    [] pc[c] = "ended" -> 0
StepsLeft(c) == 6 * Rounds(c) + Place(c)

(* They are naturals before and after every step.                          *)
LEMMA StepsLeftType ==
  ASSUME TypeOK, TypeOK', NEW c \in Calls
  PROVE  /\ Rounds(c) \in Nat /\ Place(c) \in 0 .. 5 /\ Place(c)' \in 0 .. 5
         /\ StepsLeft(c) \in Nat /\ StepsLeft(c)' \in Nat
         /\ StepsLeft(c) <= 6 * Retries + 11
<1>1. Retries \in Nat
  BY RetriesAssumption
<1>2. left[c] \in 0 .. Retries /\ disc[c] \in BOOLEAN /\ hop[c] \in BOOLEAN /\ pc[c] \in Locations
  BY DEF TypeOK
<1>3. left'[c] \in 0 .. Retries /\ disc'[c] \in BOOLEAN /\ hop'[c] \in BOOLEAN /\ pc'[c] \in Locations
  BY DEF TypeOK
<1>4. Rounds(c) \in 0 .. (Retries + 1) /\ Rounds(c)' \in 0 .. (Retries + 1)
  BY <1>1, <1>2, <1>3 DEF Rounds
<1>5. Place(c) \in 0 .. 5 /\ Place(c)' \in 0 .. 5
  BY <1>2, <1>3 DEF Place, Locations
<1>6. QED
  BY <1>1, <1>4, <1>5 DEF StepsLeft

(* Every step of the coroutine of a call takes from what it has before it, *)
(* and nobody adds to that: it has no more than 6 * Retries + 11 steps,    *)
(* whatever other calls do to the client they share, and done() with it    *)
(* (network.py, call_client and get_client).                               *)
CallsSpend ==
  \A c \in Calls : /\ StepsLeft(c) <= 6 * Retries + 11
                   /\ StepsLeft(c)' \in 0 .. StepsLeft(c)
                   /\ Coroutine(c) => StepsLeft(c)' < StepsLeft(c)

(* A step within a round gets further in it.                               *)
LEMMA PlaceSpends ==
  ASSUME TypeOK, TypeOK', NEW c \in Calls,
         left'[c] = left[c], disc'[c] = disc[c], Place(c)' < Place(c)
  PROVE  StepsLeft(c)' < StepsLeft(c)
<1>1. Rounds(c)' = Rounds(c)
  BY DEF Rounds
<1> HIDE DEF TypeOK
<1>2. Rounds(c) \in Nat /\ Place(c) \in 0 .. 5 /\ Place(c)' \in 0 .. 5
  BY StepsLeftType
<1>3. QED
  BY <1>1, <1>2 DEF StepsLeft

(* A step that begins a round leaves one less.                             *)
LEMMA RoundSpends ==
  ASSUME TypeOK, TypeOK', NEW c \in Calls,
         pc[c] = "sent", pc'[c] = "loop", Rounds(c)' = Rounds(c) - 1
  PROVE  StepsLeft(c)' < StepsLeft(c)
<1>1. Rounds(c) \in Int
  BY StepsLeftType
<1>2. Place(c) >= 1 /\ Place(c) \in 1 .. 2 /\ Place(c)' = 4
  BY DEF Place
<1>3. QED
  BY <1>1, <1>2 DEF StepsLeft

LEMMA CoroutineSpends ==
  ASSUME TypeOK, TypeOK', NEW c \in Calls, Coroutine(c)
  PROVE  StepsLeft(c)' < StepsLeft(c)
<1>1. CASE UseClient(c) \/ MakeClient(c) \/ TorAccepted(c)
  <2>1. /\ pc[c] \in {"loop", "check"} /\ pc'[c] = "sent" /\ ~hop'[c]
        /\ left'[c] = left[c] /\ disc'[c] = disc[c]
    BY <1>1 DEF UseClient, MakeClient, TorAccepted, Send, TypeOK
  <2>2. Place(c)' < Place(c)
    BY <2>1 DEF Place
  <2>3. QED
    BY <2>1, <2>2, PlaceSpends
<1>2. CASE AskTor(c)
  <2>1. pc[c] = "loop" /\ pc'[c] = "check" /\ left'[c] = left[c] /\ disc'[c] = disc[c]
    BY <1>2 DEF AskTor, TypeOK
  <2>2. Place(c)' < Place(c)
    BY <2>1 DEF Place
  <2>3. QED
    BY <2>1, <2>2, PlaceSpends
<1>3. CASE RefuseClient(c) \/ TorRefused(c) \/ Answered(c) \/ Denied(c)
  <2>1. /\ pc[c] \in {"loop", "check", "sent"} /\ pc'[c] = "ended"
        /\ left'[c] = left[c] /\ disc'[c] = disc[c]
    BY <1>3 DEF RefuseClient, TorRefused, Answered, Denied, Ends, TypeOK
  <2>2. Place(c)' < Place(c)
    BY <2>1 DEF Place
  <2>3. QED
    BY <2>1, <2>2, PlaceSpends
<1>4. CASE Redirect(c)
  <2>1. /\ pc[c] = "sent" /\ pc'[c] = "sent" /\ ~hop[c] /\ hop'[c]
        /\ left'[c] = left[c] /\ disc'[c] = disc[c]
    BY <1>4 DEF Redirect, TypeOK
  <2>2. Place(c)' < Place(c)
    BY <2>1 DEF Place
  <2>3. QED
    BY <2>1, <2>2, PlaceSpends
<1>5. CASE Failed(c)
  <2>1. pc[c] = "sent" /\ disc'[c] = disc[c]
    BY <1>5 DEF Failed
  <2>2. CASE UNCHANGED left /\ \E r \in {"response", "error"} : Ends(c, r)
    <3>1. pc'[c] = "ended" /\ left'[c] = left[c]
      BY <2>2 DEF Ends, TypeOK
    <3>2. Place(c)' < Place(c)
      BY <2>1, <3>1 DEF Place
    <3>3. QED
      BY <2>1, <3>1, <3>2, PlaceSpends
  <2>3. CASE pc' = [pc EXCEPT ![c] = "loop"] /\ left' = [left EXCEPT ![c] = left[c] - 1]
    <3>1. pc'[c] = "loop" /\ left'[c] = left[c] - 1
      BY <2>3 DEF TypeOK
    <3>2. left[c] \in Int
      BY RetriesAssumption DEF TypeOK
    <3>3. Rounds(c)' = Rounds(c) - 1
      BY <2>1, <3>1, <3>2 DEF Rounds
    <3>4. QED
      BY <2>1, <3>1, <3>3, RoundSpends
  <2>4. QED
    BY <1>5, <2>2, <2>3, RetryGoesOn
<1>6. CASE Disconnected(c)
  <2>1. /\ pc[c] = "sent" /\ pc'[c] = "loop" /\ left'[c] = left[c]
        /\ ~disc[c] /\ disc'[c]
    BY <1>6 DEF Disconnected, TypeOK
  <2>2. left[c] \in Int
    BY RetriesAssumption DEF TypeOK
  <2>3. Rounds(c)' = Rounds(c) - 1
    BY <2>1, <2>2 DEF Rounds
  <2>4. QED
    BY <2>1, <2>3, RoundSpends
<1>7. QED
  BY <1>1, <1>2, <1>3, <1>4, <1>5, <1>6 DEF Coroutine, GetClient, CheckEnds, RequestEnds

(* Who is not c itself changes nothing that its steps are counted by.      *)
LEMMA OthersSpendNothing ==
  ASSUME TypeOK, NEW c \in Calls, NEW d \in Calls, c /= d, Coroutine(d)
  PROVE  StepsLeft(c)' = StepsLeft(c)
<1>1. /\ pc'[c] = pc[c] /\ left'[c] = left[c] /\ disc'[c] = disc[c] /\ hop'[c] = hop[c]
  <2>1. CASE GetClient(d) \/ CheckEnds(d)
    BY <2>1 DEF GetClient, CheckEnds, UseClient, MakeClient, RefuseClient, AskTor,
       TorAccepted, TorRefused, Send, Ends, TypeOK
  <2>2. CASE Failed(d)
    BY <2>2, RetryGoesOn DEF Failed, Ends, TypeOK
  <2>3. CASE Redirect(d) \/ Answered(d) \/ Denied(d) \/ Disconnected(d)
    BY <2>3 DEF Redirect, Answered, Denied, Disconnected, Ends, TypeOK
  <2>4. QED
    BY <2>1, <2>2, <2>3 DEF Coroutine, RequestEnds
<1>2. QED
  BY <1>1 DEF StepsLeft, Rounds, Place

(* The coroutine of a call ends after boundedly many steps, however its    *)
(* requests fail and whatever the calls it shares clients with do          *)
(* (network.py, call_client).                                              *)
THEOREM CallsAdvance == Spec => [][CallsSpend]_vars
<1>1. ASSUME TypeOK, TypeOK', Next, NEW c \in Calls
      PROVE  StepsLeft(c)' <= StepsLeft(c) /\ (Coroutine(c) => StepsLeft(c)' < StepsLeft(c))
  <2>1. StepsLeft(c) \in Int /\ StepsLeft(c)' \in Int
    BY <1>1, StepsLeftType
  <2>2. Coroutine(c) => StepsLeft(c)' < StepsLeft(c)
    BY <1>1, CoroutineSpends
  <2>3. CASE \E d \in Calls : c /= d /\ Coroutine(d)
    BY <1>1, <2>1, <2>2, <2>3, OthersSpendNothing
  <2>4. CASE \E d \in Calls : Submit(d)
    <3>1. PICK d \in Calls : Submit(d)
      BY <2>4
    <3>2. pc'[c] = pc[c] \/ (pc[c] = "idle" /\ pc'[c] = "loop")
      BY <1>1, <3>1 DEF Submit, TypeOK
    <3>3. left' = left /\ disc' = disc /\ hop' = hop
      BY <3>1 DEF Submit
    <3>4. CASE pc'[c] = pc[c]
      <4>1. StepsLeft(c)' = StepsLeft(c)
        BY <3>3, <3>4 DEF StepsLeft, Rounds, Place
      <4>2. QED
        BY <2>1, <2>2, <4>1
    <3>5. CASE pc[c] = "idle" /\ pc'[c] = "loop"
      <4>1. Place(c)' < Place(c)
        BY <3>5 DEF Place
      <4>2. StepsLeft(c)' < StepsLeft(c)
        BY <1>1, <3>3, <4>1, PlaceSpends
      <4>3. QED
        BY <2>1, <2>2, <4>2
    <3>6. QED
      BY <3>2, <3>4, <3>5
  <2>5. CASE Done \/ \E d \in Calls : GiveUp(d) \/ Deliver(d)
    <3>1. UNCHANGED <<pc, left, disc, hop>>
      BY <2>5 DEF Done, GiveUp, Deliver, callVars
    <3>2. StepsLeft(c)' = StepsLeft(c)
      BY <3>1 DEF StepsLeft, Rounds, Place
    <3>3. QED
      BY <2>1, <2>2, <3>2
  <2>6. CASE Coroutine(c)
    BY <2>1, <2>2, <2>6
  <2>7. QED
    BY <1>1, <2>3, <2>4, <2>5, <2>6 DEF Next
<1>2. ASSUME TypeOK, TypeOK', Next PROVE CallsSpend
  <2> SUFFICES ASSUME NEW c \in Calls
               PROVE  /\ StepsLeft(c) <= 6 * Retries + 11
                      /\ StepsLeft(c)' \in 0 .. StepsLeft(c)
                      /\ Coroutine(c) => StepsLeft(c)' < StepsLeft(c)
    BY DEF CallsSpend
  <2>1. StepsLeft(c)' <= StepsLeft(c) /\ (Coroutine(c) => StepsLeft(c)' < StepsLeft(c))
    BY <1>1, <1>2
  <2>2. /\ StepsLeft(c) \in Nat /\ StepsLeft(c)' \in Nat
        /\ StepsLeft(c) <= 6 * Retries + 11
    BY <1>2, StepsLeftType
  <2>3. QED
    BY <2>1, <2>2
<1>3. QED
  BY <1>2, TypeCorrect, PTL DEF Spec

-----------------------------------------------------------------------------
(* ResponseStream.                                                         *)

(* When the coroutine has ended, the sentinel is the last of the queue,    *)
(* for a thread that has not ended.                                        *)
EndComes ==
    producer = "ended" /\ reader # "ended" =>
        queue # <<>> /\ queue[Len(queue)] = Sentinel

(* What a thread that opens the stream finds first.                        *)
FirstComes ==
    /\ producer = "opening" => queue = <<>> /\ reader = "opening"
    /\ (reader = "opening" /\ producer # "opening") =>
           queue # <<>> /\ Head(queue) \in {Response, Exc}

(* Only a thread that drains, or has ended, has closed the response.       *)
CloseComes ==
    /\ reader = "draining" => closing
    /\ closing => reader \in {"draining", "ended"}
    /\ aclosed => closing

StreamInv == StreamTypeOK /\ EndComes /\ FirstComes /\ CloseComes

(* What the coroutine leaves behind in the queue.                          *)
LEMMA LeaveQueues ==
  ASSUME queue \in Seq(Objects), NEW last \in {<<>>, <<Exc>>}, Leave(last)
  PROVE  /\ queue' \in Seq(Objects)
         /\ Len(queue') = Len(queue) + Len(last) + 1
         /\ queue'[Len(queue')] = Sentinel
         /\ queue # <<>> => Head(queue') = Head(queue)
         /\ last = <<Exc>> /\ queue = <<>> => Head(queue') = Exc
<1> DEFINE tail == Append(last, Sentinel)
<1>1. last \in Seq(Objects) /\ Sentinel \in Objects
  <2>1. Sentinel \in Objects /\ Exc \in Objects
    BY DEF Objects
  <2>2. <<>> \in Seq(Objects) /\ <<Exc>> \in Seq(Objects)
    BY <2>1
  <2>3. QED
    BY <2>1, <2>2
<1>2. /\ tail \in Seq(Objects) /\ Len(tail) = Len(last) + 1
      /\ tail[Len(last) + 1] = Sentinel
  BY <1>1
<1>3. last = <<Exc>> => tail[1] = Exc
  <2>1. SUFFICES ASSUME last = <<Exc>> PROVE tail[1] = Exc
    OBVIOUS
  <2>2. Len(last) = 1 /\ last[1] = Exc
    BY <2>1
  <2>3. QED
    BY <1>1, <2>2
<1>4. queue' = queue \o tail /\ Len(last) \in Nat
  BY <1>1 DEF Leave
<1> HIDE DEF tail
<1>5. /\ queue' \in Seq(Objects) /\ Len(queue') = Len(queue) + Len(tail)
      /\ \A k \in 1 .. Len(queue') :
           queue'[k] = IF k <= Len(queue) THEN queue[k] ELSE tail[k - Len(queue)]
  <2>1. ASSUME NEW s \in Seq(Objects), NEW u \in Seq(Objects)
        PROVE  /\ s \o u \in Seq(Objects) /\ Len(s \o u) = Len(s) + Len(u)
               /\ \A k \in 1 .. Len(s) + Len(u) :
                    (s \o u)[k] = IF k <= Len(s) THEN s[k] ELSE u[k - Len(s)]
    OBVIOUS
  <2>2. QED
    BY <1>2, <1>4, <2>1
<1>6. Len(queue) \in Nat
  OBVIOUS
<1>7. Len(queue') = Len(queue) + Len(last) + 1
  BY <1>2, <1>4, <1>5, <1>6
<1>8. queue'[Len(queue')] = Sentinel
  <2>1. Len(queue') \in 1 .. Len(queue') /\ ~(Len(queue') <= Len(queue))
        /\ Len(queue') - Len(queue) = Len(last) + 1
    BY <1>4, <1>6, <1>7
  <2>2. QED
    BY <1>2, <1>5, <2>1
<1>9. Head(queue') = queue'[1] /\ 1 \in 1 .. Len(queue')
  BY <1>4, <1>5, <1>6, <1>7
<1>10. queue # <<>> => Head(queue') = Head(queue)
  BY <1>5, <1>6, <1>9
<1>11. last = <<Exc>> /\ queue = <<>> => Head(queue') = Exc
  <2>1. SUFFICES ASSUME last = <<Exc>>, queue = <<>> PROVE Head(queue') = Exc
    OBVIOUS
  <2>2. Len(queue) = 0
    BY <2>1
  <2>3. QED
    BY <1>3, <1>5, <1>9, <2>1, <2>2
<1>12. QED
  BY <1>5, <1>7, <1>8, <1>10, <1>11

LEMMA StreamStep ==
  ASSUME StreamInv, [StreamNext]_streamVars PROVE StreamInv'
<1> USE DEF StreamInv, StreamTypeOK
<1>1. CASE Opened
  <2>1. queue' = <<Response>> /\ queue' \in Seq(Objects)
    BY <1>1 DEF Opened, FirstComes, Objects
  <2>2. QED
    BY <1>1, <2>1 DEF Opened, EndComes, FirstComes, CloseComes
<1>2. CASE SendChunk
  <2>1. queue' = Append(queue, Chunk) /\ queue' \in Seq(Objects)
    BY <1>2 DEF SendChunk, Objects
  <2>2. queue' # <<>> /\ (queue # <<>> => Head(queue') = Head(queue))
    BY <2>1
  <2>3. QED
    BY <1>2, <2>1, <2>2 DEF SendChunk, EndComes, FirstComes, CloseComes
<1>3. ASSUME NEW last \in {<<>>, <<Exc>>}, Leave(last), producer # "ended",
             producer = "opening" => last = <<Exc>>
      PROVE  StreamInv'
  <2>1. /\ queue' \in Seq(Objects) /\ queue' # <<>>
        /\ queue'[Len(queue')] = Sentinel
        /\ queue # <<>> => Head(queue') = Head(queue)
        /\ last = <<Exc>> /\ queue = <<>> => Head(queue') = Exc
    <3>1. Len(queue') > 0
      BY <1>3, LeaveQueues
    <3>2. QED
      BY <1>3, <3>1, LeaveQueues
  <2>2. EndComes'
    BY <2>1 DEF EndComes
  <2>3. producer' = "ended" /\ UNCHANGED <<aclosed, closing, reader, got>>
    BY <1>3 DEF Leave
  <2>4. FirstComes'
    BY <1>3, <2>1, <2>3 DEF FirstComes
  <2>5. QED
    BY <2>1, <2>2, <2>3, <2>4 DEF CloseComes
<1>4. CASE OpenFails \/ BodyEnds \/ BodyFails \/ SeesClosed
  BY <1>3, <1>4 DEF OpenFails, BodyEnds, BodyFails, SeesClosed
<1>5. CASE AClose
  BY <1>5 DEF AClose, EndComes, FirstComes, CloseComes
<1>6. CASE Take
  <2>1. /\ queue # <<>> /\ Head(queue) \in Objects /\ Tail(queue) \in Seq(Objects)
        /\ reader' = After(Head(queue)) /\ queue' = Tail(queue)
        /\ UNCHANGED <<producer, aclosed, closing>> /\ got' = Head(queue)
    BY <1>6 DEF Take
  <2>2. reader' = "ended" <=> Head(queue) \in {Exc, Sentinel}
    BY <1>6, <2>1 DEF Take, After
  <2>3. EndComes'
    <3>1. SUFFICES ASSUME producer = "ended", reader' # "ended"
                   PROVE  queue' # <<>> /\ queue'[Len(queue')] = Sentinel
      BY <2>1 DEF EndComes
    <3>2. queue[Len(queue)] = Sentinel
      BY <1>6, <3>1 DEF Take, EndComes
    <3>3. Len(queue) > 1
      BY <2>1, <2>2, <3>1, <3>2
    <3>4. /\ Len(Tail(queue)) = Len(queue) - 1
          /\ Tail(queue)[Len(queue) - 1] = queue[Len(queue)]
      BY <3>3
    <3>5. Tail(queue) # <<>>
      <4>1. Len(<<>>) = 0
        OBVIOUS
      <4>2. Len(Tail(queue)) # 0
        BY <3>3, <3>4
      <4>3. QED
        BY <4>1, <4>2
    <3>6. QED
      BY <2>1, <3>2, <3>4, <3>5
  <2>4. reader' # "opening"
    BY <1>6, <2>1 DEF Take, After
  <2>5. producer # "opening"
    BY <2>1 DEF FirstComes
  <2>6. reader' \in {"reading", "draining", "ended"} /\ (reader = "draining" => reader' # "reading")
        /\ (reader # "draining" => reader' # "draining")
    BY <1>6, <2>1 DEF Take, After
  <2>7. CloseComes'
    BY <1>6, <2>1, <2>6 DEF Take, CloseComes
  <2>8. QED
    BY <2>1, <2>3, <2>4, <2>5, <2>6, <2>7 DEF FirstComes
<1>7. CASE Close
  BY <1>7 DEF Close, EndComes, FirstComes, CloseComes
<1>8. CASE UNCHANGED streamVars
  BY <1>8 DEF streamVars, EndComes, FirstComes, CloseComes
<1>9. QED
  BY <1>1, <1>2, <1>4, <1>5, <1>6, <1>7, <1>8 DEF StreamNext, Produce

LEMMA StreamInvariance == StreamSpec => []StreamInv
<1>1. StreamInit => StreamInv
  <2>1. <<>> \in Seq(Objects)
    OBVIOUS
  <2>2. QED
    BY <2>1 DEF StreamInit, StreamInv, StreamTypeOK, EndComes, FirstComes, CloseComes
<1>2. QED
  BY <1>1, StreamStep, PTL DEF StreamSpec

(* Whoever is inside stream() or close() is never left waiting: there is   *)
(* an object in the queue, or the request is under way, or the loop has    *)
(* aclose() to run, or the coroutine has yet to notice it; fairness does   *)
(* the rest (network/__init__.py, stream and _close_response_method).      *)
ReaderIsFed ==
    reader \in {"opening", "draining"} =>
        \/ queue # <<>>
        \/ producer = "opening"
        \/ closing /\ ~aclosed
        \/ producer = "sending" /\ aclosed

THEOREM ReadersAreFed == StreamSpec => []ReaderIsFed
<1>1. StreamInv => ReaderIsFed
  BY DEF StreamInv, StreamTypeOK, EndComes, FirstComes, CloseComes, ReaderIsFed
<1>2. QED
  BY <1>1, StreamInvariance, PTL

(* stream() gets the response or an exception, never a chunk or the        *)
(* sentinel, however early the request fails (network/__init__.py, stream: *)
(* "response = next(generator)").                                          *)
OpensWithResponse ==
    [][reader = "opening" /\ reader' # "opening" => got' \in {Response, Exc}]_streamVars

THEOREM StreamsOpen == StreamSpec => OpensWithResponse
<1>1. ASSUME StreamInv, [StreamNext]_streamVars, reader = "opening", reader' # "opening"
      PROVE  got' \in {Response, Exc}
  <2>1. Take
    BY <1>1 DEF StreamNext, Produce, Opened, OpenFails, SendChunk, BodyEnds, BodyFails,
       SeesClosed, Leave, AClose, Close, streamVars
  <2>2. QED
    BY <1>1, <2>1 DEF Take, StreamInv, FirstComes
<1>2. QED
  BY <1>1, StreamInvariance, PTL DEF StreamSpec, OpensWithResponse

(* What is in the queue and what the coroutine may still put there.        *)
DrainLeft == Len(queue) + (IF producer = "ended" THEN 0 ELSE 2)

(* Once the response is closed, every step of the coroutine or the thread  *)
(* leaves less to drain, even when the body is endless                     *)
(* (network/__init__.py, _close_response_method: "reach the end of         *)
(* _self.generator").                                                      *)
DrainEnds ==
    [][aclosed => /\ DrainLeft' \in 0 .. DrainLeft
                  /\ Produce \/ Take => DrainLeft' < DrainLeft]_streamVars

THEOREM DrainsEnd == StreamSpec => DrainEnds
<1>1. ASSUME StreamInv, StreamNext, aclosed
      PROVE  /\ DrainLeft' \in 0 .. DrainLeft
             /\ Produce \/ Take => DrainLeft' < DrainLeft
  <2> USE <1>1 DEF StreamInv, StreamTypeOK
  <2>1. producer # "opening" /\ reader # "reading"
    BY DEF CloseComes, FirstComes
  <2>2. Len(queue) \in Nat
    OBVIOUS
  <2>3. CASE SeesClosed
    <3>1. Len(queue') = Len(queue) + 1
      BY <2>3, LeaveQueues DEF SeesClosed
    <3>2. producer = "sending" /\ producer' = "ended"
      BY <2>3 DEF SeesClosed, Leave
    <3>3. QED
      BY <2>2, <3>1, <3>2 DEF DrainLeft
  <2>4. CASE Take
    <3>1. Len(queue) > 0 /\ Len(queue') = Len(queue) - 1 /\ producer' = producer
      BY <2>4 DEF Take
    <3>2. QED
      BY <2>2, <3>1 DEF DrainLeft
  <2>5. SeesClosed \/ Take
    BY <2>1 DEF StreamNext, Produce, Opened, OpenFails, SendChunk, BodyEnds, BodyFails,
       AClose, Close
  <2>6. QED
    BY <2>3, <2>4, <2>5
<1>2. ASSUME StreamInv, [StreamNext]_streamVars
      PROVE  [aclosed => /\ DrainLeft' \in 0 .. DrainLeft
                         /\ Produce \/ Take => DrainLeft' < DrainLeft]_streamVars
  BY <1>1, <1>2
<1>3. QED
  BY <1>2, StreamInvariance, PTL DEF StreamSpec, DrainEnds
=============================================================================
