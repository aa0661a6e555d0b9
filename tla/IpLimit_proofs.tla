--------------------------- MODULE IpLimit_proofs ---------------------------
(***************************************************************************)
(* Theorems about IpLimit, for any workers, clients, windows and limits.   *)
(***************************************************************************)
EXTENDS IpLimit, FiniteSetTheorems, TLAPS

Admitted(w) == {h \in Counted(w, windows[w]) : h.id \notin refused}

(* The windows are finite, and admit no more than their limits.            *)
WindowInv(w) ==
    /\ windows[w] \subseteq Hits /\ IsFiniteSet(windows[w])
    /\ Cardinality(Admitted(w)) <= MaxOf(w)

(* The token in Valkey is the one that expires last.                       *)
Newest(i) == i.id = tokenKey /\ \A j \in tokens : j.ends <= i.ends
KeyIsNewest == tokens # {} => \E i \in tokens : Newest(i)
TokensDrawn == \A i \in tokens : 0 < i.id /\ i.id <= drawn /\ i.ends <= now + TokenLive

(* Workers that will replace it, and the tokens there are already.         *)
Drawing == {t \in Threads : place[t] = "token"}
TokenInv ==
    /\ IsFiniteSet(tokens) /\ KeyIsNewest /\ TokensDrawn
    /\ Cardinality(tokens) + Cardinality(Drawing) <= Cardinality(Threads)

IInv == LimitTypeOK /\ (\A w \in Windows : WindowInv(w)) /\ TokenInv

-----------------------------------------------------------------------------
LEMMA WindowConstants ==
  ASSUME NEW w \in Windows PROVE Length(w) \in Nat /\ MaxOf(w) \in Nat
<1>1. CASE w = "api"
  BY <1>1, LimitsAssumption DEF Length, MaxOf
<1>2. CASE w = "suspicious"
  BY <1>2, LimitsAssumption DEF Length, MaxOf
<1>3. CASE w = "burst"
  BY <1>3, LimitsAssumption DEF Length, MaxOf
<1>4. CASE w = "long"
  BY <1>4, LimitsAssumption DEF Length, MaxOf
<1> QED
  BY <1>1, <1>2, <1>3, <1>4 DEF Windows

LEMMA SameLimit ==
  ASSUME UNCHANGED linkToken, NEW w \in Windows PROVE MaxOf(w)' = MaxOf(w)
BY DEF MaxOf

LEMMA NextPlace ==
  ASSUME NEW w \in Windows
  PROVE  AfterApi \in {"ping", "burst"} /\ AfterWindow(w) \in Windows \cup {"ping", "idle"}
<1>1. AfterApi \in {"ping", "burst"}
  BY DEF AfterApi
<1>2. CASE w = "api"
  <2>1. AfterWindow(w) = AfterApi
    BY <1>2 DEF AfterWindow
  <2> QED
    BY <1>1, <2>1 DEF Windows
<1>3. CASE w = "suspicious"
  BY <1>1, <1>3 DEF AfterWindow, Windows
<1>4. CASE w = "burst"
  BY <1>1, <1>4 DEF AfterWindow, Windows
<1>5. CASE w = "long"
  BY <1>1, <1>5 DEF AfterWindow, Windows
<1> QED
  BY <1>2, <1>3, <1>4, <1>5 DEF Windows

LEMMA InitInv == LimitInit => IInv
<1> SUFFICES ASSUME LimitInit PROVE IInv
  OBVIOUS
<1>1. LimitTypeOK
  <2>1. now \in Nat /\ linkToken \in BOOLEAN
    BY DEF LimitInit
  <2>2. windows \in [Windows -> SUBSET Hits] /\ pings \in [Clients -> Nat]
    BY DEF LimitInit
  <2>3. /\ tokenKey \in Nat /\ drawn \in Nat /\ requests \in Nat
        /\ tokens \subseteq [id : Nat, ends : Nat] /\ refused \subseteq Nat
    BY DEF LimitInit
  <2>4. place \in [Threads -> WorkerPlaces]
    BY DEF LimitInit, WorkerPlaces
  <2>5. client \in [Threads -> Clients \cup {None}] /\ request \in [Threads -> Nat]
    BY DEF LimitInit
  <2> QED
    BY <2>1, <2>2, <2>3, <2>4, <2>5 DEF LimitTypeOK
<1>2. ASSUME NEW w \in Windows PROVE WindowInv(w)
  <2>1. windows[w] = {} /\ Admitted(w) = {}
    BY <1>2 DEF LimitInit, Admitted, Counted
  <2>2. Cardinality(Admitted(w)) = 0 /\ IsFiniteSet(windows[w])
    BY <2>1, FS_EmptySet
  <2> QED
    BY <2>1, <2>2, WindowConstants DEF WindowInv
<1>3. TokenInv
  <2>1. tokens = {} /\ Drawing = {}
    BY DEF LimitInit, Drawing
  <2>2. Cardinality(tokens) = 0 /\ Cardinality(Drawing) = 0 /\ IsFiniteSet(tokens)
    BY <2>1, FS_EmptySet
  <2>3. Cardinality(Threads) \in Nat
    BY LimitsAssumption, FS_CardinalityType
  <2> QED
    BY <2>1, <2>2, <2>3 DEF TokenInv, KeyIsNewest, TokensDrawn
<1> QED
  BY <1>1, <1>2, <1>3 DEF IInv

-----------------------------------------------------------------------------
(* Where a worker goes.                                                    *)
Ordinary == WorkerPlaces \ {"token"}

LEMMA TurnsType ==
  ASSUME LimitTypeOK, NEW t \in Threads, NEW p \in WorkerPlaces, Turns(t, p)
  PROVE  place' \in [Threads -> WorkerPlaces]
BY DEF LimitTypeOK, Turns

LEMMA EndsType ==
  ASSUME LimitTypeOK, NEW t \in Threads, Ends(t)
  PROVE  /\ place' \in [Threads -> WorkerPlaces]
         /\ client' \in [Threads -> Clients \cup {None}]
         /\ request' \in [Threads -> Nat]
BY DEF LimitTypeOK, Ends, Turns, WorkerPlaces

LEMMA IncrementType ==
  ASSUME LimitTypeOK, NEW t \in Threads, NEW w \in Windows, Increment(t, w)
  PROVE  windows' \in [Windows -> SUBSET Hits]
<1>1. [id |-> request[t], at |-> now] \in Hits
  BY DEF LimitTypeOK, Hits
<1>2. Counted(w, windows[w]) \subseteq Hits
  BY DEF LimitTypeOK, Counted
<1> QED
  BY <1>1, <1>2 DEF LimitTypeOK, Increment

LEMMA StepType ==
  ASSUME LimitTypeOK, [LimitNext]_limitVars PROVE LimitTypeOK'
<1>1. ASSUME NEW t \in Threads, NEW c \in Clients, Filter(t, c) PROVE LimitTypeOK'
  <2>1. PICK p \in {"api", "ping", "burst"} : Turns(t, p)
    BY <1>1 DEF Filter, AfterApi
  <2>2. place' \in [Threads -> WorkerPlaces]
    BY <2>1, TurnsType DEF WorkerPlaces, Windows
  <2>3. requests' \in Nat
    BY <1>1 DEF Filter, LimitTypeOK
  <2>4. client' \in [Threads -> Clients \cup {None}] /\ request' \in [Threads -> Nat]
    BY <1>1, <2>3 DEF Filter, LimitTypeOK
  <2>5. UNCHANGED <<now, linkToken, windows, pings, tokenKey, tokens, drawn, refused>>
    BY <1>1 DEF Filter, valkeyVars
  <2> QED
    BY <2>2, <2>3, <2>4, <2>5 DEF LimitTypeOK
<1>2. ASSUME NEW t \in Threads, NEW w \in Windows, Refuse(t, w) PROVE LimitTypeOK'
  <2>1. request[t] \in Nat
    BY DEF LimitTypeOK
  <2> QED
    BY <1>2, <2>1, EndsType, IncrementType DEF Refuse, LimitTypeOK
<1>3. ASSUME NEW t \in Threads, NEW w \in Windows, Pass(t, w) PROVE LimitTypeOK'
  <2>1. CASE w = "long"
    BY <1>3, <2>1, EndsType, IncrementType DEF Pass, LimitTypeOK
  <2>2. CASE w # "long"
    <3>1. place' \in [Threads -> WorkerPlaces]
      BY <1>3, <2>2, TurnsType, NextPlace DEF Pass, WorkerPlaces
    <3> QED
      BY <1>3, <2>2, <3>1, IncrementType DEF Pass, LimitTypeOK
  <2> QED
    BY <2>1, <2>2
<1>4. ASSUME NEW t \in Threads, Suspect(t) PROVE LimitTypeOK'
  <2>1. PICK p \in {"renew", "suspicious"} : Turns(t, p)
    BY <1>4 DEF Suspect
  <2>2. place' \in [Threads -> WorkerPlaces]
    BY <2>1, TurnsType DEF WorkerPlaces, Windows
  <2> QED
    BY <1>4, <2>2 DEF Suspect, valkeyVars, LimitTypeOK
<1>5. ASSUME NEW t \in Threads, Renew(t) PROVE LimitTypeOK'
  <2>1. now + PingLive \in Nat
    BY LimitsAssumption DEF LimitTypeOK
  <2>2. pings' \in [Clients -> Nat]
    BY <1>5, <2>1 DEF Renew, LimitTypeOK
  <2>3. place' \in [Threads -> WorkerPlaces]
    BY <1>5, TurnsType DEF Renew, WorkerPlaces
  <2> QED
    BY <1>5, <2>2, <2>3 DEF Renew, LimitTypeOK
<1>6. ASSUME NEW t \in Threads, Drop(t) PROVE LimitTypeOK'
  BY <1>6, EndsType DEF Drop, LimitTypeOK
<1>7. ASSUME NEW t \in Threads, DrawToken(t) PROVE LimitTypeOK'
  BY <1>7 DEF DrawToken, Turns, WorkerPlaces, valkeyVars, LimitTypeOK
<1>8. ASSUME NEW t \in Threads, StoreNewToken(t) PROVE LimitTypeOK'
  <2>1. drawn' \in Nat /\ tokenKey' \in Nat
    BY <1>8 DEF StoreNewToken, LimitTypeOK
  <2>2. tokens' \subseteq [id : Nat, ends : Nat]
    BY <1>8, <2>1, LimitsAssumption DEF StoreNewToken, LimitTypeOK
  <2> QED
    BY <1>8, <2>1, <2>2, EndsType DEF StoreNewToken, LimitTypeOK
<1>9. ASSUME NEW t \in Threads, NEW c \in Clients, Ping(t, c) PROVE LimitTypeOK'
  BY <1>9 DEF Ping, Turns, WorkerPlaces, valkeyVars, LimitTypeOK
<1>10. ASSUME NEW t \in Threads, StorePing(t) PROVE LimitTypeOK'
  <2>1. now + PingLive \in Nat
    BY LimitsAssumption DEF LimitTypeOK
  <2>2. pings' \in [Clients -> Nat]
    BY <1>10, <2>1 DEF StorePing, LimitTypeOK
  <2> QED
    BY <1>10, <2>2, EndsType DEF StorePing, LimitTypeOK
<1>11. ASSUME LimitTick PROVE LimitTypeOK'
  <2>1. now' \in Nat
    BY <1>11 DEF LimitTick, Tick, LimitTypeOK
  <2>2. pings' \in [Clients -> Nat] /\ windows' \in [Windows -> SUBSET Hits]
    BY <1>11, <2>1 DEF LimitTick, LimitTypeOK
  <2>3. tokens' \subseteq [id : Nat, ends : Nat] /\ tokenKey' \in Nat
    BY <1>11, <2>1 DEF LimitTick, LimitTypeOK
  <2> QED
    BY <1>11, <2>1, <2>2, <2>3 DEF LimitTick, LimitTypeOK
<1>12. ASSUME UNCHANGED limitVars PROVE LimitTypeOK'
  BY <1>12 DEF limitVars, limitState, valkeyVars, LimitTypeOK
<1> QED
  BY <1>1, <1>2, <1>3, <1>4, <1>5, <1>6, <1>7, <1>8, <1>9, <1>10, <1>11, <1>12
  DEF LimitNext, WorkerStep

-----------------------------------------------------------------------------
(* A window that admits no more than it did, or what Over has counted.     *)
LEMMA Shrinks ==
  ASSUME NEW w \in Windows, WindowInv(w), UNCHANGED linkToken,
         windows'[w] \subseteq Hits, IsFiniteSet(windows'[w]),
         Admitted(w)' \subseteq Admitted(w)
  PROVE  WindowInv(w)'
<1>1. IsFiniteSet(Admitted(w)) /\ Cardinality(Admitted(w)) \in Nat
  BY FS_Subset, FS_CardinalityType DEF WindowInv, Admitted, Counted
<1>2. Cardinality(Admitted(w)') <= Cardinality(Admitted(w)) /\ IsFiniteSet(Admitted(w)')
  BY <1>1, FS_Subset
<1>3. Cardinality(Admitted(w)') \in Nat
  BY <1>2, FS_CardinalityType
<1>4. MaxOf(w)' = MaxOf(w) /\ MaxOf(w) \in Nat
  BY SameLimit, WindowConstants
<1> QED
  BY <1>1, <1>2, <1>3, <1>4 DEF WindowInv

LEMMA IncrementWindow ==
  ASSUME LimitTypeOK, NEW t \in Threads, NEW w \in Windows, WindowInv(w), Increment(t, w)
  PROVE  /\ windows'[w] = Counted(w, windows[w]) \cup {[id |-> request[t], at |-> now]}
         /\ IsFiniteSet(windows'[w]) /\ windows'[w] \subseteq Hits
         /\ \A v \in Windows : v # w => windows'[v] = windows[v]
<1>1. IsFiniteSet(Counted(w, windows[w]))
  BY FS_Subset DEF WindowInv, Counted
<1>2. windows'[w] = Counted(w, windows[w]) \cup {[id |-> request[t], at |-> now]}
  BY DEF Increment, LimitTypeOK
<1>3. IsFiniteSet(windows'[w])
  BY <1>1, <1>2, FS_AddElement
<1>4. windows'[w] \subseteq Hits
  BY IncrementType
<1> QED
  BY <1>2, <1>3, <1>4 DEF Increment, LimitTypeOK

LEMMA StepWindows ==
  ASSUME IInv, [LimitNext]_limitVars, NEW v \in Windows PROVE WindowInv(v)'
<1> USE DEF IInv
<1>1. ASSUME UNCHANGED <<now, linkToken, windows, refused>> PROVE WindowInv(v)'
  <2>1. Admitted(v)' = Admitted(v)
    BY <1>1 DEF Admitted, Counted, Length
  <2>2. windows'[v] \subseteq Hits /\ IsFiniteSet(windows'[v])
    BY <1>1 DEF WindowInv
  <2> QED
    BY <1>1, <2>1, <2>2, Shrinks
<1>2. ASSUME NEW t \in Threads, NEW w \in Windows, Refuse(t, w) PROVE WindowInv(v)'
  <2>0. /\ Increment(t, w) /\ UNCHANGED <<now, linkToken>>
        /\ refused' = refused \cup {request[t]}
    BY <1>2 DEF Refuse
  <2>1. CASE v = w
    <3>1. Admitted(v)' \subseteq Admitted(v)
      BY <2>0, <2>1, IncrementWindow DEF Admitted, Counted
    <3> QED
      BY <2>0, <2>1, <3>1, IncrementWindow, Shrinks
  <2>2. CASE v # w
    <3>1. windows'[v] = windows[v] /\ Admitted(v)' \subseteq Admitted(v)
      BY <2>0, <2>2, IncrementWindow DEF Admitted, Counted
    <3>2. windows'[v] \subseteq Hits /\ IsFiniteSet(windows'[v])
      BY <3>1 DEF WindowInv
    <3> QED
      BY <2>0, <3>1, <3>2, Shrinks
  <2> QED
    BY <2>1, <2>2
<1>3. ASSUME NEW t \in Threads, NEW w \in Windows, Pass(t, w) PROVE WindowInv(v)'
  <2>0. /\ Increment(t, w) /\ ~Over(t, w) /\ UNCHANGED <<now, linkToken, refused>>
    BY <1>3 DEF Pass
  <2>1. CASE v = w
    <3> DEFINE new == [id |-> request[t], at |-> now]
    <3>1. windows'[w] = Counted(w, windows[w]) \cup {new} /\ IsFiniteSet(windows'[w])
          /\ windows'[w] \subseteq Hits
      BY <2>0, IncrementWindow
    <3>2. Admitted(w)' \subseteq Counted(w, windows[w] \cup {new})
      BY <2>0, <3>1 DEF Admitted, Counted
    <3>3. IsFiniteSet(Counted(w, windows[w] \cup {new}))
      <4>1. IsFiniteSet(windows[w] \cup {new})
        BY FS_AddElement DEF WindowInv
      <4> QED
        BY <4>1, FS_Subset DEF Counted
    <3>4. Cardinality(Counted(w, windows[w] \cup {new})) <= MaxOf(w)
      <4>1. ~(Cardinality(Counted(w, windows[w] \cup {new})) > MaxOf(w))
        BY <2>0 DEF Over
      <4>2. Cardinality(Counted(w, windows[w] \cup {new})) \in Nat
        BY <3>3, FS_CardinalityType
      <4> QED
        BY <4>1, <4>2, WindowConstants
    <3>5. /\ IsFiniteSet(Admitted(w)')
          /\ Cardinality(Admitted(w)') <= Cardinality(Counted(w, windows[w] \cup {new}))
      BY <3>2, <3>3, FS_Subset
    <3>6. Cardinality(Admitted(w)') <= MaxOf(w)'
      <4>1. Cardinality(Admitted(w)') \in Nat
        BY <3>5, FS_CardinalityType
      <4>2. Cardinality(Counted(w, windows[w] \cup {new})) \in Nat
        BY <3>3, FS_CardinalityType
      <4>3. MaxOf(w)' = MaxOf(w) /\ MaxOf(w) \in Nat
        BY <2>0, SameLimit, WindowConstants
      <4> QED
        BY <3>4, <3>5, <4>1, <4>2, <4>3
    <3> QED
      BY <2>1, <3>1, <3>6 DEF WindowInv
  <2>2. CASE v # w
    <3>1. windows'[v] = windows[v] /\ Admitted(v)' \subseteq Admitted(v)
      BY <2>0, <2>2, IncrementWindow DEF Admitted, Counted
    <3>2. windows'[v] \subseteq Hits /\ IsFiniteSet(windows'[v])
      BY <3>1 DEF WindowInv
    <3> QED
      BY <2>0, <3>1, <3>2, Shrinks
  <2> QED
    BY <2>1, <2>2
<1>4. ASSUME NEW t \in Threads, Drop(t) PROVE WindowInv(v)'
  <2>0. /\ windows' = [windows EXCEPT !["suspicious"] = {}]
        /\ UNCHANGED <<now, linkToken, refused>>
    BY <1>4 DEF Drop
  <2>1. windows'[v] = windows[v] \/ windows'[v] = {}
    BY <2>0 DEF LimitTypeOK
  <2>2. windows'[v] \subseteq windows[v]
    BY <2>1
  <2>3. windows'[v] \subseteq Hits /\ IsFiniteSet(windows'[v])
    BY <2>2, FS_Subset DEF WindowInv
  <2>4. Admitted(v)' \subseteq Admitted(v)
    BY <2>0, <2>2 DEF Admitted, Counted
  <2> QED
    BY <2>0, <2>3, <2>4, Shrinks
<1>5. ASSUME LimitTick PROVE WindowInv(v)'
  <2>0. /\ windows'[v] = {h \in windows[v] : h.at > now' - Length(v)}
        /\ UNCHANGED <<linkToken, refused>> /\ now' = now + 1
    BY <1>5 DEF LimitTick, Tick
  <2>1. windows'[v] \subseteq Hits /\ IsFiniteSet(windows'[v])
    BY <2>0, FS_Subset DEF WindowInv
  <2>2. ASSUME NEW h \in Hits, h.at > now' - Length(v) PROVE h.at > now - Length(v)
    <3>1. h.at \in Nat /\ now \in Nat /\ Length(v) \in Nat
      BY WindowConstants DEF Hits, LimitTypeOK
    <3> QED
      BY <2>0, <2>2, <3>1
  <2>3. Admitted(v)' \subseteq Admitted(v)
    BY <2>0, <2>1, <2>2 DEF Admitted, Counted
  <2> QED
    BY <2>0, <2>1, <2>3, Shrinks
<1> QED
  <2>1. CASE \/ \E t \in Threads, w \in Windows : Refuse(t, w) \/ Pass(t, w)
             \/ \E t \in Threads : Drop(t)
             \/ LimitTick
    BY <2>1, <1>2, <1>3, <1>4, <1>5
  <2>2. CASE ~(\/ \E t \in Threads, w \in Windows : Refuse(t, w) \/ Pass(t, w)
               \/ \E t \in Threads : Drop(t)
               \/ LimitTick)
    <3>1. UNCHANGED <<now, linkToken, windows, refused>>
      BY <2>2 DEF LimitNext, WorkerStep, Filter, Suspect, Renew, DrawToken,
         StoreNewToken, Ping, StorePing, valkeyVars, limitVars, limitState
    <3> QED
      BY <3>1, <1>1
  <2> QED
    BY <2>1, <2>2

-----------------------------------------------------------------------------
(* Workers that draw no token leave the tokens as they are.                *)
LEMMA SameTokens ==
  ASSUME TokenInv, UNCHANGED <<now, tokenKey, tokens, drawn>>, Drawing' = Drawing
  PROVE  TokenInv'
<1>1. KeyIsNewest' /\ TokensDrawn'
  BY DEF TokenInv, KeyIsNewest, Newest, TokensDrawn
<1> QED
  BY <1>1 DEF TokenInv

LEMMA DrawingFinite ==
  /\ IsFiniteSet(Drawing) /\ Cardinality(Drawing) \in Nat /\ Cardinality(Threads) \in Nat
  /\ Cardinality(Drawing) <= Cardinality(Threads)
<1>1. Drawing \subseteq Threads
  BY DEF Drawing
<1>2. IsFiniteSet(Drawing) /\ Cardinality(Drawing) <= Cardinality(Threads)
  BY <1>1, LimitsAssumption, FS_Subset
<1> QED
  BY <1>2, LimitsAssumption, FS_CardinalityType

LEMMA StepTokens ==
  ASSUME IInv, [LimitNext]_limitVars PROVE TokenInv'
<1> USE DEF IInv
<1>0. drawn \in Nat /\ tokenKey \in Nat /\ now \in Nat /\ TokenLive \in Nat /\ TokenLive > 0
  BY LimitsAssumption DEF LimitTypeOK
<1>t. \A i \in tokens : i.id \in Nat /\ i.ends \in Nat
  BY DEF LimitTypeOK
<1>1. ASSUME NEW t \in Threads, NEW p, Turns(t, p), place[t] # "token", p # "token",
             UNCHANGED <<now, tokenKey, tokens, drawn>>
      PROVE  TokenInv'
  <2>1. Drawing' = Drawing
    BY <1>1 DEF Turns, Drawing, LimitTypeOK
  <2> QED
    BY <1>1, <2>1, SameTokens
<1>2. ASSUME NEW t \in Threads, NEW c \in Clients, Filter(t, c) \/ Ping(t, c) PROVE TokenInv'
  <2>1. PICK p \in {"api", "ping", "burst", "valid"} : Turns(t, p)
    BY <1>2 DEF Filter, Ping, AfterApi
  <2> QED
    BY <1>1, <1>2, <2>1 DEF Filter, Ping, valkeyVars
<1>3. ASSUME NEW t \in Threads, NEW w \in Windows, Refuse(t, w) \/ Pass(t, w) PROVE TokenInv'
  <2>1. PICK p \in Windows \cup {"ping", "idle"} : Turns(t, p)
    BY <1>3, NextPlace DEF Refuse, Pass, Ends
  <2>2. place[t] # "token" /\ p # "token"
    BY <1>3 DEF Refuse, Pass, Windows
  <2> QED
    BY <1>1, <1>3, <2>1, <2>2 DEF Refuse, Pass
<1>4. ASSUME NEW t \in Threads, Suspect(t) \/ Renew(t) \/ Drop(t) \/ StorePing(t)
      PROVE TokenInv'
  <2>1. PICK p \in {"renew", "suspicious", "drop", "idle"} : Turns(t, p)
    BY <1>4 DEF Suspect, Renew, Drop, StorePing, Ends
  <2> QED
    BY <1>1, <1>4, <2>1 DEF Suspect, Renew, Drop, StorePing, valkeyVars
<1>5. ASSUME NEW t \in Threads, DrawToken(t) PROVE TokenInv'
  <2>1. tokens = {}
    BY <1>0, <1>5 DEF DrawToken, TokenFound, TokenInv, KeyIsNewest, Newest, TokensDrawn, LimitTypeOK
  <2>2. tokens' = {}
    BY <1>5, <2>1 DEF DrawToken, valkeyVars
  <2>3. IsFiniteSet(tokens') /\ Cardinality(tokens') = 0
    BY <2>2, FS_EmptySet
  <2>4. Cardinality(Drawing') <= Cardinality(Threads) /\ Cardinality(Drawing') \in Nat
    <3>1. Drawing' \subseteq Threads
      BY DEF Drawing
    <3>2. IsFiniteSet(Drawing') /\ Cardinality(Drawing') <= Cardinality(Threads)
      BY <3>1, LimitsAssumption, FS_Subset
    <3> QED
      BY <3>2, FS_CardinalityType
  <2> QED
    BY <2>2, <2>3, <2>4 DEF TokenInv, KeyIsNewest, TokensDrawn
<1>6. ASSUME NEW t \in Threads, StoreNewToken(t) PROVE TokenInv'
  <2>0. PICK new : new = [id |-> drawn + 1, ends |-> now + TokenLive]
    OBVIOUS
  <2>1. /\ tokens' = tokens \cup {new} /\ tokenKey' = drawn + 1 /\ drawn' = drawn + 1
        /\ now' = now
    BY <1>6, <2>0 DEF StoreNewToken
  <2>2. Drawing' = Drawing \ {t} /\ t \in Drawing
    BY <1>6 DEF StoreNewToken, Ends, Turns, Drawing, LimitTypeOK
  <2>3. KeyIsNewest'
    <3>1. new.ends = now + TokenLive /\ new.id = drawn + 1 /\ new \in tokens'
      BY <2>0, <2>1
    <3>2. \A j \in tokens : j.ends <= now + TokenLive
      BY DEF TokenInv, TokensDrawn
    <3>3. now + TokenLive <= now + TokenLive
      BY <1>0
    <3>4. Newest(new)'
      BY <2>1, <3>1, <3>2, <3>3 DEF Newest
    <3> QED
      BY <3>1, <3>4 DEF KeyIsNewest
  <2>4. TokensDrawn'
    <3>1. ASSUME NEW i \in tokens PROVE 0 < i.id /\ i.id <= drawn + 1 /\ i.ends <= now + TokenLive
      BY <1>0, <1>t DEF TokenInv, TokensDrawn
    <3>2. 0 < new.id /\ new.id <= drawn + 1 /\ new.ends <= now + TokenLive
      BY <1>0, <2>0
    <3> QED
      BY <2>1, <3>1, <3>2 DEF TokensDrawn
  <2>5. IsFiniteSet(tokens') /\ Cardinality(tokens') <= Cardinality(tokens) + 1
    <3>1. Cardinality(tokens) \in Nat
      BY FS_CardinalityType DEF TokenInv
    <3>2. /\ IsFiniteSet(tokens \cup {new})
          /\ Cardinality(tokens \cup {new}) =
               IF new \in tokens THEN Cardinality(tokens) ELSE Cardinality(tokens) + 1
      BY FS_AddElement DEF TokenInv
    <3> QED
      BY <2>1, <3>1, <3>2
  <2>6. Cardinality(Drawing') = Cardinality(Drawing) - 1
    BY <2>2, DrawingFinite, FS_RemoveElement
  <2>7. Cardinality(tokens) \in Nat /\ Cardinality(tokens') \in Nat
    BY <2>5, FS_CardinalityType DEF TokenInv
  <2> QED
    BY <2>3, <2>4, <2>5, <2>6, <2>7, DrawingFinite DEF TokenInv
<1>7. ASSUME LimitTick PROVE TokenInv'
  <2>1. /\ tokens' = {i \in tokens : now' < i.ends} /\ UNCHANGED <<drawn, place>>
        /\ now' = now + 1
    BY <1>7 DEF LimitTick, Tick
  <2>2. tokens' \subseteq tokens /\ Drawing' = Drawing
    BY <2>1 DEF Drawing
  <2>3. IsFiniteSet(tokens') /\ Cardinality(tokens') <= Cardinality(tokens)
    BY <2>2, FS_Subset DEF TokenInv
  <2>4. Cardinality(tokens) \in Nat /\ Cardinality(tokens') \in Nat
    BY <2>3, FS_CardinalityType DEF TokenInv
  <2>5. TokensDrawn'
    <3>1. ASSUME NEW i \in tokens PROVE i.ends <= now' + TokenLive
      BY <1>0, <1>t, <2>1 DEF TokenInv, TokensDrawn
    <3> QED
      BY <2>1, <2>2, <3>1 DEF TokenInv, TokensDrawn
  <2>6. KeyIsNewest'
    <3>1. SUFFICES ASSUME NEW j \in tokens' PROVE \E i \in tokens' : Newest(i)'
      BY DEF KeyIsNewest
    <3>2. PICK i \in tokens : Newest(i)
      BY <2>2, <3>1 DEF TokenInv, KeyIsNewest
    <3>3. j.ends <= i.ends /\ now' < j.ends
      BY <2>1, <3>1, <3>2 DEF Newest
    <3>4. i \in tokens'
      <4>1. j.ends \in Nat /\ i.ends \in Nat /\ now' \in Nat
        BY <1>0, <1>t, <2>1, <2>2, <3>1
      <4> QED
        BY <2>1, <3>3, <4>1
    <3>5. tokenKey' = tokenKey
      BY <1>7, <3>2, <3>4 DEF LimitTick, Newest
    <3> QED
      BY <2>2, <3>2, <3>4, <3>5 DEF Newest
  <2> QED
    BY <2>2, <2>3, <2>4, <2>5, <2>6, DrawingFinite DEF TokenInv
<1>8. ASSUME UNCHANGED limitVars PROVE TokenInv'
  <2>1. Drawing' = Drawing
    BY <1>8 DEF Drawing, limitVars, limitState
  <2> QED
    BY <1>8, <2>1, SameTokens DEF limitVars, limitState, valkeyVars
<1> QED
  BY <1>2, <1>3, <1>4, <1>5, <1>6, <1>7, <1>8 DEF LimitNext, WorkerStep

-----------------------------------------------------------------------------
(* IInv holds in every state.                                              *)
LEMMA Invariance == LimitSpec => []IInv
<1>1. IInv /\ [LimitNext]_limitVars => IInv'
  <2> SUFFICES ASSUME IInv, [LimitNext]_limitVars PROVE IInv'
    OBVIOUS
  <2>1. LimitTypeOK'
    BY StepType DEF IInv
  <2>2. \A w \in Windows : WindowInv(w)'
    BY StepWindows
  <2>3. TokenInv'
    BY StepTokens
  <2> QED
    BY <2>1, <2>2, <2>3 DEF IInv
<1> QED
  BY InitInv, <1>1, PTL DEF LimitSpec

(* No interleaving of workers lets more requests through a window than its *)
(* limit, whatever the limits are (ip_limit.py, filter_request).           *)
THEOREM AdmittedAreBounded == LimitSpec => []AdmittedBounded
<1>1. IInv => AdmittedBounded
  BY DEF IInv, WindowInv, Admitted, AdmittedBounded
<1> QED
  BY Invariance, <1>1, PTL

(* There are never more tokens in use than workers, however many workers   *)
(* draw one at the same time (link_token.py, get_token).                   *)
THEOREM LiveTokensAreBounded == LimitSpec => []LiveTokensBounded
<1>1. IInv => LiveTokensBounded
  <2> SUFFICES ASSUME IInv PROVE Cardinality(tokens) <= Cardinality(Threads)
    BY DEF LiveTokensBounded
  <2>1. Cardinality(tokens) \in Nat
    BY FS_CardinalityType DEF IInv, TokenInv
  <2> QED
    BY <2>1, DrawingFinite DEF IInv, TokenInv
<1> QED
  BY Invariance, <1>1, PTL
=============================================================================
