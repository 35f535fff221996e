----------------------------- MODULE ServerProofs -----------------------------
(***************************************************************************)
(* Proofs about StreamServer, for any servers, paths and numbers.          *)
(*                                                                         *)
(* The accept loop goes on with the number of a descriptor.  What makes    *)
(* that harmless, as far as it is, is that a number held is held once: the *)
(* loop's socket is gone, or whatever is accepted by its number comes from *)
(* that socket and belongs to the server whose handler runs.               *)
(***************************************************************************)
EXTENDS StreamServer, TLAPS

\* What close(), a listen() that fails and ~Server have in common.
Lets(s) ==
    /\ sock' = [sock EXCEPT ![s] = 0]
    /\ phase' = PhaseAfter(s) /\ queue' = QueueAfter(s)
    /\ edge' = edge \ {sock[s]} /\ failing' = failing \ {sock[s]}
    /\ UNCHANGED <<made, owner, number, name, arrived>>

\* Only s may have other endpoints than before.
OthersKnow(s) == \A t \in Servers \ {s} : bindEp'[t] = bindEp[t] /\ localEp'[t] = localEp[t]

\* What the servers and the kernel agree on about sockets.
Sound == Holds /\ Held /\ Distinct /\ Quiet /\ Knows

LEMMA InitSInv == Init => SInv
<1> SUFFICES ASSUME Init PROVE SInv
  OBVIOUS
<1> USE ServerAssumption DEF Init
<1>1. TypeOK
  BY SMT DEF TypeOK, MaybeEndpoints, Endpoints, Sockets, MaybeSockets, Points
<1>2. Holds /\ Held /\ Distinct
  BY SMT DEF Holds, Held, Distinct
<1>3. Quiet /\ Knows /\ Loops /\ NoStranded
  BY SMT DEF Quiet, Knows, Loops, NoStranded
<1>4. QED BY <1>1, <1>2, <1>3 DEF SInv, Agree

-----------------------------------------------------------------------------
(* Types.                                                                  *)

\* Letting a socket go keeps the types.
LEMMA LetsTypes ==
    ASSUME TypeOK, NEW s \in Servers, Lets(s)
    PROVE  /\ sock' \in [Servers -> MaybeSockets]
           /\ phase' \in [Sockets -> {"none", "attached", "listening", "gone"}]
           /\ queue' \in [Sockets -> Nat]
           /\ edge' \subseteq Sockets /\ failing' \subseteq Sockets
<1>1. sock' \in [Servers -> MaybeSockets]
  BY ServerAssumption, SMT DEF TypeOK, Lets, MaybeSockets
<1>2. phase' \in [Sockets -> {"none", "attached", "listening", "gone"}]
  BY Zenon DEF TypeOK, Lets, PhaseAfter
<1>3. queue' \in [Sockets -> Nat]
  BY SMT DEF TypeOK, Lets, QueueAfter
<1>4. edge' \subseteq Sockets /\ failing' \subseteq Sockets
  BY Zenon DEF TypeOK, Lets
<1>5. QED BY <1>1, <1>2, <1>3, <1>4

\* close() lets the socket go and no endpoint.
LEMMA CloseLets ==
    ASSUME NEW s \in Servers, Close(s)
    PROVE  Lets(s) /\ OthersKnow(s) /\ UNCHANGED <<bindEp, localEp>>
BY DEF Close, Lets, OthersKnow

\* So does a listen() that fails, after it has taken the endpoint.
LEMMA ListenFailsLets ==
    ASSUME TypeOK, NEW s \in Servers, NEW ep, ListenFails(s, ep)
    PROVE  Lets(s) /\ OthersKnow(s)
BY SMT DEF TypeOK, ListenFails, Lets, OthersKnow

\* So does the destructor.
LEMMA DestroyLets ==
    ASSUME TypeOK, NEW s \in Servers, Destroy(s)
    PROVE  Lets(s) /\ OthersKnow(s)
BY SMT DEF TypeOK, Destroy, Lets, OthersKnow, runVars

\* Unlinking a path forgets whose file it was.
LEMMA FilesAfterTypes ==
    ASSUME TypeOK, NEW s \in Servers
    PROVE  FilesAfter(s) \in [Paths -> MaybeSockets] /\ 0 \in MaybeSockets
<1>1. 0 \in MaybeSockets
  BY ServerAssumption, SMT DEF MaybeSockets
<1>2. QED BY <1>1, Zenon DEF TypeOK, FilesAfter

\* Closing keeps the types.
LEMMA CloseTypes ==
    ASSUME TypeOK, NEW s \in Servers, Close(s),
           at' \in Points, who' \in Servers \cup {"nobody"}, src' \in MaybeSockets
    PROVE  TypeOK'
<1>1. /\ sock' \in [Servers -> MaybeSockets]
      /\ phase' \in [Sockets -> {"none", "attached", "listening", "gone"}]
      /\ queue' \in [Sockets -> Nat]
      /\ edge' \subseteq Sockets /\ failing' \subseteq Sockets
  BY CloseLets, LetsTypes
<1>2. late' \subseteq Servers
  BY DEF Close, TypeOK
<1>3. file' \in [Paths -> MaybeSockets]
  BY FilesAfterTypes DEF Close
<1>4. UNCHANGED <<alive, bindEp, localEp, made, owner, number, name, arrived>>
  BY DEF Close
<1>5. QED BY <1>1, <1>2, <1>3, <1>4 DEF TypeOK

\* So does a listen(), however far it gets.
LEMMA ListenTypes ==
    ASSUME TypeOK, NEW s \in Servers, NEW ep \in Endpoints, Listen(s, ep), UNCHANGED runVars
    PROVE  TypeOK'
<1> USE DEF TypeOK
<1>1. CASE ListenFails(s, ep)
  <2>1. /\ sock' \in [Servers -> MaybeSockets]
        /\ phase' \in [Sockets -> {"none", "attached", "listening", "gone"}]
        /\ queue' \in [Sockets -> Nat]
        /\ edge' \subseteq Sockets /\ failing' \subseteq Sockets
    BY <1>1, ListenFailsLets, LetsTypes
  <2>2. late' \subseteq Servers
    BY <1>1 DEF ListenFails
  <2>3. file' \in [Paths -> MaybeSockets]
    BY <1>1, FilesAfterTypes DEF ListenFails
  <2>4. bindEp' \in [Servers -> MaybeEndpoints]
    BY <1>1 DEF ListenFails, MaybeEndpoints
  <2>5. UNCHANGED <<alive, localEp, made, owner, number, name, arrived, at, who, src>>
    BY <1>1 DEF ListenFails, runVars
  <2>6. QED BY <2>1, <2>2, <2>3, <2>4, <2>5, SMT
<1>2. CASE ListenWith(s, ep)
  <2> DEFINE l == made + 1
  <2>1. l \in Sockets /\ l \in MaybeSockets /\ made' = l
    BY <1>2, ServerAssumption, SMT DEF ListenWith, Sockets, MaybeSockets
  <2>2. sock' \in [Servers -> MaybeSockets] /\ owner' \in [Sockets -> Servers \cup {"nobody"}]
    BY <1>2, <2>1, SMT DEF ListenWith
  <2>3. number' \in [Sockets -> Numbers \cup {0}]
    BY <1>2, <2>1, SMT DEF ListenWith, FreeAfter
  <2>4. late' \subseteq Servers /\ edge' \subseteq Sockets /\ failing' \subseteq Sockets
    BY <1>2 DEF ListenWith
  <2>5. bindEp' \in [Servers -> MaybeEndpoints] /\ queue' \in [Sockets -> Nat]
    BY <1>2, SMT DEF ListenWith, MaybeEndpoints, QueueAfter
  <2>6. phase' \in [Sockets -> {"none", "attached", "listening", "gone"}]
    BY <1>2, <2>1, SMT DEF ListenWith, PhaseAfter
  <2>7. name' \in [Sockets -> MaybeEndpoints] /\ localEp' \in [Servers -> MaybeEndpoints]
    BY <1>2, <2>1, SMT DEF ListenWith, Named, MaybeEndpoints
  <2>8. file' \in [Paths -> MaybeSockets]
    <3>1. PICK result \in Results : file' = FilesWith(s, l, ep, result)
      BY <1>2 DEF ListenWith
    <3>2. FilesWith(s, l, ep, result) \in [Paths -> MaybeSockets]
      BY <2>1, FilesAfterTypes, Zenon DEF FilesWith
    <3>3. QED BY <3>1, <3>2
  <2>9. UNCHANGED <<alive, arrived, at, who, src>>
    BY <1>2 DEF ListenWith, runVars
  <2>10. QED BY <2>1, <2>2, <2>3, <2>4, <2>5, <2>6, <2>7, <2>8, <2>9, SMT
<1>3. QED BY <1>1, <1>2 DEF Listen

\* Every step keeps the types.
LEMMA TypesKept ==
    ASSUME TypeOK, Loops, [Next]_vars
    PROVE  TypeOK'
<1> USE DEF apiVars, sockVars, waitVars, runVars
<1>1. ASSUME NEW s \in Servers, UserListen(s) PROVE TypeOK'
  BY <1>1, ListenTypes DEF UserListen
<1>2. ASSUME NEW s \in Servers, UserClose(s) PROVE TypeOK'
  BY <1>2, CloseTypes DEF UserClose, TypeOK
<1>3. ASSUME NEW s \in Servers, Destroy(s) PROVE TypeOK'
  <2>1. Lets(s)
    BY <1>3, DestroyLets
  <2>2. /\ sock' \in [Servers -> MaybeSockets]
        /\ phase' \in [Sockets -> {"none", "attached", "listening", "gone"}]
        /\ queue' \in [Sockets -> Nat]
        /\ edge' \subseteq Sockets /\ failing' \subseteq Sockets
    BY <2>1, LetsTypes
  <2>3. bindEp' \in [Servers -> MaybeEndpoints] /\ localEp' \in [Servers -> MaybeEndpoints]
    BY <1>3, Zenon DEF Destroy, TypeOK, MaybeEndpoints
  <2>4. alive' \subseteq Servers /\ late' \subseteq Servers
    BY <1>3 DEF Destroy, TypeOK
  <2>5. UNCHANGED <<made, owner, number, name, arrived, file, at, who, src>>
    BY <1>3 DEF Destroy
  <2>6. QED BY <2>2, <2>3, <2>4, <2>5 DEF TypeOK
<1>4. ASSUME NEW s \in Servers, ErrorEvent(s) PROVE TypeOK'
  <2>1. CASE at = "idle" /\ Close(s) /\ UNCHANGED runVars
    BY <2>1, CloseTypes DEF TypeOK
  <2>2. CASE Starts("erring", s) /\ UNCHANGED <<apiVars, late, sockVars, waitVars, file>>
    BY <2>2, Zenon DEF TypeOK, Starts, Points
  <2>3. QED BY <1>4, <2>1, <2>2 DEF ErrorEvent
<1>5. CASE ErrorReturns
  <2>1. who \in Servers /\ Close(who)
    BY <1>5 DEF ErrorReturns, Ends, Loops
  <2>2. at' \in Points /\ who' \in Servers \cup {"nobody"} /\ src' \in MaybeSockets
    BY <1>5, ServerAssumption, SMT DEF ErrorReturns, Ends, Points, MaybeSockets
  <2>3. QED BY <2>1, <2>2, CloseTypes
<1>6. ASSUME NEW s \in Servers, EofEvent(s) PROVE TypeOK'
  BY <1>6, Zenon DEF TypeOK, EofEvent, Starts, Points
<1>7. CASE ClosedReturns
  <2>1. who \in Servers
    BY <1>7 DEF ClosedReturns, Ends, Loops
  <2>2. at' \in Points /\ who' \in Servers \cup {"nobody"} /\ src' \in MaybeSockets
    BY <1>7, ServerAssumption, SMT DEF ClosedReturns, Ends, Points, MaybeSockets
  <2>3. bindEp' \in [Servers -> MaybeEndpoints] /\ localEp' \in [Servers -> MaybeEndpoints]
    BY <1>7, <2>1, Zenon DEF ClosedReturns, TypeOK, MaybeEndpoints
  <2>4. QED BY <1>7, <2>2, <2>3 DEF TypeOK, ClosedReturns
<1>8. ASSUME NEW s \in Servers, ReadEvent(s) PROVE TypeOK'
  BY <1>8, Zenon DEF TypeOK, ReadEvent, Starts, Points
<1>9. ASSUME NEW l \in Sockets, Accept(l) PROVE TypeOK'
  <2>1. queue' \in [Sockets -> Nat]
    BY <1>9, SMT DEF TypeOK, Accept
  <2>2. at' \in Points
    BY <1>9 DEF Accept, Goes, Points
  <2>3. QED BY <1>9, <2>1, <2>2 DEF TypeOK, Accept, Goes
<1>10. CASE AcceptedReturns
  BY <1>10, Zenon DEF TypeOK, AcceptedReturns, Goes, Points
<1>11. CASE AcceptsAll \/ FailedReturns
  <2>1. at' \in Points /\ who' \in Servers \cup {"nobody"} /\ src' \in MaybeSockets
    BY <1>11, ServerAssumption, SMT DEF AcceptsAll, FailedReturns, Ends, Points, MaybeSockets
  <2>2. QED BY <1>11, <2>1 DEF TypeOK, AcceptsAll, FailedReturns
<1>12. CASE AcceptFails
  <2>1. queue' \in [Sockets -> Nat] /\ failing' \subseteq Sockets
    BY <1>12, SMT DEF TypeOK, AcceptFails, Targets
  <2>2. at' \in Points
    BY <1>12 DEF AcceptFails, Goes, Points
  <2>3. QED BY <1>12, <2>1, <2>2 DEF TypeOK, AcceptFails, Goes
<1>13. ASSUME NEW l \in Sockets, ConnectionArrives(l) PROVE TypeOK'
  <2>1. queue' \in [Sockets -> Nat] /\ edge' \subseteq Sockets /\ arrived' \in Nat
    BY <1>13, SMT DEF TypeOK, ConnectionArrives
  <2>2. QED BY <1>13, <2>1 DEF TypeOK, ConnectionArrives
<1>14. CASE UNCHANGED vars
  BY <1>14 DEF vars, TypeOK
<1>15. QED
  BY <1>1, <1>2, <1>3, <1>4, <1>5, <1>6, <1>7, <1>8, <1>9, <1>10, <1>11, <1>12, <1>13,
     <1>14 DEF Next, Accepting

-----------------------------------------------------------------------------
(* Sockets.                                                                *)

\* Letting a socket go leaves the others to their servers.
LEMMA LetsKeeps ==
    ASSUME TypeOK, Sound, NEW s \in Servers, Lets(s), OthersKnow(s)
    PROVE  Sound'
<1> USE DEF Sound, Lets
<1>1. /\ \A t \in Servers : sock'[t] = (IF t = s THEN 0 ELSE sock[t])
      /\ \A l \in Sockets : /\ phase'[l] = (IF l = sock[s] THEN "gone" ELSE phase[l])
                            /\ queue'[l] = (IF l = sock[s] THEN 0 ELSE queue[l])
  BY Zenon DEF TypeOK, PhaseAfter, QueueAfter
<1>2. \A t \in Servers : sock[t] \in MaybeSockets
  BY DEF TypeOK
<1>3. \A t \in Servers \ {s} : sock[t] # 0 => sock[t] # sock[s]
  BY DEF Holds
<1>4. \A t \in Servers : sock[t] # 0 => sock[t] \in Sockets
  BY <1>2, ServerAssumption, SMT DEF Sockets, MaybeSockets
<1>5. Holds'
  <2>1. \A t \in Servers : sock'[t] # 0 =>
            sock[t] # 0 /\ sock'[t] = sock[t] /\ phase'[sock[t]] = phase[sock[t]]
    BY <1>1, <1>3, <1>4
  <2>2. made' = made /\ owner' = owner
    OBVIOUS
  <2>3. QED BY <2>1, <2>2 DEF Holds
<1>6. Held'
  BY <1>1, <1>4, SMT DEF Held, Holds
<1>7. Distinct'
  <2>1. \A t \in Servers : sock'[t] # 0 => sock[t] # 0 /\ sock'[t] = sock[t]
    BY <1>1
  <2>2. QED BY <2>1 DEF Distinct
<1>8. Quiet'
  <2>1. ASSUME NEW l \in Sockets, l > made' PROVE phase'[l] = "none"
    <3>1. phase[l] = "none"
      BY <2>1 DEF Quiet
    <3>2. l # sock[s]
      BY <3>1, <2>1, ServerAssumption, SMT DEF Holds, Sockets
    <3>3. QED BY <1>1, <3>1, <3>2
  <2>2. ASSUME NEW l \in Sockets, queue'[l] > 0 \/ l \in edge' PROVE phase'[l] = "listening"
    <3>1. CASE l = sock[s]
      BY <3>1, <2>2, <1>1, SMT
    <3>2. CASE l # sock[s]
      BY <3>2, <2>2, <1>1 DEF Quiet
    <3>3. QED BY <3>1, <3>2
  <2>3. QED BY <2>1, <2>2 DEF Quiet
<1>9. Knows'
  <2>1. \A l \in Sockets : phase'[l] = "listening" =>
            phase[l] = "listening" /\ owner[l] \in Servers \ {s}
    BY <1>1, SMT DEF Held
  <2>2. QED BY <2>1 DEF Knows, OthersKnow
<1>10. QED BY <1>5, <1>6, <1>7, <1>8, <1>9

\* A new socket is its server's, under a number that nobody holds.
LEMMA ListenWithKeeps ==
    ASSUME TypeOK, Sound, NEW s \in Servers, NEW ep \in Endpoints, ListenWith(s, ep)
    PROVE  Sound'
<1> DEFINE l == made + 1
<1> USE DEF Sound
<1>1. l \in Sockets /\ l # 0 /\ made' = l /\ phase[l] = "none" /\ made \in Nat
  BY ServerAssumption, SMT DEF ListenWith, Sockets, TypeOK, MaybeSockets, Quiet
<1>2. /\ \A t \in Servers : sock'[t] = (IF t = s THEN l ELSE sock[t])
      /\ \A k \in Sockets : owner'[k] = (IF k = l THEN s ELSE owner[k])
      /\ \A k \in Sockets : queue'[k] = (IF k = sock[s] THEN 0 ELSE queue[k])
  BY <1>1, Zenon DEF ListenWith, TypeOK, QueueAfter
<1>3. PICK n \in FreeAfter(s) : number' = [number EXCEPT ![l] = n]
  BY DEF ListenWith
<1>4. \A k \in Sockets : number'[k] = (IF k = l THEN n ELSE number[k])
  BY <1>1, <1>3, Zenon DEF TypeOK
<1>5. PICK result \in Results :
        /\ phase' = [PhaseAfter(s) EXCEPT ![l] =
                        IF result = "listening" THEN "listening" ELSE "attached"]
        /\ IF result \in {"bound", "listening"}
           THEN Named(s, l, ep)
           ELSE UNCHANGED <<name, localEp>>
  BY DEF ListenWith
<1>6. /\ phase'[l] = (IF result = "listening" THEN "listening" ELSE "attached")
      /\ \A k \in Sockets : k # l =>
            phase'[k] = (IF k = sock[s] THEN "gone" ELSE phase[k])
  BY <1>1, <1>5, Zenon DEF PhaseAfter
<1>7. \A t \in Servers : sock[t] # 0 => sock[t] \in Sockets /\ sock[t] <= made /\ sock[t] # l
  BY <1>1, ServerAssumption, SMT DEF TypeOK, Holds, Sockets, MaybeSockets
<1>8. \A t \in Servers \ {s} : sock[t] # 0 => sock[t] # sock[s]
  BY DEF Holds
<1>9. Holds'
  <2>1. ASSUME NEW t \in Servers, sock'[t] # 0
        PROVE  /\ sock'[t] <= made' /\ owner'[sock'[t]] = t
               /\ phase'[sock'[t]] \in {"attached", "listening"}
    <3>1. CASE t = s
      BY <3>1, <1>1, <1>2, <1>6, SMT
    <3>2. CASE t # s
      <4>1. sock'[t] = sock[t] /\ sock[t] \in Sockets /\ sock[t] # l /\ sock[t] # sock[s]
        BY <3>2, <2>1, <1>2, <1>7, <1>8
      <4>2. owner'[sock[t]] = t /\ phase'[sock[t]] = phase[sock[t]]
        BY <4>1, <2>1, <1>2, <1>6 DEF Holds
      <4>3. sock[t] <= made'
        BY <4>1, <2>1, <1>1, <1>7, SMT DEF Sockets
      <4>4. QED BY <4>1, <4>2, <4>3, <2>1 DEF Holds
    <3>3. QED BY <3>1, <3>2
  <2>2. QED BY <2>1 DEF Holds
<1>10. Held'
  <2>1. ASSUME NEW k \in Sockets, phase'[k] \in {"attached", "listening"}
        PROVE  owner'[k] \in Servers /\ k = sock'[owner'[k]]
    <3>1. CASE k = l
      BY <3>1, <1>2
    <3>2. CASE k # l
      <4>1. k # sock[s] /\ phase[k] \in {"attached", "listening"} /\ owner'[k] = owner[k]
        BY <3>2, <2>1, <1>2, <1>6, SMT
      <4>2. QED BY <4>1, <1>2 DEF Held
    <3>3. QED BY <3>1, <3>2
  <2>2. QED BY <2>1 DEF Held
<1>11. Distinct'
  <2>1. \A t \in Servers \ {s} : sock[t] # 0 => number[sock[t]] # n
    BY <1>3, Zenon DEF FreeAfter, HeldAfter
  <2>2. \A t \in Servers \ {s} : sock'[t] # 0 =>
            sock[t] # 0 /\ sock'[t] = sock[t] /\ number'[sock'[t]] = number[sock[t]]
    BY <1>2, <1>4, <1>7
  <2>3. number'[sock'[s]] = n
    BY <1>1, <1>2, <1>4
  <2>4. ASSUME NEW t \in Servers, NEW u \in Servers, t # u, sock'[t] # 0, sock'[u] # 0
        PROVE  number'[sock'[t]] # number'[sock'[u]]
    BY <2>1, <2>2, <2>3, <2>4 DEF Distinct
  <2>5. QED BY <2>4 DEF Distinct
<1>12. Quiet'
  <2>1. edge' = edge \ {sock[s]} /\ queue[l] = 0 /\ l \notin edge
    BY <1>1, SMT DEF ListenWith, Quiet, TypeOK
  <2>2. ASSUME NEW k \in Sockets, k > made' PROVE phase'[k] = "none"
    <3>1. k # l /\ phase[k] = "none"
      BY <2>2, <1>1, ServerAssumption, SMT DEF Quiet, Sockets
    <3>2. k # sock[s]
      BY <3>1, ServerAssumption, SMT DEF Holds, Sockets
    <3>3. QED BY <1>6, <3>1, <3>2
  <2>3. ASSUME NEW k \in Sockets, queue'[k] > 0 \/ k \in edge' PROVE phase'[k] = "listening"
    <3>1. k # sock[s]
      BY <2>1, <2>3, <1>2, SMT
    <3>2. k # l
      BY <2>1, <2>3, <1>2, <3>1, SMT
    <3>3. QED BY <2>1, <2>3, <1>2, <1>6, <3>1, <3>2 DEF Quiet
  <2>4. QED BY <2>2, <2>3 DEF Quiet
<1>13. Knows'
  <2>1. CASE result \in {"bound", "listening"}
    <3>1. /\ \A k \in Sockets : name'[k] = (IF k = l THEN ep ELSE name[k])
          /\ \A t \in Servers : localEp'[t] = (IF t = s THEN ep ELSE localEp[t])
      BY <2>1, <1>1, <1>5, Zenon DEF Named, TypeOK
    <3>2. \A t \in Servers : bindEp'[t] = (IF t = s THEN ep ELSE bindEp[t])
      BY Zenon DEF ListenWith, TypeOK
    <3>3. \A k \in Sockets : phase'[k] = "listening" /\ k # l =>
            phase[k] = "listening" /\ owner[k] \in Servers \ {s}
      BY <1>6, SMT DEF Held
    <3>4. ASSUME NEW k \in Sockets, phase'[k] = "listening"
          PROVE  \/ bindEp'[owner'[k]] = name'[k] /\ localEp'[owner'[k]] = name'[k]
                 \/ bindEp'[owner'[k]] = "null" /\ localEp'[owner'[k]] = "null"
      <4>1. CASE k = l
        BY <4>1, <3>1, <3>2, <1>1, <1>2
      <4>2. CASE k # l
        <5>1. /\ owner'[k] = owner[k] /\ name'[k] = name[k]
              /\ bindEp'[owner[k]] = bindEp[owner[k]] /\ localEp'[owner[k]] = localEp[owner[k]]
          BY <4>2, <3>1, <3>2, <3>3, <3>4, <1>2
        <5>2. QED BY <5>1, <4>2, <3>3, <3>4 DEF Knows
      <4>3. QED BY <4>1, <4>2
    <3>5. QED BY <3>4 DEF Knows
  <2>2. CASE result \notin {"bound", "listening"}
    <3>1. \A k \in Sockets : name'[k] = name[k]
      BY <2>2, <1>5
    <3>2. \A t \in Servers : /\ localEp'[t] = localEp[t]
                             /\ bindEp'[t] = (IF t = s THEN ep ELSE bindEp[t])
      BY <2>2, <1>5, Zenon DEF ListenWith, TypeOK
    <3>3. \A k \in Sockets : phase'[k] = "listening" =>
            k # l /\ phase[k] = "listening" /\ owner[k] \in Servers \ {s}
      BY <2>2, <1>6, SMT DEF Held
    <3>4. ASSUME NEW k \in Sockets, phase'[k] = "listening"
          PROVE  \/ bindEp'[owner'[k]] = name'[k] /\ localEp'[owner'[k]] = name'[k]
                 \/ bindEp'[owner'[k]] = "null" /\ localEp'[owner'[k]] = "null"
      <4>1. /\ owner'[k] = owner[k] /\ name'[k] = name[k]
            /\ bindEp'[owner[k]] = bindEp[owner[k]] /\ localEp'[owner[k]] = localEp[owner[k]]
        BY <3>1, <3>2, <3>3, <3>4, <1>2
      <4>2. QED BY <4>1, <3>3, <3>4 DEF Knows
    <3>5. QED BY <3>4 DEF Knows
  <2>3. QED BY <2>1, <2>2
<1>14. QED BY <1>9, <1>10, <1>11, <1>12, <1>13

\* What the handlers do otherwise leaves the sockets alone.
LEMMA SoundKept ==
    ASSUME TypeOK, Sound, Loops, [Next]_vars
    PROVE  Sound'
<1> USE DEF apiVars, sockVars, waitVars, runVars
<1>1. ASSUME NEW s \in Servers, UserListen(s) PROVE Sound'
  <2>1. PICK ep \in Endpoints : Listen(s, ep)
    BY <1>1 DEF UserListen
  <2>2. QED BY <2>1, ListenFailsLets, LetsKeeps, ListenWithKeeps DEF Listen
<1>2. ASSUME NEW s \in Servers, UserClose(s) \/ Destroy(s) PROVE Sound'
  BY <1>2, CloseLets, DestroyLets, LetsKeeps DEF UserClose
<1>3. ASSUME NEW s \in Servers, ErrorEvent(s) PROVE Sound'
  <2>1. CASE Close(s)
    BY <2>1, CloseLets, LetsKeeps
  <2>2. CASE UNCHANGED <<apiVars, late, sockVars, waitVars, file>>
    BY <2>2 DEF Sound, Holds, Held, Distinct, Quiet, Knows
  <2>3. QED BY <1>3, <2>1, <2>2 DEF ErrorEvent
<1>4. CASE ErrorReturns
  <2>1. who \in Servers /\ Close(who)
    BY <1>4 DEF ErrorReturns, Ends, Loops
  <2>2. QED BY <2>1, CloseLets, LetsKeeps
<1>5. ASSUME NEW s \in Servers, EofEvent(s) PROVE Sound'
  BY <1>5 DEF EofEvent, Sound, Holds, Held, Distinct, Quiet, Knows
<1>6. CASE ClosedReturns
  <2>1. Holds' /\ Held' /\ Distinct' /\ Quiet'
    BY <1>6 DEF ClosedReturns, Sound, Holds, Held, Distinct, Quiet
  <2>2. ASSUME NEW l \in Sockets, phase[l] = "listening"
        PROVE  \/ bindEp'[owner[l]] = name[l] /\ localEp'[owner[l]] = name[l]
               \/ bindEp'[owner[l]] = "null" /\ localEp'[owner[l]] = "null"
    <3>1. owner[l] \in Servers
      BY <2>2 DEF Sound, Held
    <3>2. QED BY <1>6, <2>2, <3>1, Zenon DEF ClosedReturns, Sound, Knows, TypeOK
  <2>3. Knows'
    BY <1>6, <2>2 DEF ClosedReturns, Knows
  <2>4. QED BY <2>1, <2>3 DEF Sound
<1>7. ASSUME NEW s \in Servers, ReadEvent(s) PROVE Sound'
  BY <1>7 DEF ReadEvent, Sound, Holds, Held, Distinct, Quiet, Knows
<1>8. ASSUME UNCHANGED <<apiVars, sockVars>>, Quiet' PROVE Sound'
  BY <1>8 DEF Sound, Holds, Held, Distinct, Knows
<1>9. ASSUME NEW l \in Sockets, Accept(l) PROVE Sound'
  <2>1. \A k \in Sockets : queue'[k] > 0 => queue[k] > 0
    BY <1>9, SMT DEF Accept, TypeOK
  <2>2. UNCHANGED <<apiVars, sockVars, edge>>
    BY <1>9 DEF Accept
  <2>3. Quiet'
    BY <2>1, <2>2 DEF Sound, Quiet
  <2>4. QED BY <2>2, <2>3, <1>8
<1>10. CASE AcceptFails
  <2>1. \A k \in Sockets : queue'[k] > 0 => queue[k] > 0
    BY <1>10, SMT DEF AcceptFails, Targets, TypeOK
  <2>2. UNCHANGED <<apiVars, sockVars, edge>>
    BY <1>10 DEF AcceptFails
  <2>3. Quiet'
    BY <2>1, <2>2 DEF Sound, Quiet
  <2>4. QED BY <2>2, <2>3, <1>8
<1>11. ASSUME NEW l \in Sockets, ConnectionArrives(l) PROVE Sound'
  <2>1. /\ UNCHANGED <<apiVars, sockVars>> /\ phase[l] = "listening"
        /\ edge' = edge \cup {l} /\ \A k \in Sockets \ {l} : queue'[k] = queue[k]
    BY <1>11, Zenon DEF ConnectionArrives, TypeOK
  <2>2. Quiet'
    BY <2>1 DEF Sound, Quiet
  <2>3. QED BY <2>1, <2>2, <1>8
<1>12. CASE AcceptedReturns \/ AcceptsAll \/ FailedReturns
  BY <1>12 DEF AcceptedReturns, AcceptsAll, FailedReturns, Sound, Holds, Held, Distinct,
               Quiet, Knows
<1>13. CASE UNCHANGED vars
  BY <1>13 DEF vars, Sound, Holds, Held, Distinct, Quiet, Knows
<1>14. QED
  BY <1>1, <1>2, <1>3, <1>4, <1>5, <1>6, <1>7, <1>9, <1>10, <1>11, <1>12, <1>13
  DEF Next, Accepting

-----------------------------------------------------------------------------
(* The accept loop.                                                        *)

\* A socket let go within the loop is the loop's, or the loop's stays.
LEMMA LoopsKept ==
    ASSUME TypeOK, Sound, Loops, [Next]_vars
    PROVE  Loops'
<1> USE DEF apiVars, sockVars, waitVars, runVars
<1>1. ASSUME NEW s \in Servers, Lets(s), UNCHANGED runVars PROVE Loops'
  <2>1. \A t \in Servers : sock'[t] = (IF t = s THEN 0 ELSE sock[t])
    BY <1>1, Zenon DEF Lets, TypeOK
  <2>2. ASSUME at \in {"accept", "accepted"}, src = sock[who], who = s PROVE phase'[src] = "gone"
    <3>1. src \in Sockets
      BY <2>2, ServerAssumption, SMT DEF Loops, TypeOK, Sockets, MaybeSockets
    <3>2. QED BY <1>1, <2>2, <3>1 DEF Lets, PhaseAfter
  <2>3. ASSUME at \in {"accept", "accepted"}, phase[src] = "gone" PROVE phase'[src] = "gone"
    <3>1. src \in Sockets
      BY <2>3, ServerAssumption, SMT DEF Loops, TypeOK, Sockets, MaybeSockets
    <3>2. QED BY <1>1, <2>3, <3>1 DEF Lets, PhaseAfter
  <2>4. at' = at /\ who' = who /\ src' = src /\ made' = made
    BY <1>1 DEF Lets
  <2>5. ASSUME at \in {"accept", "accepted"} PROVE phase'[src] = "gone" \/ src = sock'[who]
    <3>1. who \in Servers
      BY <2>5 DEF Loops
    <3>2. QED BY <2>1, <2>2, <2>3, <2>5, <3>1 DEF Loops
  <2>6. QED BY <2>4, <2>5 DEF Loops
<1>2. ASSUME NEW s \in Servers, NEW ep \in Endpoints, ListenWith(s, ep), UNCHANGED runVars
      PROVE  Loops'
  <2> DEFINE l == made + 1
  <2>1. l \in Sockets /\ made' = l /\ made \in Nat
    BY <1>2, ServerAssumption, SMT DEF ListenWith, Sockets, TypeOK, MaybeSockets
  <2>2. /\ \A t \in Servers : sock'[t] = (IF t = s THEN l ELSE sock[t])
        /\ \A k \in Sockets \ {l} : phase'[k] = (IF k = sock[s] THEN "gone" ELSE phase[k])
    BY <1>2, <2>1, Zenon DEF ListenWith, TypeOK, PhaseAfter
  <2>3. at' = at /\ who' = who /\ src' = src
    BY <1>2
  <2>4. at # "idle" => src <= made' /\ who \in Servers
    BY <2>1, SMT DEF Loops, TypeOK, MaybeSockets
  <2>5. ASSUME at \in {"accept", "accepted"} PROVE phase'[src] = "gone" \/ src = sock'[who]
    <3>1. who \in Servers /\ src \in Sockets /\ src # l
      BY <2>1, <2>5, ServerAssumption, SMT DEF Loops, TypeOK, Sockets, MaybeSockets
    <3>2. QED BY <2>2, <2>5, <3>1 DEF Loops
  <2>6. QED BY <2>3, <2>4, <2>5 DEF Loops
<1>3. ASSUME NEW s \in Servers, UserListen(s) PROVE Loops'
  BY <1>1, <1>2, <1>3, ListenFailsLets DEF UserListen, Listen
<1>4. ASSUME NEW s \in Servers, UserClose(s) \/ Destroy(s) PROVE Loops'
  BY <1>1, <1>4, CloseLets, DestroyLets DEF UserClose, Destroy
<1>5. ASSUME NEW s \in Servers, sock[s] # 0, sock' = sock, phase' = phase, made' = made,
             who' = s, src' = sock[s]
      PROVE  Loops'
  BY <1>5 DEF Loops, Sound, Holds
<1>6. ASSUME NEW s \in Servers, ErrorEvent(s) PROVE Loops'
  BY <1>1, <1>5, <1>6, CloseLets DEF ErrorEvent, Starts
<1>7. ASSUME at' = "idle" PROVE Loops'
  BY <1>7 DEF Loops
<1>8. ASSUME NEW s \in Servers, EofEvent(s) PROVE Loops'
  <2>1. sock[s] <= made
    BY SMT DEF Sound, Holds, TypeOK, MaybeSockets
  <2>2. QED BY <1>8, <2>1 DEF EofEvent, Starts, Loops
<1>9. ASSUME NEW s \in Servers, ReadEvent(s) PROVE Loops'
  <2>1. sock[s] # 0
    BY <1>9, ServerAssumption, SMT DEF ReadEvent, TypeOK, Sockets
  <2>2. QED BY <1>5, <1>9, <2>1 DEF ReadEvent, Starts
<1>10. ASSUME at \in {"accept", "accepted"}, who' = who, src' = src, made' = made,
              sock' = sock, phase' = phase
       PROVE  Loops'
  BY <1>10 DEF Loops
<1>11. ASSUME NEW l \in Sockets, Accept(l) PROVE Loops'
  BY <1>10, <1>11 DEF Accept, Goes
<1>12. CASE AcceptedReturns \/ AcceptFails
  BY <1>10, <1>12 DEF AcceptedReturns, AcceptFails, Goes
<1>13. CASE AcceptsAll \/ FailedReturns \/ ErrorReturns \/ ClosedReturns
  BY <1>7, <1>13 DEF AcceptsAll, FailedReturns, ErrorReturns, ClosedReturns, Ends
<1>14. ASSUME NEW l \in Sockets, ConnectionArrives(l) PROVE Loops'
  BY <1>14 DEF ConnectionArrives, Loops
<1>15. CASE UNCHANGED vars
  BY <1>15 DEF vars, Loops
<1>16. QED
  BY <1>3, <1>4, <1>6, <1>8, <1>9, <1>11, <1>12, <1>13, <1>14, <1>15 DEF Next, Accepting

-----------------------------------------------------------------------------
(* Connections.                                                            *)

\* A socket that is let go strands nobody on another.
LEMMA LetsStrandsNobody ==
    ASSUME TypeOK, NoStranded, NEW s \in Servers, Lets(s),
           at \in {"accept", "accepted"} => at' = at /\ src' = src
    PROVE  NoStranded'
<1>1. ASSUME NEW l \in Sockets, phase'[l] = "listening", queue'[l] > 0
      PROVE  l \in edge' \/ l \in failing' \/ (at' \in {"accept", "accepted"} /\ src' = l)
  <2>1. l # sock[s] /\ phase[l] = "listening" /\ queue[l] > 0
    BY <1>1, SMT DEF Lets, PhaseAfter, QueueAfter
  <2>2. QED BY <2>1 DEF NoStranded, Lets
<1>2. QED BY <1>1 DEF NoStranded

\* A new socket has no connections yet.
LEMMA ListenStrandsNobody ==
    ASSUME TypeOK, Sound, NoStranded, NEW s \in Servers, NEW ep \in Endpoints,
           ListenWith(s, ep), UNCHANGED runVars
    PROVE  NoStranded'
<1> DEFINE l == made + 1
<1>1. l \in Sockets /\ phase[l] = "none"
  BY ServerAssumption, SMT DEF ListenWith, Sockets, TypeOK, MaybeSockets, Sound, Quiet
<1>2. queue[l] = 0
  BY <1>1, SMT DEF Sound, Quiet, TypeOK
<1>3. /\ \A k \in Sockets : queue'[k] = (IF k = sock[s] THEN 0 ELSE queue[k])
      /\ \A k \in Sockets \ {l} : phase'[k] = (IF k = sock[s] THEN "gone" ELSE phase[k])
      /\ edge' = edge \ {sock[s]} /\ failing' = failing \ {sock[s]}
  BY <1>1, Zenon DEF ListenWith, TypeOK, PhaseAfter, QueueAfter
<1>4. ASSUME NEW k \in Sockets, phase'[k] = "listening", queue'[k] > 0
      PROVE  k \in edge' \/ k \in failing' \/ (at' \in {"accept", "accepted"} /\ src' = k)
  <2>1. k # l /\ k # sock[s] /\ queue[k] > 0
    BY <1>2, <1>3, <1>4, SMT
  <2>2. QED BY <1>3, <1>4, <2>1 DEF NoStranded, runVars
<1>5. QED BY <1>4 DEF NoStranded

\* The loop leaves a socket behind when it has emptied it or accept has failed.
LEMMA NoStrandedKept ==
    ASSUME TypeOK, Sound, Loops, NoStranded, [Next]_vars
    PROVE  NoStranded'
<1> USE DEF apiVars, sockVars, waitVars, runVars
<1>1. ASSUME NEW s \in Servers, UserListen(s) PROVE NoStranded'
  BY <1>1, ListenFailsLets, LetsStrandsNobody, ListenStrandsNobody DEF UserListen, Listen
<1>2. ASSUME NEW s \in Servers, UserClose(s) \/ Destroy(s) PROVE NoStranded'
  BY <1>2, CloseLets, DestroyLets, LetsStrandsNobody DEF UserClose, Destroy
<1>3. ASSUME UNCHANGED <<sockVars, waitVars>>, at \notin {"accept", "accepted"}
      PROVE  NoStranded'
  BY <1>3 DEF NoStranded
<1>4. ASSUME NEW s \in Servers, ErrorEvent(s) PROVE NoStranded'
  BY <1>3, <1>4, CloseLets, LetsStrandsNobody DEF ErrorEvent, Starts
<1>5. CASE ErrorReturns
  <2>1. who \in Servers /\ Close(who) /\ at = "erring"
    BY <1>5 DEF ErrorReturns, Ends, Loops
  <2>2. QED BY <2>1, CloseLets, LetsStrandsNobody
<1>6. ASSUME NEW s \in Servers, EofEvent(s) PROVE NoStranded'
  BY <1>3, <1>6 DEF EofEvent, Starts
<1>7. CASE ClosedReturns \/ FailedReturns
  BY <1>3, <1>7 DEF ClosedReturns, FailedReturns, Ends
<1>8. ASSUME NEW s \in Servers, ReadEvent(s) PROVE NoStranded'
  BY <1>8 DEF ReadEvent, Starts, NoStranded
<1>9. ASSUME NEW l \in Sockets, Accept(l) PROVE NoStranded'
  <2>1. \A k \in Sockets : queue'[k] > 0 => queue[k] > 0
    BY <1>9, SMT DEF Accept, TypeOK
  <2>2. QED BY <1>9, <2>1 DEF Accept, Goes, NoStranded
<1>10. CASE AcceptedReturns
  BY <1>10 DEF AcceptedReturns, Goes, NoStranded
<1>11. src \in Sockets /\ phase[src] = "listening" => src \in Targets
  BY DEF Targets
<1>12. CASE AcceptsAll
  <2>1. \A l \in Targets : queue[l] = 0
    BY <1>12 DEF AcceptsAll
  <2>2. ASSUME NEW l \in Sockets, phase[l] = "listening", queue[l] > 0
        PROVE  l \in edge \/ l \in failing
    BY <1>11, <2>1, <2>2, SMT DEF NoStranded
  <2>3. QED BY <1>12, <2>2 DEF AcceptsAll, NoStranded
<1>13. CASE AcceptFails
  <2>1. \A k \in Sockets : queue'[k] > 0 => queue[k] > 0
    BY <1>13, SMT DEF AcceptFails, Targets, TypeOK
  <2>2. failing' = failing \cup Targets /\ UNCHANGED <<phase, edge>>
    BY <1>13 DEF AcceptFails
  <2>3. QED BY <1>11, <2>1, <2>2 DEF NoStranded
<1>14. ASSUME NEW l \in Sockets, ConnectionArrives(l) PROVE NoStranded'
  <2>1. /\ edge' = edge \cup {l} /\ \A k \in Sockets \ {l} : queue'[k] = queue[k]
        /\ UNCHANGED <<phase, failing, at, src>>
    BY <1>14, Zenon DEF ConnectionArrives, TypeOK
  <2>2. QED BY <2>1 DEF NoStranded
<1>15. CASE UNCHANGED vars
  BY <1>15 DEF vars, NoStranded
<1>16. QED
  BY <1>1, <1>2, <1>4, <1>5, <1>6, <1>7, <1>8, <1>9, <1>10, <1>12, <1>13, <1>14, <1>15
  DEF Next, Accepting

-----------------------------------------------------------------------------
(* The theorems.                                                           *)

\* Servers and kernel agree on who holds which descriptor, whatever close() and
\* listen() are called from within whose callbacks.
THEOREM ServerInvariant == Spec => []SInv
<1>1. ASSUME SInv, [Next]_vars PROVE SInv'
  <2>1. TypeOK /\ Sound /\ Loops /\ NoStranded
    BY <1>1 DEF SInv, Agree, Sound
  <2>2. TypeOK' /\ Sound' /\ Loops' /\ NoStranded'
    BY <1>1, <2>1, TypesKept, SoundKept, LoopsKept, NoStrandedKept
  <2>3. QED BY <2>2 DEF SInv, Agree, Sound
<1>2. QED BY InitSInv, <1>1, PTL DEF Spec

\* No connection is left without an event, a running loop or a failed accept to
\* account for it.
THEOREM NobodyStranded == Spec => []NoStranded
<1>1. SInv => NoStranded
  BY DEF SInv
<1>2. QED BY <1>1, ServerInvariant, PTL

\* A connection is announced with the endpoint it came to, outside the named
\* cases: by the number of the loop's socket only that socket is accepted from.
THEOREM EndpointKnown == Spec => AcceptedKnowsEndpoint
<1>1. ASSUME SInv, NEW l \in Sockets, Accept(l)
      PROVE  localEp[who] = name[l] \/ phase[src] = "gone" \/ bindEp[who] = "null"
  <2>1. /\ who \in Servers /\ src # 0 /\ (phase[src] = "gone" \/ src = sock[who])
        /\ phase[l] = "listening" /\ number[l] = number[src]
    BY <1>1 DEF Accept, Goes, Targets, SInv, Agree, Loops
  <2>2. CASE src = sock[who]
    <3>1. owner[l] \in Servers /\ l = sock[owner[l]]
      BY <1>1, <2>1 DEF SInv, Agree, Held
    <3>2. l # 0
      BY ServerAssumption, SMT DEF Sockets
    <3>3. owner[l] = who
      BY <1>1, <2>1, <2>2, <3>1, <3>2 DEF SInv, Agree, Distinct
    <3>4. QED BY <1>1, <2>1, <3>3 DEF SInv, Agree, Knows
  <2>3. QED BY <2>1, <2>2
<1>2. ASSUME SInv, [Next]_vars
      PROVE  [\A l \in Sockets : Accept(l) =>
                 \/ localEp[who] = name[l]
                 \/ phase[src] = "gone"
                 \/ bindEp[who] = "null"]_vars
  BY <1>1, <1>2
<1>3. QED BY <1>2, ServerInvariant, PTL DEF Spec, AcceptedKnowsEndpoint

-----------------------------------------------------------------------------
(* The files of paths.                                                     *)

\* Whoever lets its socket go removes no file of another server's socket but
\* that of the path it was told to bind.
LEMMA LetsKeepsFiles ==
    ASSUME TypeOK, Sound, NEW s \in Servers, Lets(s), file' \in {FilesAfter(s), file},
           NEW l \in Sockets
    PROVE  FileKeptOf(l)
<1> SUFFICES ASSUME phase'[l] = "listening", name'[l] \in Paths PROVE FileKeptOf(l)
  BY DEF FileKeptOf
<1>1. l # sock[s] /\ phase[l] = "listening" /\ name' = name /\ owner' = owner
  BY SMT DEF Lets, PhaseAfter
<1>2. owner[l] \in Servers /\ l = sock[owner[l]]
  BY <1>1 DEF Sound, Held
<1>3. s \in Servers \ {owner'[l]}
  BY <1>1, <1>2
<1>4. CASE bindEp[s] = name'[l]
  BY <1>3, <1>4 DEF FileKeptOf
<1>5. CASE bindEp[s] # name'[l]
  <2>1. file'[name'[l]] = file[name[l]]
    BY <1>1, <1>5 DEF FilesAfter
  <2>2. QED BY <1>1, <2>1 DEF FileKeptOf
<1>6. QED BY <1>4, <1>5

\* A listen() makes the file of its own socket and removes those of the paths
\* that it was told to bind, now and before.
LEMMA ListenKeepsFiles ==
    ASSUME TypeOK, Sound, NEW s \in Servers, NEW ep \in Endpoints, ListenWith(s, ep),
           NEW l \in Sockets
    PROVE  FileKeptOf(l)
<1> SUFFICES ASSUME phase'[l] = "listening", name'[l] \in Paths PROVE FileKeptOf(l)
  BY DEF FileKeptOf
<1> DEFINE new == made + 1
<1>1. new \in Sockets
  BY ServerAssumption, SMT DEF ListenWith, Sockets, TypeOK, MaybeSockets
<1>2. PICK result \in Results :
          /\ phase' = [PhaseAfter(s) EXCEPT ![new] =
                          IF result = "listening" THEN "listening" ELSE "attached"]
          /\ IF result \in {"bound", "listening"}
             THEN Named(s, new, ep)
             ELSE UNCHANGED <<name, localEp>>
          /\ file' = FilesWith(s, new, ep, result)
  BY DEF ListenWith
<1>3. bindEp'[s] = ep
  BY DEF ListenWith, TypeOK
<1>4. CASE l = new
  <2>1. result = "listening"
    BY <1>1, <1>2, <1>4 DEF PhaseAfter
  <2>2. name'[l] = ep
    BY <1>1, <1>2, <1>4, <2>1 DEF Named, TypeOK
  <2>3. file'[ep] = l
    BY <1>2, <1>4, <2>1, <2>2 DEF FilesWith
  <2>4. QED BY <2>2, <2>3 DEF FileKeptOf
<1>5. CASE l # new
  <2>1. l # sock[s] /\ phase[l] = "listening"
    BY <1>1, <1>2, <1>5, SMT DEF PhaseAfter
  <2>2. name'[l] = name[l] /\ owner'[l] = owner[l]
    BY <1>1, <1>2, <1>5, SMT DEF Named, ListenWith, TypeOK
  <2>3. owner[l] \in Servers /\ l = sock[owner[l]]
    BY <2>1 DEF Sound, Held
  <2>4. s \in Servers \ {owner'[l]}
    BY <2>1, <2>2, <2>3
  <2>5. CASE name'[l] \in {bindEp[s], bindEp'[s]}
    BY <2>4, <2>5 DEF FileKeptOf
  <2>6. CASE name'[l] \notin {bindEp[s], bindEp'[s]}
    <3>1. file'[name'[l]] = file[name[l]]
      BY <1>2, <1>3, <2>2, <2>6, SMT DEF FilesWith, FilesAfter
    <3>2. QED BY <2>1, <3>1, <2>2 DEF FileKeptOf
  <2>7. QED BY <2>5, <2>6
<1>6. QED BY <1>4, <1>5

\* A step that touches neither sockets nor files keeps every file.
LEMMA RestKeepsFiles ==
    ASSUME UNCHANGED <<phase, name, file>>, NEW l \in Sockets
    PROVE  FileKeptOf(l)
BY DEF FileKeptOf

\* The file of a listening server goes only with a server told to bind the
\* same path: close() and listen() unlink what _bindEndpoint names.
THEOREM FilesKept == Spec => FileKept
<1>1. ASSUME SInv, [Next]_vars PROVE [\A l \in Sockets : FileKeptOf(l)]_vars
  <2> SUFFICES ASSUME Next, NEW l \in Sockets PROVE FileKeptOf(l)
    BY <1>1
  <2> USE DEF apiVars, sockVars, waitVars
  <2>0. TypeOK /\ Sound /\ Loops
    BY <1>1 DEF SInv, Agree, Sound
  <2>1. ASSUME NEW s \in Servers, UserListen(s) PROVE FileKeptOf(l)
    BY <2>0, <2>1, ListenFailsLets, LetsKeepsFiles, ListenKeepsFiles
    DEF UserListen, Listen, ListenFails
  <2>2. ASSUME NEW s \in Servers, Close(s) PROVE FileKeptOf(l)
    BY <2>0, <2>2, CloseLets, LetsKeepsFiles DEF Close
  <2>3. ASSUME NEW s \in Servers, Destroy(s) PROVE FileKeptOf(l)
    BY <2>0, <2>3, DestroyLets, LetsKeepsFiles DEF Destroy
  <2>4. ASSUME NEW s \in Servers, ErrorEvent(s) PROVE FileKeptOf(l)
    BY <2>2, <2>4, RestKeepsFiles DEF ErrorEvent
  <2>5. CASE ErrorReturns
    BY <2>0, <2>2, <2>5 DEF ErrorReturns, Ends, Loops
  <2>6. ASSUME UNCHANGED <<phase, name, file>> PROVE FileKeptOf(l)
    BY <2>6, RestKeepsFiles
  <2>7. UNCHANGED <<phase, name, file>> \/ ErrorReturns
        \/ \E s \in Servers : UserListen(s) \/ Close(s) \/ Destroy(s) \/ ErrorEvent(s)
    BY DEF Next, UserClose, EofEvent, ReadEvent, Accepting, Accept, AcceptsAll, AcceptFails,
        AcceptedReturns, FailedReturns, ClosedReturns, ConnectionArrives
  <2>8. QED BY <2>1, <2>2, <2>3, <2>4, <2>5, <2>6, <2>7
<1>2. QED BY <1>1, ServerInvariant, PTL DEF Spec, FileKept
===============================================================================
