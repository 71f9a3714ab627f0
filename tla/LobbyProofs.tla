----------------------------- MODULE LobbyProofs -----------------------------
(***************************************************************************)
(* Proofs about Lobby, for any number of clients, any of whom may leave,   *)
(* any modes and any size of a match: clients get seats of their own in    *)
(* the mode they asked for, and a match starts with everybody and is left  *)
(* alone then.                                                             *)
(***************************************************************************)
EXTENDS Lobby, FiniteSetTheorems, TLAPS

(* The seats that are taken.                                               *)
Taken(m) == {i \in Seats : socket[m][i] # None}

(* What a client has asked for follows from where he is, and what he has   *)
(* sent after he was told.                                                 *)
WishInv ==
  \A c \in Clients :
    /\ client[c] \in {"new", "connected"} => wish[c] = None
    /\ client[c] \in {"waiting", "ready"} => wish[c] # None
    /\ inbox[c] => told[c] # None

(* What main knows of the client it deals with.                            *)
GuestInv ==
  /\ main \in {"read", "join", "launch", "inform", "renew"} => guest \in Clients
  /\ main \in {"read", "join"} => ~Seated(guest)
  /\ main = "join" => /\ asked \in Modes
                      /\ IF wish[guest] = None THEN client[guest] = "closed" ELSE asked = wish[guest]
  /\ main \in {"launch", "inform"} =>
       /\ seat \in Matches \X Seats
       /\ socket[seat[1]][seat[2]] = guest

(* Who is seated sits there only, in a match of his mode, and has been     *)
(* told so unless main is just about to.                                   *)
SeatInv ==
  /\ \A m \in Matches, i \in Seats : socket[m][i] # None =>
       /\ m <= matches
       /\ \A n \in Matches, j \in Seats : socket[n][j] = socket[m][i] => n = m /\ j = i
       /\ IF wish[socket[m][i]] = None THEN client[socket[m][i]] = "closed"
          ELSE wish[socket[m][i]] = mode[m]
       /\ \/ told[socket[m][i]] = <<m, i>>
          \/ told[socket[m][i]] = None /\ main \in {"launch", "inform"} /\ seat = <<m, i>>
  /\ \A c \in Clients : told[c] # None => socket[told[c][1]][told[c][2]] = c

(* Seats are taken from the first one on, and the pending matches have a   *)
(* free one when main comes to seat somebody.                              *)
MatchInv ==
  /\ \A m \in Matches : Taken(m) = 0..(players_count(m) - 1)
  /\ \A m \in 1..matches : socket[m][0] # None
  /\ \A w \in Modes : pending[w] # None =>
       /\ pending[w] <= matches /\ mode[pending[w]] = w
       /\ main \in {"accept", "read", "join"} => ~Full(pending[w])

(* Only who has been told or has left is ready or dead, and a match that   *)
(* has started waits for nobody.                                           *)
StartInv ==
  \A m \in Matches, i \in Seats :
    /\ handler[m][i] # "none" => socket[m][i] # None
    /\ status[m][i] # CONNECTED =>
         /\ socket[m][i] # None
         /\ told[socket[m][i]] = <<m, i>> \/ client[socket[m][i]] = "closed"
    /\ starts[m] > 0 => status[m][i] # CONNECTED

LobbyInv == TypeOK /\ WishInv /\ GuestInv /\ SeatInv /\ MatchInv /\ StartInv

-----------------------------------------------------------------------------
LEMMA Counting ==
  ASSUME TypeOK, NEW m \in Matches, Taken(m) = 0..(players_count(m) - 1)
  PROVE  /\ players_count(m) \in 0..MaxPlayers
         /\ Full(m) <=> \A i \in Seats : socket[m][i] # None
<1> MaxPlayers \in Nat \ {0}
  BY LobbyAssumption
<1>1. IsFiniteSet(Seats) /\ Cardinality(Seats) = MaxPlayers
  <2>1. MaxPlayers - 1 \in Int /\ 0 \in Int
    OBVIOUS
  <2>2. IsFiniteSet(0..(MaxPlayers - 1))
        /\ Cardinality(0..(MaxPlayers - 1)) =
             IF 0 > MaxPlayers - 1 THEN 0 ELSE (MaxPlayers - 1) - 0 + 1
    BY <2>1, FS_Interval, Zenon
  <2> QED BY <2>2 DEF Seats
<1>2. Taken(m) \in SUBSET Seats /\ players_count(m) = Cardinality(Taken(m))
  BY DEF Taken, players_count
<1>3. players_count(m) \in 0..MaxPlayers
  <2>1. IsFiniteSet(Taken(m)) /\ Cardinality(Taken(m)) <= Cardinality(Seats)
    BY <1>1, <1>2, FS_Subset
  <2>2. Cardinality(Taken(m)) \in Nat
    BY <2>1, FS_CardinalityType
  <2> QED BY <1>1, <1>2, <2>1, <2>2
<1>4. Full(m) <=> Taken(m) = Seats
  BY <1>3 DEF Full, Seats
<1> QED BY <1>3, <1>4 DEF Taken

(* Seats and matches that did not change are counted as before.            *)
LEMMA SameCount ==
  ASSUME NEW m \in Matches, socket'[m] = socket[m]
  PROVE  Taken(m)' = Taken(m) /\ players_count(m)' = players_count(m) /\ Full(m)' = Full(m)
<1>1. \A i \in Seats : socket'[m][i] = socket[m][i]
  OBVIOUS
<1>2. {i \in Seats : socket'[m][i] # None} = {i \in Seats : socket[m][i] # None}
  BY <1>1
<1> QED BY <1>2 DEF Taken, players_count, Full

LEMMA NoneIsNobody == None \notin Clients /\ None \notin Modes /\ None \notin Matches
                        /\ None \notin Matches \X Seats
BY LobbyAssumption

LEMMA InitInv == Init => LobbyInv
<1> SUFFICES ASSUME Init PROVE LobbyInv
  OBVIOUS
<1>1. inbox \in [Clients -> BOOLEAN] /\ \A c \in Clients : ~inbox[c]
  BY DEF Init
<1>2. MaxMatches \in Nat
  BY LobbyAssumption
<1>3. TypeOK
  <2>1. /\ client \in [Clients -> {"new", "connected", "waiting", "ready", "closed"}]
        /\ wish \in [Clients -> Modes \cup {None}]
        /\ told \in [Clients -> (Matches \X Seats) \cup {None}]
        /\ inbox \in [Clients -> BOOLEAN]
    BY <1>1 DEF Init
  <2>2. /\ main \in {"accept", "read", "join", "launch", "inform", "renew", "exited"}
        /\ guest \in Clients \cup {None}
        /\ asked \in Modes \cup {None}
        /\ seat \in (Matches \X Seats) \cup {None}
        /\ pending \in [Modes -> Matches \cup {None}]
        /\ matches \in 0..MaxMatches
    BY <1>2 DEF Init
  <2>3. /\ mode \in [Matches -> Modes \cup {None}]
        /\ socket \in [Matches -> [Seats -> Clients \cup {None}]]
        /\ status \in [Matches -> [Seats -> {CONNECTED, READY_TO_PLAY, DEAD}]]
        /\ handler \in [Matches -> [Seats -> {"none", "read", "check", "ended"}]]
        /\ starts \in [Matches -> Nat]
    BY DEF Init
  <2> QED BY <2>1, <2>2, <2>3 DEF TypeOK
<1>4. WishInv /\ GuestInv /\ SeatInv /\ StartInv
  BY <1>1 DEF Init, WishInv, GuestInv, SeatInv, StartInv, CONNECTED
<1>5. \A m \in Matches : Taken(m) = {} /\ players_count(m) = 0
  <2>1. Cardinality({}) = 0
    BY FS_EmptySet
  <2> QED BY <2>1 DEF Init, Taken, players_count
<1>6. MatchInv
  <2>1. 0..(0 - 1) = {} /\ 1..matches = {}
    BY DEF Init
  <2>2. \A w \in Modes : pending[w] = None
    BY DEF Init
  <2> QED BY <1>5, <2>1, <2>2 DEF MatchInv
<1> QED BY <1>3, <1>4, <1>6 DEF LobbyInv

-----------------------------------------------------------------------------
(* The clients.  Nothing about the matches changes, and who has left stays *)
(* away.                                                                   *)
LEMMA ClientStep ==
  ASSUME LobbyInv, NEW c \in Clients, Client(c) \/ Close(c)
  PROVE  LobbyInv'
<1> USE DEF LobbyInv
<1>1. UNCHANGED <<mainVars, matchVars, told>>
  BY DEF Client, Connect, Ask, DeclareReady, Close
<1>2. TypeOK'
  <2>1. client' \in [Clients -> {"new", "connected", "waiting", "ready", "closed"}]
    BY DEF Client, Connect, Ask, DeclareReady, Close, TypeOK
  <2>2. wish' \in [Clients -> Modes \cup {None}] /\ inbox' \in [Clients -> BOOLEAN]
    BY DEF Client, Connect, Ask, DeclareReady, Close, TypeOK
  <2> QED BY <1>1, <2>1, <2>2 DEF TypeOK, mainVars, matchVars
<1>3. WishInv'
  BY <1>1, NoneIsNobody DEF Client, Connect, Ask, DeclareReady, Close, TypeOK, WishInv
<1>4. ASSUME NEW d \in Clients
      PROVE  /\ wish[d] # None => wish'[d] = wish[d]
             /\ client[d] = "closed" => client'[d] = "closed" /\ wish'[d] = wish[d]
  BY DEF Client, Connect, Ask, DeclareReady, Close, TypeOK, WishInv
<1>5. GuestInv'
  BY <1>1, <1>4 DEF GuestInv, Seated, mainVars, matchVars
<1>6. SeatInv'
  <2> SUFFICES ASSUME NEW m \in Matches, NEW i \in Seats, socket[m][i] # None
               PROVE  IF wish'[socket[m][i]] = None THEN client'[socket[m][i]] = "closed"
                      ELSE wish'[socket[m][i]] = mode[m]
    BY <1>1 DEF SeatInv, mainVars, matchVars
  <2>1. socket[m][i] \in Clients
    BY DEF TypeOK
  <2> QED BY <1>4, <2>1 DEF SeatInv
<1>7. MatchInv'
  BY <1>1 DEF MatchInv, Taken, Full, players_count, mainVars, matchVars
<1>8. StartInv'
  <2> SUFFICES ASSUME NEW m \in Matches, NEW i \in Seats, status[m][i] # CONNECTED
               PROVE  told[socket[m][i]] = <<m, i>> \/ client'[socket[m][i]] = "closed"
    BY <1>1 DEF StartInv, mainVars, matchVars
  <2>1. socket[m][i] \in Clients
    BY DEF TypeOK, StartInv
  <2> QED BY <1>4, <2>1 DEF StartInv
<1> QED BY <1>2, <1>3, <1>5, <1>6, <1>7, <1>8

-----------------------------------------------------------------------------
(* The main thread.                                                        *)
LEMMA AcceptStep ==
  ASSUME LobbyInv, (\E c \in Clients : Accept(c)) \/ ReadFirst \/ ReadNothing
  PROVE  LobbyInv'
<1> USE DEF LobbyInv
<1>1. /\ UNCHANGED <<seat, pending, matches, clientVars, matchVars>>
      /\ main \in {"accept", "read"} /\ main' \in {"read", "join", "exited"}
  BY DEF Accept, ReadFirst, ReadNothing
<1>2. guest' \in Clients /\ ~Seated(guest')
  BY DEF Accept, ReadFirst, ReadNothing, GuestInv
<1>3. asked' \in Modes \cup {None}
  <2>1. main = "read" => guest \in Clients
    BY DEF GuestInv
  <2> QED BY <2>1 DEF Accept, ReadFirst, ReadNothing, TypeOK
<1>4. TypeOK'
  BY <1>1, <1>2, <1>3 DEF TypeOK, clientVars, matchVars
<1>5. main' = "join" =>
        /\ asked' \in Modes
        /\ IF wish[guest'] = None THEN client[guest'] = "closed" ELSE asked' = wish[guest']
  BY <1>2 DEF Accept, ReadFirst, ReadNothing, TypeOK
<1>6. WishInv' /\ StartInv'
  BY <1>1 DEF WishInv, StartInv, clientVars, matchVars
<1>7. GuestInv'
  BY <1>1, <1>2, <1>5 DEF GuestInv, Seated, clientVars, matchVars
<1>8. SeatInv'
  BY <1>1 DEF SeatInv, clientVars, matchVars
<1>9. MatchInv'
  BY <1>1 DEF MatchInv, Taken, Full, players_count, matchVars
<1> QED BY <1>4, <1>6, <1>7, <1>8, <1>9

(* There is a match left for a client who has no seat: every match has a   *)
(* first player of its own.                                                *)
LEMMA MatchLeft ==
  ASSUME LobbyInv, main = "join"
  PROVE  matches + 1 \in Matches /\ matches \in Nat
<1> DEFINE first == [m \in 1..matches |-> socket[m][0]]
           others == Clients \ {guest}
<1> MaxMatches \in Nat /\ IsFiniteSet(Clients) /\ Cardinality(Clients) <= MaxMatches
    /\ MaxPlayers \in Nat \ {0}
  BY LobbyAssumption
<1>1. matches \in Nat /\ matches <= MaxMatches /\ 0 \in Seats
  BY DEF LobbyInv, TypeOK, Seats
<1>2. first \in Injection(1..matches, others)
  <2>1. \A m \in 1..matches : m \in Matches /\ socket[m][0] \in Clients /\ socket[m][0] # guest
    <3>1. \A m \in 1..matches : m \in Matches /\ socket[m][0] # None
      BY <1>1 DEF LobbyInv, MatchInv, Matches
    <3>2. \A m \in Matches : socket[m][0] \in Clients \cup {None} /\ socket[m][0] # guest
      BY <1>1 DEF LobbyInv, TypeOK, GuestInv, Seated
    <3> QED BY <3>1, <3>2
  <2>2. \A m, n \in 1..matches : socket[m][0] = socket[n][0] => m = n
    BY <1>1, <2>1 DEF LobbyInv, SeatInv, MatchInv
  <2> QED BY <2>1, <2>2 DEF Injection, IsInjective
<1>3. guest \in Clients
  BY DEF LobbyInv, GuestInv
<1>4. IsFiniteSet(others) /\ Cardinality(others) = Cardinality(Clients) - 1
  BY <1>3, FS_RemoveElement
<1>5. Cardinality(1..matches) <= Cardinality(others)
  BY <1>2, <1>4, FS_Injection
<1>6. Cardinality(1..matches) = matches
  <2>1. matches \in Int /\ 1 \in Int
    BY <1>1
  <2>2. Cardinality(1..matches) = IF 1 > matches THEN 0 ELSE matches - 1 + 1
    BY <2>1, FS_Interval, Zenon
  <2> QED BY <1>1, <2>2
<1>7. Cardinality(Clients) \in Nat
  BY FS_CardinalityType
<1> QED BY <1>1, <1>4, <1>5, <1>6, <1>7 DEF Matches

(* Seating somebody on the first free seat of a match of his mode.         *)
LEMMA SitDownStep ==
  ASSUME LobbyInv, main = "join",
         NEW m \in Matches, NEW i \in Seats, SitDown(m, i), i = players_count(m),
         matches' \in {matches, m}, matches <= matches', m <= matches', matches' \in Nat,
         matches < m => \A j \in Seats : socket[m][j] = None,
         mode' \in [Matches -> Modes \cup {None}], mode'[m] = asked,
         \A n \in 1..matches : mode'[n] = mode[n],
         pending' \in [Modes -> Matches \cup {None}],
         \A w \in Modes : pending'[w] \in {pending[w], m},
         \A w \in Modes : pending'[w] = m => w = asked,
         matches' # matches => m = matches + 1,
         main' = "launch",
         UNCHANGED <<guest, asked, clientVars, status, handler, starts>>
  PROVE  LobbyInv'
<1> USE DEF LobbyInv
<1>1. guest \in Clients /\ ~Seated(guest) /\ asked \in Modes /\ guest # None
  BY NoneIsNobody DEF GuestInv
<1>2. /\ socket' \in [Matches -> [Seats -> Clients \cup {None}]]
      /\ socket'[m][i] = guest
      /\ \A n \in Matches, j \in Seats : <<n, j>> # <<m, i>> => socket'[n][j] = socket[n][j]
      /\ seat' = <<m, i>>
  BY <1>1 DEF SitDown, TypeOK
<1>3. socket[m][i] = None
  <2>1. Taken(m) = 0..(i - 1)
    BY DEF MatchInv
  <2>2. i \notin 0..(i - 1)
    BY LobbyAssumption DEF Seats
  <2> QED BY <2>1, <2>2 DEF Taken
<1>4. TypeOK'
  <2>1. matches' \in 0..MaxMatches
    BY LobbyAssumption DEF TypeOK, Matches
  <2>2. seat' \in Matches \X Seats
    BY <1>2
  <2> QED BY <1>2, <2>1, <2>2 DEF TypeOK, clientVars
<1>5. WishInv'
  BY DEF WishInv, clientVars
<1>6. told[guest] = None
  <2>1. ASSUME told[guest] # None PROVE FALSE
    <3>1. told[guest] \in Matches \X Seats
      BY <1>1, <2>1 DEF TypeOK
    <3> QED BY <1>1, <2>1, <3>1 DEF SeatInv, Seated
  <2> QED BY <2>1
<1>7. GuestInv'
  BY <1>1, <1>2 DEF GuestInv
<1>8. SeatInv'
  <2>1. ASSUME NEW n \in Matches, NEW j \in Seats, socket'[n][j] # None
        PROVE  n <= matches'
    BY <1>2, <2>1 DEF SeatInv, TypeOK, Matches
  <2>2. ASSUME NEW n \in Matches, NEW j \in Seats, socket'[n][j] # None,
               NEW k \in Matches, NEW l \in Seats, socket'[k][l] = socket'[n][j]
        PROVE  k = n /\ l = j
    <3>1. \A a \in Matches, b \in Seats : socket[a][b] # guest
      BY <1>1 DEF Seated
    <3> QED BY <1>2, <2>2, <3>1 DEF SeatInv
  <2>3. ASSUME NEW n \in Matches, NEW j \in Seats, socket'[n][j] # None
        PROVE  IF wish[socket'[n][j]] = None THEN client[socket'[n][j]] = "closed"
               ELSE wish[socket'[n][j]] = mode'[n]
    <3>1. CASE <<n, j>> = <<m, i>>
      BY <1>2, <3>1 DEF GuestInv
    <3>2. CASE <<n, j>> # <<m, i>>
      <4>1. socket'[n][j] = socket[n][j]
        BY <1>2, <3>2
      <4>2. n \in 1..matches
        BY <2>3, <4>1 DEF SeatInv, Matches, TypeOK
      <4>3. mode'[n] = mode[n]
        BY <4>2
      <4> QED BY <2>3, <4>1, <4>3 DEF SeatInv
    <3> QED BY <3>1, <3>2
  <2>4. ASSUME NEW n \in Matches, NEW j \in Seats, socket'[n][j] # None
        PROVE  \/ told[socket'[n][j]] = <<n, j>>
               \/ told[socket'[n][j]] = None /\ seat' = <<n, j>>
    <3>1. CASE <<n, j>> = <<m, i>>
      BY <1>2, <1>6, <3>1
    <3>2. CASE <<n, j>> # <<m, i>>
      <4>1. socket'[n][j] = socket[n][j] /\ socket[n][j] # None
        BY <1>2, <2>4, <3>2
      <4>2. told[socket[n][j]] = <<n, j>>
        BY <4>1 DEF SeatInv
      <4> QED BY <4>1, <4>2
    <3> QED BY <3>1, <3>2
  <2>5. ASSUME NEW c \in Clients, told[c] # None
        PROVE  socket'[told[c][1]][told[c][2]] = c
    <3>1. told[c] \in Matches \X Seats /\ socket[told[c][1]][told[c][2]] = c
      BY <2>5 DEF TypeOK, SeatInv
    <3>2. c # None
      BY NoneIsNobody
    <3>3. <<told[c][1], told[c][2]>> # <<m, i>>
      BY <1>3, <3>1, <3>2
    <3> QED BY <1>2, <3>1, <3>3
  <2> QED BY <2>1, <2>2, <2>3, <2>4, <2>5 DEF SeatInv, clientVars
<1>9. MatchInv'
  <2>1. ASSUME NEW n \in Matches
        PROVE  Taken(n)' = 0..(players_count(n)' - 1)
    <3>1. CASE n # m
      <4>1. socket'[n] = socket[n]
        BY <3>1 DEF SitDown, TypeOK
      <4> QED BY <4>1, SameCount DEF MatchInv
    <3>2. CASE n = m
      <4>1. Taken(m) = 0..(i - 1) /\ i \in Nat
        BY LobbyAssumption DEF MatchInv, Seats
      <4>2. Taken(m)' = Taken(m) \cup {i}
        BY <1>1, <1>2 DEF Taken
      <4>3. Taken(m)' = 0..i
        BY <4>1, <4>2
      <4>4. players_count(m)' = Cardinality(Taken(m)')
        BY DEF players_count, Taken
      <4>5. Cardinality(0..i) = i + 1
        <5>1. i \in Int /\ 0 \in Int
          BY <4>1
        <5>2. Cardinality(0..i) = IF 0 > i THEN 0 ELSE i - 0 + 1
          BY <5>1, FS_Interval, Zenon
        <5> QED BY <4>1, <5>2
      <4> QED BY <3>2, <4>1, <4>3, <4>4, <4>5
    <3> QED BY <3>1, <3>2
  <2>2. ASSUME NEW n \in 1..matches'
        PROVE  socket'[n][0] # None
    <3>1. n \in Matches /\ 0 \in Seats
      BY LobbyAssumption DEF Matches, Seats, TypeOK
    <3>2. CASE n \in 1..matches
      BY <1>1, <1>2, <3>1, <3>2 DEF MatchInv
    <3>3. CASE n = m /\ matches < m
      <4>1. Taken(m) = {} /\ Taken(m) = 0..(i - 1)
        BY <3>3 DEF Taken, MatchInv
      <4>2. i = 0
        BY <4>1, LobbyAssumption DEF Seats
      <4> QED BY <1>1, <1>2, <3>3, <4>2
    <3>4. n \in 1..matches \/ (n = m /\ matches < m)
      <4>1. matches \in Nat /\ m \in Nat /\ n \in Nat /\ 1 <= n /\ n <= matches'
        BY LobbyAssumption DEF TypeOK, Matches
      <4>2. CASE matches' = matches
        BY <4>1, <4>2
      <4>3. CASE matches' # matches
        BY <4>1, <4>3
      <4> QED BY <4>2, <4>3
    <3> QED BY <3>2, <3>3, <3>4
  <2>3. ASSUME NEW w \in Modes, pending'[w] # None
        PROVE  pending'[w] <= matches' /\ mode'[pending'[w]] = w
    <3>1. CASE pending'[w] = m
      BY <3>1
    <3>2. CASE pending'[w] = pending[w]
      <4>1. pending[w] \in 1..matches
        BY <2>3, <3>2 DEF MatchInv, TypeOK, Matches
      <4> QED BY <2>3, <3>2, <4>1 DEF MatchInv, TypeOK
    <3> QED BY <3>1, <3>2
  <2> QED BY <2>1, <2>2, <2>3 DEF MatchInv
<1>10. StartInv'
  <2>1. ASSUME NEW n \in Matches, NEW j \in Seats, socket[n][j] # None
        PROVE  socket'[n][j] = socket[n][j]
    <3>1. CASE <<n, j>> = <<m, i>>
      <4>1. n = m /\ j = i
        BY <3>1
      <4> QED BY <1>3, <2>1, <4>1
    <3>2. CASE <<n, j>> # <<m, i>>
      BY <1>2, <3>2
    <3> QED BY <3>1, <3>2
  <2>2. UNCHANGED <<told, client, status, handler, starts>>
    BY DEF clientVars
  <2> SUFFICES ASSUME NEW n \in Matches, NEW j \in Seats
               PROVE  /\ handler[n][j] # "none" => socket'[n][j] # None
                      /\ status[n][j] # CONNECTED =>
                           /\ socket'[n][j] # None
                           /\ told[socket'[n][j]] = <<n, j>> \/ client[socket'[n][j]] = "closed"
                      /\ starts[n] > 0 => status[n][j] # CONNECTED
    BY <2>2 DEF StartInv
  <2>3. /\ handler[n][j] # "none" => socket[n][j] # None
        /\ status[n][j] # CONNECTED =>
             /\ socket[n][j] # None
             /\ told[socket[n][j]] = <<n, j>> \/ client[socket[n][j]] = "closed"
        /\ starts[n] > 0 => status[n][j] # CONNECTED
    BY DEF StartInv
  <2>4. CASE socket[n][j] # None
    <3>1. socket'[n][j] = socket[n][j]
      BY <2>1, <2>4
    <3> QED BY <2>3, <3>1
  <2>5. CASE socket[n][j] = None
    BY <2>3, <2>5
  <2> QED BY <2>4, <2>5
<1> QED BY <1>4, <1>5, <1>7, <1>8, <1>9, <1>10

LEMMA CreateMatchStep ==
  ASSUME LobbyInv, CreateMatch
  PROVE  LobbyInv'
<1>1. main = "join" /\ asked \in Modes
  BY DEF CreateMatch, LobbyInv, GuestInv
<1>2. matches' = matches + 1 /\ matches' \in Matches /\ matches \in Nat
  BY <1>1, MatchLeft DEF CreateMatch
<1>3. \A j \in Seats : socket[matches'][j] = None
  BY <1>2 DEF LobbyInv, SeatInv
<1>4. players_count(matches') = 0 /\ 0 \in Seats
  <2>1. {j \in Seats : socket[matches'][j] # None} = {}
    BY <1>3
  <2> QED BY <2>1, FS_EmptySet, LobbyAssumption DEF players_count, Seats
<1>5. /\ mode' \in [Matches -> Modes \cup {None}] /\ mode'[matches'] = asked
      /\ \A n \in 1..matches : mode'[n] = mode[n]
  BY <1>1, <1>2 DEF CreateMatch, LobbyInv, TypeOK, Matches
<1>6. /\ pending' \in [Modes -> Matches \cup {None}]
      /\ \A w \in Modes : pending'[w] \in {pending[w], matches'}
      /\ \A w \in Modes : pending'[w] = matches' => w = asked
  <2>1. \A w \in Modes : pending[w] # matches'
    BY <1>2, NoneIsNobody DEF LobbyInv, MatchInv
  <2> QED BY <1>1, <1>2, <2>1 DEF CreateMatch, LobbyInv, TypeOK
<1>7. SitDown(matches', 0) /\ main' = "launch"
        /\ UNCHANGED <<guest, asked, clientVars, status, handler, starts>>
  BY DEF CreateMatch
<1>8. matches' \in Nat /\ matches <= matches'
  BY <1>2
<1> DEFINE m == matches'
<1> QED BY <1>1, <1>2, <1>3, <1>4, <1>5, <1>6, <1>7, <1>8, SitDownStep

(* The match that is pending has a free seat, the first one after those    *)
(* that are taken.                                                         *)
LEMMA FreeSeat ==
  ASSUME LobbyInv, main \in {"accept", "read", "join"}, NEW w \in Modes, pending[w] # None
  PROVE  pending[w] \in 1..matches /\ players_count(pending[w]) \in Seats
<1>1. pending[w] \in 1..matches /\ pending[w] \in Matches
  BY DEF LobbyInv, MatchInv, TypeOK, Matches
<1>2. Taken(pending[w]) = 0..(players_count(pending[w]) - 1) /\ ~Full(pending[w])
  BY <1>1 DEF LobbyInv, MatchInv
<1>3. players_count(pending[w]) \in 0..MaxPlayers
  BY <1>1, <1>2, Counting DEF LobbyInv
<1> QED BY <1>1, <1>2, <1>3, LobbyAssumption DEF Full, Seats

LEMMA JoinMatchStep ==
  ASSUME LobbyInv, JoinMatch
  PROVE  LobbyInv'
<1> DEFINE m == pending[asked]
<1>1. main = "join" /\ asked \in Modes /\ m # None
  BY DEF JoinMatch, LobbyInv, GuestInv
<1>2. m \in 1..matches /\ m \in Matches /\ players_count(m) \in Seats /\ matches \in Nat
  BY <1>1, FreeSeat DEF LobbyInv, TypeOK, Matches
<1>3. mode' \in [Matches -> Modes \cup {None}] /\ mode'[m] = asked /\ mode' = mode
  BY <1>1 DEF JoinMatch, LobbyInv, TypeOK, MatchInv
<1>4. /\ pending' \in [Modes -> Matches \cup {None}] /\ pending' = pending
      /\ \A w \in Modes : pending'[w] = m => w = asked
  BY <1>1 DEF JoinMatch, LobbyInv, TypeOK, MatchInv
<1>5. SitDown(m, players_count(m)) /\ main' = "launch" /\ matches' = matches
        /\ UNCHANGED <<guest, asked, clientVars, status, handler, starts>>
  BY DEF JoinMatch
<1>6. matches' \in Nat /\ matches <= matches' /\ m <= matches' /\ ~(matches < m)
  BY <1>2, <1>5
<1> QED BY <1>1, <1>2, <1>3, <1>4, <1>5, <1>6, SitDownStep

LEMMA LaunchStep ==
  ASSUME LobbyInv, LaunchHandler
  PROVE  LobbyInv'
<1> USE DEF LobbyInv
<1>1. /\ main = "launch" /\ main' = "inform"
      /\ UNCHANGED <<guest, asked, seat, pending, matches, clientVars, mode, socket, status, starts>>
  BY DEF LaunchHandler
<1>2. /\ seat \in Matches \X Seats /\ socket[seat[1]][seat[2]] = guest /\ guest \in Clients
      /\ guest # None
  BY <1>1, NoneIsNobody DEF GuestInv
<1>3. /\ handler' \in [Matches -> [Seats -> {"none", "read", "check", "ended"}]]
      /\ \A m \in Matches, i \in Seats : handler'[m][i] # handler[m][i] => seat = <<m, i>>
  BY <1>2 DEF LaunchHandler, TypeOK
<1>4. TypeOK'
  BY <1>1, <1>3 DEF TypeOK, clientVars
<1>5. WishInv' /\ GuestInv' /\ SeatInv'
  BY <1>1 DEF WishInv, GuestInv, SeatInv, clientVars
<1>6. MatchInv'
  BY <1>1 DEF MatchInv, Taken, Full, players_count
<1>7. StartInv'
  <2> SUFFICES ASSUME NEW m \in Matches, NEW i \in Seats, handler'[m][i] # "none"
               PROVE  socket[m][i] # None
    BY <1>1 DEF StartInv, clientVars
  <2>1. CASE seat = <<m, i>>
    BY <1>2, <2>1
  <2>2. CASE seat # <<m, i>>
    BY <1>3, <2>2 DEF StartInv
  <2> QED BY <2>1, <2>2
<1> QED BY <1>4, <1>5, <1>6, <1>7

LEMMA SendStep ==
  ASSUME LobbyInv, SendNewMatchInfo
  PROVE  LobbyInv'
<1> USE DEF LobbyInv
<1>1. /\ main = "inform" /\ main' = "renew"
      /\ UNCHANGED <<guest, asked, seat, pending, matches, client, wish, inbox, matchVars>>
  BY DEF SendNewMatchInfo
<1>2. /\ seat \in Matches \X Seats /\ socket[seat[1]][seat[2]] = guest /\ guest \in Clients
      /\ guest # None /\ seat # None
  BY <1>1, NoneIsNobody DEF GuestInv
<1>3. /\ told' \in [Clients -> (Matches \X Seats) \cup {None}]
      /\ told'[guest] = seat
      /\ \A c \in Clients : c # guest => told'[c] = told[c]
  BY <1>2 DEF SendNewMatchInfo, TypeOK
<1>4. \A m \in Matches, i \in Seats : socket[m][i] = guest => seat = <<m, i>>
  BY <1>2 DEF SeatInv
<1>5. TypeOK'
  BY <1>1, <1>3 DEF TypeOK, matchVars
<1>6. WishInv'
  BY <1>1, <1>2, <1>3 DEF WishInv
<1>7. GuestInv'
  BY <1>1, <1>2 DEF GuestInv
<1>8. SeatInv'
  <2>1. ASSUME NEW m \in Matches, NEW i \in Seats, socket[m][i] # None
        PROVE  told'[socket[m][i]] = <<m, i>>
    <3>1. socket[m][i] \in Clients
      BY <2>1 DEF TypeOK
    <3>2. CASE socket[m][i] = guest
      BY <1>3, <1>4, <3>2
    <3>3. CASE socket[m][i] # guest
      <4>1. seat # <<m, i>>
        BY <1>2, <3>3
      <4> QED BY <1>3, <2>1, <3>1, <3>3, <4>1 DEF SeatInv
    <3> QED BY <3>2, <3>3
  <2>2. ASSUME NEW c \in Clients, told'[c] # None
        PROVE  socket[told'[c][1]][told'[c][2]] = c
    BY <1>2, <1>3, <2>2 DEF SeatInv
  <2> QED BY <1>1, <2>1, <2>2 DEF SeatInv, matchVars
<1>9. MatchInv'
  BY <1>1 DEF MatchInv, Taken, Full, players_count, matchVars
<1>10. StartInv'
  <2> SUFFICES ASSUME NEW m \in Matches, NEW i \in Seats, status[m][i] # CONNECTED
               PROVE  told'[socket[m][i]] = <<m, i>> \/ client[socket[m][i]] = "closed"
    BY <1>1 DEF StartInv, matchVars
  <2>1. socket[m][i] \in Clients
    BY DEF StartInv, TypeOK
  <2> QED BY <1>3, <1>4, <2>1 DEF StartInv
<1> QED BY <1>5, <1>6, <1>7, <1>8, <1>9, <1>10

LEMMA RenewStep ==
  ASSUME LobbyInv, Renew
  PROVE  LobbyInv'
<1> USE DEF LobbyInv
<1>1. /\ main = "renew" /\ main' = "accept" /\ guest' = None /\ asked' = None /\ seat' = None
      /\ UNCHANGED <<matches, clientVars, matchVars>>
  BY DEF Renew
<1>2. /\ pending' \in [Modes -> Matches \cup {None}]
      /\ \A w \in Modes : pending'[w] # None => pending'[w] = pending[w] /\ ~Full(pending[w])
  BY DEF Renew, TypeOK
<1>3. TypeOK'
  BY <1>1, <1>2 DEF TypeOK, clientVars, matchVars
<1>4. WishInv' /\ GuestInv' /\ SeatInv' /\ StartInv'
  BY <1>1 DEF WishInv, GuestInv, SeatInv, StartInv, clientVars, matchVars
<1>5. MatchInv'
  <2>1. UNCHANGED <<matches, mode, socket>>
    BY <1>1 DEF matchVars
  <2>2. \A m \in Matches :
          Taken(m)' = Taken(m) /\ players_count(m)' = players_count(m) /\ Full(m)' = Full(m)
    BY <2>1, SameCount
  <2>3. /\ \A m \in Matches : Taken(m)' = 0..(players_count(m)' - 1)
        /\ \A m \in 1..matches' : socket'[m][0] # None
    BY <2>1, <2>2 DEF MatchInv
  <2>4. ASSUME NEW w \in Modes, NEW p, p = pending'[w], p # None
        PROVE  p <= matches' /\ mode'[p] = w /\ Cardinality({i \in Seats : socket'[p][i] # None}) # MaxPlayers
    <3>1. p = pending[w] /\ ~Full(p)
      BY <1>2, <2>4
    <3>2. {i \in Seats : socket'[p][i] # None} = {i \in Seats : socket[p][i] # None}
      BY <2>1
    <3>3. Cardinality({i \in Seats : socket'[p][i] # None}) # MaxPlayers
      BY <3>1, <3>2 DEF Full, players_count
    <3> QED BY <2>1, <2>4, <3>1, <3>3 DEF MatchInv
  <2>5. \A w \in Modes : pending'[w] # None =>
          /\ pending'[w] <= matches' /\ mode'[pending'[w]] = w
          /\ Cardinality({i \in Seats : socket'[pending'[w]][i] # None}) # MaxPlayers
    BY <2>4
  <2> QED BY <2>3, <2>5 DEF MatchInv, Full, players_count
<1> QED BY <1>3, <1>4, <1>5

-----------------------------------------------------------------------------
(* The handlers.  Nobody is seated or told anything.                       *)
LEMMA HandlerStep ==
  ASSUME LobbyInv, NEW m \in Matches, NEW i \in Seats, Handler(m, i)
  PROVE  LobbyInv'
<1> USE DEF LobbyInv
<1> DEFINE c == socket[m][i]
<1>1. UNCHANGED <<client, wish, told, mainVars, mode, socket>>
  BY DEF Handler, MarkReady, CheckStart, KillPlayer, clientVars
<1>2. handler[m][i] # "none" /\ c \in Clients /\ c # None
  BY NoneIsNobody DEF Handler, MarkReady, CheckStart, KillPlayer, StartInv, TypeOK
<1>3. inbox' \in [Clients -> BOOLEAN] /\ \A d \in Clients : inbox'[d] => inbox[d]
  BY <1>2 DEF Handler, MarkReady, CheckStart, KillPlayer, clientVars, TypeOK
<1>4. /\ handler' \in [Matches -> [Seats -> {"none", "read", "check", "ended"}]]
      /\ \A n \in Matches, j \in Seats : handler'[n][j] # "none" => handler[n][j] # "none"
  <2>1. \E place \in {"read", "check", "ended"} : handler' = [handler EXCEPT ![m][i] = place]
    BY DEF Handler, MarkReady, CheckStart, KillPlayer
  <2> QED BY <1>2, <2>1 DEF TypeOK
<1>5. /\ status' \in [Matches -> [Seats -> {CONNECTED, READY_TO_PLAY, DEAD}]]
      /\ \A n \in Matches, j \in Seats :
           /\ status[n][j] # CONNECTED => status'[n][j] # CONNECTED
           /\ status'[n][j] # status[n][j] =>
                n = m /\ j = i /\ (told[c] = <<m, i>> \/ client[c] = "closed")
  <2>1. CASE MarkReady(m, i)
    <3>1. told[c] = <<m, i>>
      BY <1>2, <2>1 DEF MarkReady, WishInv, SeatInv
    <3> QED BY <2>1, <3>1 DEF MarkReady, TypeOK, CONNECTED, READY_TO_PLAY
  <2>2. CASE CheckStart(m, i)
    BY <2>2 DEF CheckStart, TypeOK
  <2>3. CASE KillPlayer(m, i)
    BY <2>3 DEF KillPlayer, TypeOK, CONNECTED, DEAD
  <2> QED BY <2>1, <2>2, <2>3 DEF Handler
<1>6. /\ starts' \in [Matches -> Nat]
      /\ \A n \in Matches : starts'[n] > 0 => starts[n] > 0 \/ \A j \in Seats : status[n][j] # CONNECTED
  <2>1. CASE CheckStart(m, i)
    BY <2>1 DEF CheckStart, CanStart, TypeOK
  <2>2. CASE MarkReady(m, i) \/ KillPlayer(m, i)
    BY <2>2 DEF MarkReady, KillPlayer, TypeOK
  <2> QED BY <2>1, <2>2 DEF Handler
<1>7. TypeOK'
  BY <1>1, <1>3, <1>4, <1>5, <1>6 DEF TypeOK, mainVars
<1>8. WishInv'
  BY <1>1, <1>3 DEF WishInv
<1>9. GuestInv' /\ SeatInv'
  BY <1>1 DEF GuestInv, SeatInv, Seated, mainVars
<1>10. MatchInv'
  BY <1>1 DEF MatchInv, Taken, Full, players_count, mainVars
<1>11. StartInv'
  <2>1. \A n \in Matches, j \in Seats : handler'[n][j] # "none" => socket'[n][j] # None
    BY <1>1, <1>4 DEF StartInv
  <2>2. ASSUME NEW n \in Matches, NEW j \in Seats, status'[n][j] # CONNECTED
        PROVE  /\ socket[n][j] # None
               /\ told[socket[n][j]] = <<n, j>> \/ client[socket[n][j]] = "closed"
    <3>1. CASE status'[n][j] = status[n][j]
      BY <2>2, <3>1 DEF StartInv
    <3>2. CASE status'[n][j] # status[n][j]
      BY <1>2, <1>5, <3>2
    <3> QED BY <3>1, <3>2
  <2>3. ASSUME NEW n \in Matches, NEW j \in Seats, starts'[n] > 0
        PROVE  status'[n][j] # CONNECTED
    BY <1>5, <1>6, <2>3 DEF StartInv
  <2> QED BY <1>1, <2>1, <2>2, <2>3 DEF StartInv
<1> QED BY <1>7, <1>8, <1>9, <1>10, <1>11

LEMMA LobbyStep == LobbyInv /\ [Next]_vars => LobbyInv'
<1> SUFFICES ASSUME LobbyInv, [Next]_vars PROVE LobbyInv'
  OBVIOUS
<1>1. CASE UNCHANGED vars
  <2>1. UNCHANGED <<clientVars, mainVars, matchVars>>
    BY <1>1 DEF vars
  <2>2. TypeOK'
    BY <2>1 DEF clientVars, mainVars, matchVars, LobbyInv, TypeOK
  <2>3. WishInv' /\ GuestInv'
    BY <2>1 DEF clientVars, mainVars, matchVars, LobbyInv, WishInv, GuestInv, Seated
  <2>4. SeatInv'
    BY <2>1 DEF clientVars, mainVars, matchVars, LobbyInv, SeatInv
  <2>5. StartInv'
    BY <2>1 DEF clientVars, mainVars, matchVars, LobbyInv, StartInv
  <2>6. MatchInv'
    BY <2>1 DEF mainVars, matchVars, LobbyInv, MatchInv, Taken, Full, players_count
  <2> QED BY <2>2, <2>3, <2>4, <2>5, <2>6 DEF LobbyInv
<1>2. CASE Main
  BY <1>2, AcceptStep, CreateMatchStep, JoinMatchStep, LaunchStep, SendStep, RenewStep DEF Main
<1> QED BY <1>1, <1>2, ClientStep, HandlerStep DEF Next

LEMMA LobbyInvariance == Spec => []LobbyInv
BY InitInv, LobbyStep, PTL DEF Spec

(* Clients, matches and seats stay what they are, and there are never more *)
(* matches than clients.                                                   *)
THEOREM LobbyTypeCorrect == Spec => []TypeOK
<1>1. LobbyInv => TypeOK
  BY DEF LobbyInv
<1> QED BY <1>1, LobbyInvariance, PTL

(* For any number of clients and matches, whoever is told an id has it for *)
(* himself, in a match of the mode he asked for.                           *)
THEOREM SeatsAreSafe == Spec => []SeatsAreTheirs
<1>1. ASSUME LobbyInv PROVE SeatsAreTheirs
  <2> SUFFICES ASSUME NEW c \in Clients, told[c] # None
               PROVE  /\ socket[told[c][1]][told[c][2]] = c
                      /\ wish[c] # None => mode[told[c][1]] = wish[c]
                      /\ \A d \in Clients : told[d] = told[c] => d = c
    BY DEF SeatsAreTheirs
  <2>1. told[c] \in Matches \X Seats
    BY <1>1 DEF LobbyInv, TypeOK
  <2>2. \A d \in Clients : told[d] # None => socket[told[d][1]][told[d][2]] = d
    BY <1>1 DEF LobbyInv, SeatInv
  <2>3. c # None
    BY NoneIsNobody
  <2>4. wish[c] # None => mode[told[c][1]] = wish[c]
    BY <1>1, <2>1, <2>2, <2>3 DEF LobbyInv, SeatInv
  <2> QED BY <2>2, <2>4
<1> QED BY <1>1, LobbyInvariance, PTL

(* For any number of clients, a match that runs has all its players, and   *)
(* each of them knows or is gone.                                          *)
THEOREM StartsComplete == Spec => []StartedWithEverybody
<1>1. LobbyInv => StartedWithEverybody
  BY DEF LobbyInv, StartInv, StartedWithEverybody
<1> QED BY <1>1, LobbyInvariance, PTL

(* For any number of clients and modes, main never touches the seats of a  *)
(* match that runs: the pending matches it seats clients in are not full.  *)
THEOREM StartedIsClosed == Spec => NobodyJoinsLate
<1>1. ASSUME LobbyInv, [Next]_vars, NEW m \in Matches, starts[m] > 0
      PROVE  socket'[m] = socket[m]
  <2>1. \A i \in Seats : socket[m][i] # None
    BY <1>1 DEF LobbyInv, StartInv
  <2>2. CASE CreateMatch
    <3>1. matches' \in Matches /\ matches' = matches + 1 /\ matches \in Nat
      BY <2>2, MatchLeft, <1>1 DEF CreateMatch
    <3>2. m # matches'
      <4>1. 0 \in Seats
        BY LobbyAssumption DEF Seats
      <4>2. m <= matches
        BY <1>1, <2>1, <4>1 DEF LobbyInv, SeatInv
      <4> QED BY <3>1, <4>2 DEF Matches
    <3> QED BY <1>1, <2>2, <3>1, <3>2 DEF CreateMatch, SitDown, LobbyInv, TypeOK
  <2>3. CASE JoinMatch
    <3>1. asked \in Modes /\ pending[asked] # None /\ main = "join"
      BY <1>1, <2>3 DEF JoinMatch, LobbyInv, GuestInv
    <3>2. Full(m)
      BY <1>1, <2>1, Counting DEF LobbyInv, MatchInv
    <3>3. ~Full(pending[asked])
      BY <1>1, <3>1 DEF LobbyInv, MatchInv
    <3>4. pending[asked] \in Matches /\ pending[asked] # m
      BY <1>1, <3>1, <3>2, <3>3 DEF LobbyInv, TypeOK
    <3> QED BY <1>1, <2>3, <3>4 DEF JoinMatch, SitDown, LobbyInv, TypeOK
  <2>4. ASSUME NEW c \in Clients, Client(c) \/ Close(c) \/ Accept(c)
        PROVE  socket' = socket
    BY <2>4 DEF Client, Connect, Ask, DeclareReady, Close, Accept, matchVars
  <2>5. CASE ReadFirst \/ ReadNothing \/ LaunchHandler \/ SendNewMatchInfo \/ Renew
    BY <2>5 DEF ReadFirst, ReadNothing, LaunchHandler, SendNewMatchInfo, Renew, matchVars
  <2>6. ASSUME NEW n \in Matches, NEW i \in Seats, Handler(n, i)
        PROVE  socket' = socket
    BY <2>6 DEF Handler, MarkReady, CheckStart, KillPlayer
  <2>7. CASE UNCHANGED vars
    BY <2>7 DEF vars, matchVars
  <2> QED BY <1>1, <2>2, <2>3, <2>4, <2>5, <2>6, <2>7 DEF Next, Main
<1>2. LobbyInv /\ [Next]_vars => \A m \in Matches : starts[m] > 0 => socket'[m] = socket[m]
  BY <1>1
<1> QED BY <1>2, LobbyInvariance, PTL DEF Spec, NobodyJoinsLate

=============================================================================
