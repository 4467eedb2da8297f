-------------------------- MODULE IMContactsProofs --------------------------
(***************************************************************************)
(* Contacts of the messenger for any users and groups and any number of    *)
(* requests: the inductive invariant that what the server has in memory,   *)
(* the mutual relations and the applications follow from.                  *)
(*                                                                         *)
(* The invariant is about the database and the server only: nothing in it  *)
(* depends on what the clients believe, but for the types of what they ask *)
(* for.  A second one, Beliefs, is about the programs of the users who     *)
(* wait for answers: what they believe of their groups is true of the      *)
(* database once all that is on its way is handled.                        *)
(***************************************************************************)
EXTENDS IMContacts, SequenceProofs

-----------------------------------------------------------------------------
(* The invariant                                                           *)

Others(u) == Users \ {u}

\* The groups that a user has made, and those that a contact can be put into by hand.
Made == (Friends + 1) .. MaxGroup

Applications ==
  {NoApply} \cup [result : {"unknown", "accepted", "denied"},
                  senderRead : BOOLEAN, receiverRead : BOOLEAN]

\* What a client sends, and what the server adds when the connection is over.
Requests(u) ==
       [type : {"add"}, contact : Others(u)]
  \cup [type : {"response"}, contact : Others(u), accept : BOOLEAN, message : BOOLEAN]
  \cup [type : {"delete"}, contact : Others(u), both : BOOLEAN, blacklist : BOOLEAN]
  \cup [type : {"move"}, contact : Others(u), old : Groups, new : Friends .. MaxGroup]
  \cup [type : {"create"}]
  \cup [type : {"drop", "rename"}, group : Made]
  \cup [type : {"gone"}]

\* What the server sends.
Answers(u) ==
       [type : {"request", "refused"}, contact : Others(u)]
  \cup [type : {"added"}, contact : Others(u), group : Groups, ok : BOOLEAN]
  \cup [type : {"deleted"}, contact : Others(u), blacklist : BOOLEAN]
  \cup [type : {"created"}, group : Groups, ok : BOOLEAN]
  \cup [type : {"dropped"}, group : Made, ok : BOOLEAN]

\* Nobody is a contact of himself, and everybody has friends.
Stores ==
  /\ groups \in [Users -> SUBSET Groups]
  /\ row \in [Users -> [Users -> Groups \cup {NoGroup}]]
  /\ apply \in [Users -> [Users -> Applications]]
  /\ \A u \in Users : Friends \in groups[u]
  /\ \A u \in Users : row[u][u] = NoGroup /\ apply[u][u] = NoApply
  /\ \A u, c \in Users : row[u][c] # NoGroup => row[u][c] \in groups[u]

Memories ==
  /\ online \in [Users -> BOOLEAN]
  /\ memory \in [Users -> GroupMaps]
  /\ \A u \in Users : DOMAIN DefaultGroups \subseteq DOMAIN memory[u]

Programs ==
  /\ linked \in [Users -> BOOLEAN]
  /\ mine \in [Users -> GroupMaps]
  /\ seen \in [Users -> [Users -> Groups \cup {NoGroup}]]
  /\ asked \in [Users -> SUBSET Users]
  /\ added \in [Users -> SUBSET Users]
  /\ \A u \in Users : seen[u][u] = NoGroup /\ u \notin asked[u] /\ u \notin added[u]

Wires ==
  /\ toServer = [u \in Users |-> toServer[u]]
  /\ toClient = [u \in Users |-> toClient[u]]
  /\ \A u \in Users : toServer[u] \in Seq(Requests(u)) /\ toClient[u] \in Seq(Answers(u))

Histories ==
  /\ waiting \subseteq Users \X Users
  /\ renamed \in [Users -> SUBSET Groups]

Types == Stores /\ Memories /\ Programs /\ Wires /\ Histories

\* What is still to come of a user who is gone ends with that, and then the user is offline.
GoneLast(q) == \A i \in 1 .. Len(q) : q[i].type = "gone" => i = Len(q)
GoneIn(q) == \E i \in 1 .. Len(q) : q[i].type = "gone"

Sessions ==
  \A u \in Users :
    /\ GoneLast(toServer[u])
    /\ toServer[u] # <<>> => online[u]
    /\ linked[u] => online[u] /\ ~GoneIn(toServer[u])

\* A contact is in one group at most.
Single(m, c) == \A g, h \in DOMAIN m : c \in m[g] /\ c \in m[h] => g = h
Singles == \A u, c \in Users : Single(memory[u], c)

\* Whom the server has in a group that the user has made is there in the database, too, or
\* nowhere: only the group of friends, where the contact's own login or answer puts him,
\* may differ, so that the deletion of a group takes nobody out of the database whom the
\* server goes on having elsewhere.
InMadeGroups(u) ==
  \A g \in DOMAIN memory[u] \ DOMAIN DefaultGroups : \A c \in memory[u][g] :
    row[u][c] \in {g, NoGroup}

InFriends(u) ==
  \A c \in Users : HasFriend(memory[u], c) => row[u][c] # NoGroup \/ <<u, c>> \in fallen

InMemory(u) ==
  \A c \in Users : row[u][c] # NoGroup =>
    \/ \E g \in DOMAIN memory[u] : c \in memory[u][g]
    \/ row[u][c] \in renamed[u]

Matches == \A u \in Users : online[u] => InMadeGroups(u) /\ InFriends(u) /\ InMemory(u)

\* The receiver has not been online since.
Waits ==
  \A a, b \in Users : <<a, b>> \in waiting =>
    ~online[b] /\ apply[a][b].result = "unknown" /\ ~apply[a][b].receiverRead

IInv == Types /\ Sessions /\ Singles /\ Matches /\ FriendshipIsMutual /\ Waits

-----------------------------------------------------------------------------
(* Groups of contacts                                                      *)

LEMMA Numbers ==
  ASSUME IMContactsAssumption
  PROVE  /\ Groups = -1 .. MaxGroup /\ NoGroup = -2 /\ NoGroup \notin Groups
         /\ Strangers = -1 /\ Blacklist = 0 /\ Friends = 1 /\ Made = 2 .. MaxGroup
         /\ MaxGroup \in Nat \ {0}
         /\ DOMAIN DefaultGroups = {Strangers, Blacklist, Friends}
         /\ DOMAIN DefaultGroups \subseteq Groups /\ Made \subseteq Groups
         /\ \A g \in Made : g \notin DOMAIN DefaultGroups
         /\ Friends .. MaxGroup \subseteq Groups
BY DEF IMContactsAssumption, Groups, NoGroup, Strangers, Blacklist, Friends, Made, DefaultGroups

LEMMA MapFacts ==
  ASSUME NEW m \in GroupMaps
  PROVE  /\ m = [g \in DOMAIN m |-> m[g]] /\ DOMAIN m \subseteq Groups
         /\ \A g \in DOMAIN m : m[g] \subseteq Users
<1>1. PICK S \in SUBSET Groups : m \in [S -> SUBSET Users]
  BY DEF GroupMaps
<1> QED BY <1>1

LEMMA MapIs ==
  ASSUME NEW m, m = [g \in DOMAIN m |-> m[g]], DOMAIN m \subseteq Groups,
         \A g \in DOMAIN m : m[g] \subseteq Users
  PROVE  m \in GroupMaps
<1>1. m \in [DOMAIN m -> SUBSET Users]
  OBVIOUS
<1> QED BY <1>1 DEF GroupMaps

LEMMA DefaultFacts ==
  ASSUME IMContactsAssumption
  PROVE  /\ DefaultGroups \in GroupMaps
         /\ \A g \in DOMAIN DefaultGroups : DefaultGroups[g] = {}
<1>1. DefaultGroups = [g \in DOMAIN DefaultGroups |-> DefaultGroups[g]]
  BY DEF DefaultGroups
<1>2. \A g \in DOMAIN DefaultGroups : DefaultGroups[g] = {}
  BY DEF DefaultGroups
<1> QED BY <1>1, <1>2, Numbers, MapIs

LEMMA GroupOfFacts ==
  ASSUME NEW m, NEW c
  PROVE  /\ Holding(m, c) = {} => GroupOf(m, c) = Strangers
         /\ Holding(m, c) # {} => GroupOf(m, c) \in DOMAIN m /\ c \in m[GroupOf(m, c)]
         /\ (\E g \in DOMAIN m : c \in m[g]) => Holding(m, c) # {}
BY DEF GroupOf, Holding

LEMMA GroupOfType ==
  ASSUME IMContactsAssumption, NEW m \in GroupMaps, NEW c
  PROVE  GroupOf(m, c) \in Groups
BY GroupOfFacts, MapFacts, Numbers

\* A contact who is taken off the first group that has him is in none when he was in one.
LEMMA WithoutFacts ==
  ASSUME NEW m \in GroupMaps, NEW c
  PROVE  /\ Without(m, c) \in GroupMaps /\ DOMAIN Without(m, c) = DOMAIN m
         /\ \A g \in DOMAIN m : Without(m, c)[g] \subseteq m[g]
         /\ \A g \in DOMAIN m : \A d \in m[g] : d # c => d \in Without(m, c)[g]
         /\ Single(m, c) => \A g \in DOMAIN m : c \notin Without(m, c)[g]
<1>1. CASE Holding(m, c) = {}
  BY <1>1, GroupOfFacts DEF Without
<1>2. CASE Holding(m, c) # {}
  <2>1. PICK h : h = GroupOf(m, c)
    OBVIOUS
  <2>2. h \in DOMAIN m /\ c \in m[h]
    BY <1>2, <2>1, GroupOfFacts
  <2>3. PICK w : w = Without(m, c)
    OBVIOUS
  <2>4. w = [m EXCEPT ![h] = @ \ {c}]
    BY <1>2, <2>1, <2>3 DEF Without
  <2>5. /\ DOMAIN w = DOMAIN m /\ w = [g \in DOMAIN w |-> w[g]]
        /\ \A g \in DOMAIN m : w[g] = IF g = h THEN m[g] \ {c} ELSE m[g]
    BY <2>4, MapFacts
  <2>6. w \in GroupMaps
    BY <2>5, MapFacts, MapIs
  <2>7. ASSUME Single(m, c), NEW g \in DOMAIN m PROVE c \notin w[g]
    BY <2>2, <2>5, <2>7 DEF Single
  <2> QED BY <2>3, <2>5, <2>6, <2>7
<1> QED BY <1>1, <1>2

LEMMA WithFacts ==
  ASSUME NEW m \in GroupMaps, NEW c \in Users, NEW g \in DOMAIN m
  PROVE  /\ With(m, c, g) \in GroupMaps /\ DOMAIN With(m, c, g) = DOMAIN m
         /\ c \in With(m, c, g)[g]
         /\ \A h \in DOMAIN m : \A d \in Users : d # c =>
              (d \in With(m, c, g)[h] <=> d \in m[h])
         /\ Single(m, c) => \A h \in DOMAIN m : c \in With(m, c, g)[h] => h = g
<1>1. PICK w : w = Without(m, c)
  OBVIOUS
<1>2. /\ w \in GroupMaps /\ DOMAIN w = DOMAIN m
      /\ \A h \in DOMAIN m : w[h] \subseteq m[h]
      /\ \A h \in DOMAIN m : \A d \in m[h] : d # c => d \in w[h]
      /\ Single(m, c) => \A h \in DOMAIN m : c \notin w[h]
  BY <1>1, WithoutFacts
<1>3. PICK r : r = With(m, c, g)
  OBVIOUS
<1>4. r = [w EXCEPT ![g] = @ \cup {c}]
  BY <1>1, <1>3 DEF With
<1>5. /\ DOMAIN r = DOMAIN m /\ r = [h \in DOMAIN r |-> r[h]]
      /\ \A h \in DOMAIN m : r[h] = IF h = g THEN w[h] \cup {c} ELSE w[h]
  <2>1. w = [h \in DOMAIN w |-> w[h]]
    BY <1>2, MapFacts
  <2> QED BY <1>2, <1>4, <2>1
<1>6. r \in GroupMaps
  BY <1>2, <1>5, MapFacts, MapIs
<1> QED BY <1>2, <1>3, <1>5, <1>6

\* Whatever is given for the old group.
LEMMA MovedType ==
  ASSUME NEW m \in GroupMaps, NEW c \in Users, NEW old, NEW new
  PROVE  Moved(m, c, old, new) \in GroupMaps
<1>1. m = [h \in DOMAIN m |-> m[h]]
  BY MapFacts
<1>2. PICK w : w = [m EXCEPT ![old] = @ \ {c}]
  OBVIOUS
<1>3. /\ DOMAIN w = DOMAIN m /\ w = [h \in DOMAIN w |-> w[h]]
      /\ \A h \in DOMAIN m : w[h] = IF h = old THEN m[h] \ {c} ELSE m[h]
  BY <1>1, <1>2
<1>4. PICK r : r = Moved(m, c, old, new)
  OBVIOUS
<1>5. r = [w EXCEPT ![new] = @ \cup {c}]
  BY <1>2, <1>4 DEF Moved
<1>6. /\ DOMAIN r = DOMAIN m /\ r = [h \in DOMAIN r |-> r[h]]
      /\ \A h \in DOMAIN m : r[h] = IF h = new THEN w[h] \cup {c} ELSE w[h]
  BY <1>3, <1>5
<1> QED BY <1>3, <1>4, <1>6, MapFacts, MapIs

LEMMA WithType ==
  ASSUME NEW m \in GroupMaps, NEW c \in Users, NEW g
  PROVE  With(m, c, g) \in GroupMaps
BY WithFacts DEF With

LEMMA MovedFacts ==
  ASSUME NEW m \in GroupMaps, NEW c \in Users, NEW old \in DOMAIN m, NEW new \in DOMAIN m
  PROVE  /\ Moved(m, c, old, new) \in GroupMaps /\ DOMAIN Moved(m, c, old, new) = DOMAIN m
         /\ c \in Moved(m, c, old, new)[new]
         /\ \A h \in DOMAIN m : \A d \in Users : d # c =>
              (d \in Moved(m, c, old, new)[h] <=> d \in m[h])
         /\ \A h \in DOMAIN m : c \in Moved(m, c, old, new)[h] =>
              h = new \/ (h # old /\ c \in m[h])
<1>1. PICK r : r = Moved(m, c, old, new)
  OBVIOUS
<1>2. PICK w : w = [m EXCEPT ![old] = @ \ {c}]
  OBVIOUS
<1>3. /\ DOMAIN w = DOMAIN m /\ w = [h \in DOMAIN w |-> w[h]]
      /\ \A h \in DOMAIN m : w[h] = IF h = old THEN m[h] \ {c} ELSE m[h]
  <2>1. m = [h \in DOMAIN m |-> m[h]]
    BY MapFacts
  <2> QED BY <1>2, <2>1
<1>4. r = [w EXCEPT ![new] = @ \cup {c}]
  BY <1>1, <1>2 DEF Moved
<1>5. /\ DOMAIN r = DOMAIN m /\ r = [h \in DOMAIN r |-> r[h]]
      /\ \A h \in DOMAIN m : r[h] = IF h = new THEN w[h] \cup {c} ELSE w[h]
  BY <1>3, <1>4
<1>6. r \in GroupMaps
  BY <1>3, <1>5, MapFacts, MapIs
<1> QED BY <1>1, <1>3, <1>5, <1>6

LEMMA WithGroupFacts ==
  ASSUME NEW m \in GroupMaps, NEW g \in Groups
  PROVE  /\ WithGroup(m, g) \in GroupMaps /\ DOMAIN WithGroup(m, g) = DOMAIN m \cup {g}
         /\ \A h \in DOMAIN m : WithGroup(m, g)[h] = m[h]
         /\ g \notin DOMAIN m => WithGroup(m, g)[g] = {}
<1>1. PICK r : r = WithGroup(m, g)
  OBVIOUS
<1>2. /\ DOMAIN r = DOMAIN m \cup {g} /\ r = [h \in DOMAIN r |-> r[h]]
      /\ \A h \in DOMAIN r : r[h] = IF h \in DOMAIN m THEN m[h] ELSE {}
  BY <1>1 DEF WithGroup
<1>3. r \in GroupMaps
  BY <1>2, MapFacts, MapIs
<1> QED BY <1>1, <1>2, <1>3

LEMMA WithoutGroupFacts ==
  ASSUME NEW m \in GroupMaps, NEW g
  PROVE  /\ WithoutGroup(m, g) \in GroupMaps /\ DOMAIN WithoutGroup(m, g) = DOMAIN m \ {g}
         /\ \A h \in DOMAIN m \ {g} : WithoutGroup(m, g)[h] = m[h]
<1>1. PICK r : r = WithoutGroup(m, g)
  OBVIOUS
<1>2. /\ DOMAIN r = DOMAIN m \ {g} /\ r = [h \in DOMAIN r |-> r[h]]
      /\ \A h \in DOMAIN r : r[h] = m[h]
  BY <1>1 DEF WithoutGroup
<1>3. r \in GroupMaps
  BY <1>2, MapFacts, MapIs
<1> QED BY <1>1, <1>2, <1>3

\* What a login loads: the groups of the database with their members.
LEMMA LoadedFacts ==
  ASSUME IMContactsAssumption, Stores, NEW u \in Users
  PROVE  /\ Loaded(u) \in GroupMaps /\ DOMAIN DefaultGroups \subseteq DOMAIN Loaded(u)
         /\ \A g \in DOMAIN Loaded(u) : \A c \in Users :
              c \in Loaded(u)[g] <=> row[u][c] = g
         /\ \A c \in Users : row[u][c] # NoGroup => row[u][c] \in DOMAIN Loaded(u)
<1>1. PICK m : m = Loaded(u)
  OBVIOUS
<1>2. CASE \A c \in Users : row[u][c] = NoGroup
  <2>1. m = DefaultGroups
    BY <1>1, <1>2 DEF Loaded
  <2> QED BY <1>1, <1>2, <2>1, DefaultFacts, Numbers
<1>3. CASE ~\A c \in Users : row[u][c] = NoGroup
  <2>1. m = [g \in groups[u] \cup DOMAIN DefaultGroups |-> { c \in Users : row[u][c] = g }]
    BY <1>1, <1>3 DEF Loaded
  <2>2. /\ DOMAIN m = groups[u] \cup DOMAIN DefaultGroups /\ m = [g \in DOMAIN m |-> m[g]]
        /\ \A g \in DOMAIN m : m[g] = { c \in Users : row[u][c] = g }
    BY <2>1
  <2>3. DOMAIN m \subseteq Groups
    BY <2>2, Numbers DEF Stores
  <2>4. m \in GroupMaps
    BY <2>2, <2>3, MapIs
  <2>5. \A c \in Users : row[u][c] # NoGroup => row[u][c] \in DOMAIN m
    BY <2>2 DEF Stores
  <2> QED BY <1>1, <2>2, <2>4, <2>5
<1> QED BY <1>2, <1>3

-----------------------------------------------------------------------------
(* What is on its way                                                      *)

LEMMA RequestFacts ==
  ASSUME NEW u \in Users, NEW p \in Requests(u)
  PROVE  /\ p.type \in Packets
         /\ p.type \in {"add", "response", "delete", "move"} => p.contact \in Others(u)
         /\ p.type = "response" => p.accept \in BOOLEAN /\ p.message \in BOOLEAN
         /\ p.type = "delete" => p.both \in BOOLEAN /\ p.blacklist \in BOOLEAN
         /\ p.type = "move" => p.old \in Groups /\ p.new \in Friends .. MaxGroup
         /\ p.type \in {"drop", "rename"} => p.group \in Made
BY DEF Requests, Packets

LEMMA AnswerFacts ==
  ASSUME NEW u \in Users, NEW p \in Answers(u)
  PROVE  /\ p.type \in {"request", "refused", "added", "deleted"} => p.contact \in Others(u)
         /\ p.type = "added" => p.group \in Groups /\ p.ok \in BOOLEAN
         /\ p.type = "deleted" => p.blacklist \in BOOLEAN
         /\ p.type = "created" => p.group \in Groups /\ p.ok \in BOOLEAN
         /\ p.type = "dropped" => p.group \in Made /\ p.ok \in BOOLEAN
BY DEF Answers

LEMMA OneFacts ==
  ASSUME NEW S, NEW e \in S
  PROVE  <<e>> \in Seq(S) /\ Len(<<e>>) = 1 /\ <<e>>[1] = e
OBVIOUS

\* The first request of a user, and what is left when the server has taken it.
LEMMA TakenFacts ==
  ASSUME Wires, NEW u \in Users, toServer[u] # <<>>
  PROVE  /\ Taken(u) = [w \in Users |-> Taken(u)[w]]
         /\ \A w \in Users : Taken(u)[w] \in Seq(Requests(w))
         /\ \A w \in Users : w # u => Taken(u)[w] = toServer[w]
         /\ Taken(u)[u] = Tail(toServer[u])
         /\ Head(toServer[u]) \in Requests(u) /\ Head(toServer[u]) = toServer[u][1]
<1>1. toServer[u] \in Seq(Requests(u))
  BY DEF Wires
<1>2. /\ Tail(toServer[u]) \in Seq(Requests(u))
      /\ Head(toServer[u]) = toServer[u][1] /\ toServer[u][1] \in Requests(u)
  BY <1>1, TailFacts
<1>3. /\ Taken(u) = [w \in Users |-> Taken(u)[w]]
      /\ \A w \in Users : Taken(u)[w] = IF w = u THEN Tail(toServer[u]) ELSE toServer[w]
  BY DEF Taken, Wires
<1> QED BY <1>2, <1>3 DEF Wires

Answered(q) ==
  /\ q = [w \in Users |-> q[w]]
  /\ \A w \in Users : q[w] \in Seq(Answers(w))

LEMMA SentFacts ==
  ASSUME NEW q, Answered(q), NEW u \in Users, NEW p \in Answers(u)
  PROVE  Answered(Sent(q, u, p))
<1>1. Append(q[u], p) \in Seq(Answers(u))
  BY AppendFacts DEF Answered
<1>2. CASE linked[u]
  <2>1. PICK r : r = Sent(q, u, p)
    OBVIOUS
  <2>2. r = [q EXCEPT ![u] = Append(q[u], p)]
    BY <1>2, <2>1 DEF Sent
  <2>3. /\ r = [w \in Users |-> r[w]]
        /\ \A w \in Users : r[w] = IF w = u THEN Append(q[u], p) ELSE q[w]
    BY <2>2 DEF Answered
  <2> QED BY <1>1, <2>1, <2>3 DEF Answered
<1> QED BY <1>2 DEF Sent

LEMMA RestFacts ==
  ASSUME Wires, NEW u \in Users, toClient[u] # <<>>
  PROVE  Answered(Rest(u)) /\ Head(toClient[u]) \in Answers(u)
<1>1. toClient[u] \in Seq(Answers(u))
  BY DEF Wires
<1>2. /\ Tail(toClient[u]) \in Seq(Answers(u))
      /\ Head(toClient[u]) = toClient[u][1] /\ toClient[u][1] \in Answers(u)
  BY <1>1, TailFacts
<1>3. /\ Rest(u) = [w \in Users |-> Rest(u)[w]]
      /\ \A w \in Users : Rest(u)[w] = IF w = u THEN Tail(toClient[u]) ELSE toClient[w]
  BY DEF Rest, Wires
<1> QED BY <1>2, <1>3 DEF Wires, Answered

LEMMA AskFacts ==
  ASSUME Wires, NEW u \in Users, NEW packets \in Seq(Requests(u)), Ask(u, packets)
  PROVE  /\ linked[u]
         /\ toServer' = [w \in Users |-> toServer'[w]]
         /\ \A w \in Users : toServer'[w] \in Seq(Requests(w))
         /\ \A w \in Users : w # u => toServer'[w] = toServer[w]
         /\ toServer'[u] = toServer[u] \o packets
<1>1. toServer[u] \o packets \in Seq(Requests(u))
  <2>1. toServer[u] \in Seq(Requests(u))
    BY DEF Wires
  <2> QED BY <2>1, ConcatFacts
<1>2. /\ linked[u]
      /\ toServer' = [toServer EXCEPT ![u] = toServer[u] \o packets]
  BY DEF Ask
<1>3. /\ toServer' = [w \in Users |-> toServer'[w]]
      /\ \A w \in Users :
           toServer'[w] = IF w = u THEN toServer[u] \o packets ELSE toServer[w]
  BY <1>2 DEF Wires
<1> QED BY <1>1, <1>2, <1>3 DEF Wires

\* A connection that ends.
LEMMA EndsFacts ==
  ASSUME Programs, Wires, NEW u \in Users, NEW sent \in Seq(Requests(u)), Ends(u, sent)
  PROVE  /\ Answered(toClient')
         /\ toServer' = [w \in Users |-> toServer'[w]]
         /\ \A w \in Users : toServer'[w] \in Seq(Requests(w))
         /\ \A w \in Users : w # u => toServer'[w] = toServer[w]
         /\ linked' = [linked EXCEPT ![u] = FALSE]
         /\ \E n \in 0 .. Len(sent) :
              /\ Len(toServer'[u]) = n + 1
              /\ \A i \in 1 .. n : toServer'[u][i] = sent[i]
              /\ toServer'[u][n + 1].type = "gone"
         /\ asked' \in [Users -> SUBSET Users] /\ added' \in [Users -> SUBSET Users]
         /\ \A w \in Users : asked'[w] \subseteq asked[w] /\ added'[w] \subseteq added[w]
<1>1. PICK n \in 0 .. Len(sent) :
        toServer' = [toServer EXCEPT ![u] = Append(SubSeq(sent, 1, n), [type |-> "gone"])]
  BY DEF Ends
<1>2. PICK q : q = SubSeq(sent, 1, n)
  OBVIOUS
<1>3. q \in Seq(Requests(u)) /\ Len(q) = n /\ \A i \in 1 .. n : q[i] = sent[i]
  BY <1>2
<1>4. PICK e : e = [type |-> "gone"]
  OBVIOUS
<1>5. e \in Requests(u)
  BY <1>4 DEF Requests
<1>6. PICK r : r = Append(q, e)
  OBVIOUS
<1>7. /\ r \in Seq(Requests(u)) /\ Len(r) = n + 1 /\ \A i \in 1 .. n : r[i] = q[i]
      /\ r[n + 1].type = "gone"
  BY <1>3, <1>4, <1>5, <1>6, AppendFacts
<1>8. toServer' = [toServer EXCEPT ![u] = r]
  BY <1>1, <1>2, <1>4, <1>6
<1>9. /\ toServer' = [w \in Users |-> toServer'[w]]
      /\ \A w \in Users : toServer'[w] = IF w = u THEN r ELSE toServer[w]
  BY <1>8 DEF Wires
<1>10. Answered(toClient')
  <2>1. toClient' = [toClient EXCEPT ![u] = <<>>]
    BY DEF Ends
  <2>2. /\ toClient' = [w \in Users |-> toClient'[w]]
        /\ \A w \in Users : toClient'[w] = IF w = u THEN <<>> ELSE toClient[w]
    BY <2>1 DEF Wires
  <2>3. <<>> \in Seq(Answers(u))
    OBVIOUS
  <2> QED BY <2>2, <2>3 DEF Wires, Answered
<1>11. /\ asked' \in [Users -> SUBSET Users] /\ added' \in [Users -> SUBSET Users]
       /\ \A w \in Users : asked'[w] \subseteq asked[w] /\ added'[w] \subseteq added[w]
  <2>1. CASE asked' = [asked EXCEPT ![u] = {}] /\ added' = [added EXCEPT ![u] = {}]
    BY <2>1 DEF Programs
  <2>2. CASE UNCHANGED <<asked, added>>
    BY <2>2 DEF Programs
  <2> QED BY <2>1, <2>2 DEF Ends
<1>12. linked' = [linked EXCEPT ![u] = FALSE]
  BY DEF Ends
<1>13. /\ Len(toServer'[u]) = n + 1 /\ \A i \in 1 .. n : toServer'[u][i] = sent[i]
       /\ toServer'[u][n + 1].type = "gone"
  BY <1>3, <1>7, <1>9
<1> QED BY <1>7, <1>9, <1>10, <1>11, <1>12, <1>13 DEF Wires

-----------------------------------------------------------------------------
(* The client                                                              *)

LEMMA AskKeeps ==
  ASSUME Types, Sessions, NEW u \in Users, NEW packets \in Seq(Requests(u)),
         \A i \in 1 .. Len(packets) : packets[i].type # "gone",
         Ask(u, packets), UNCHANGED <<online, linked, toClient>>
  PROVE  Wires' /\ Sessions'
<1>1. /\ linked[u]
      /\ toServer' = [w \in Users |-> toServer'[w]]
      /\ \A w \in Users : toServer'[w] \in Seq(Requests(w))
      /\ \A w \in Users : w # u => toServer'[w] = toServer[w]
      /\ toServer'[u] = toServer[u] \o packets
  BY AskFacts DEF Types
<1>2. Wires'
  BY <1>1 DEF Types, Wires
<1>3. PICK q : q = toServer[u]
  OBVIOUS
<1>4. q \in Seq(Requests(u)) /\ online[u] /\ ~GoneIn(q)
  BY <1>1, <1>3 DEF Types, Wires, Sessions
<1>5. PICK r : r = toServer'[u]
  OBVIOUS
<1>6. \A i \in 1 .. Len(r) : r[i].type # "gone"
  <2>1. \A i \in 1 .. Len(r) : \/ i \in 1 .. Len(q) /\ r[i] = q[i]
                               \/ i - Len(q) \in 1 .. Len(packets) /\ r[i] = packets[i - Len(q)]
    BY <1>1, <1>3, <1>4, <1>5, ConcatFacts
  <2>2. \A i \in 1 .. Len(q) : q[i].type # "gone"
    BY <1>4 DEF GoneIn
  <2> QED BY <2>1, <2>2
<1>7. GoneLast(r) /\ ~GoneIn(r)
  BY <1>6 DEF GoneLast, GoneIn
<1> QED BY <1>1, <1>2, <1>4, <1>5, <1>7 DEF Sessions

LEMMA AnswerKeeps ==
  ASSUME Types, Sessions, NEW u \in Users, toClient[u] # <<>>, toClient' = Rest(u),
         UNCHANGED <<online, linked, toServer>>
  PROVE  Wires' /\ Sessions'
<1>1. Answered(toClient')
  BY RestFacts DEF Types
<1>2. Wires'
  BY <1>1 DEF Types, Wires, Answered
<1> QED BY <1>2 DEF Sessions

LEMMA EndKeeps ==
  ASSUME Types, Sessions, NEW u \in Users, NEW sent \in Seq(Requests(u)),
         \A i \in 1 .. Len(sent) : sent[i].type # "gone", linked[u],
         Ends(u, sent), UNCHANGED <<online, mine, seen>>
  PROVE  Wires' /\ Programs' /\ Sessions'
<1>1. /\ Answered(toClient')
      /\ toServer' = [w \in Users |-> toServer'[w]]
      /\ \A w \in Users : toServer'[w] \in Seq(Requests(w))
      /\ \A w \in Users : w # u => toServer'[w] = toServer[w]
      /\ linked' = [linked EXCEPT ![u] = FALSE]
      /\ asked' \in [Users -> SUBSET Users] /\ added' \in [Users -> SUBSET Users]
      /\ \A w \in Users : asked'[w] \subseteq asked[w] /\ added'[w] \subseteq added[w]
  BY EndsFacts DEF Types
<1>2. PICK n \in 0 .. Len(sent) :
        Len(toServer'[u]) = n + 1 /\ \A i \in 1 .. n : toServer'[u][i] = sent[i]
  BY EndsFacts DEF Types
<1>3. Wires'
  BY <1>1 DEF Wires, Answered
<1>4. /\ linked \in [Users -> BOOLEAN] /\ mine \in [Users -> GroupMaps]
      /\ seen \in [Users -> [Users -> Groups \cup {NoGroup}]]
      /\ \A w \in Users : seen[w][w] = NoGroup /\ w \notin asked[w] /\ w \notin added[w]
  BY DEF Types, Programs
<1>5. /\ linked' \in [Users -> BOOLEAN] /\ ~linked'[u]
      /\ \A w \in Users : w # u => linked'[w] = linked[w]
  BY <1>1, <1>4
<1>6. Programs'
  BY <1>1, <1>4, <1>5 DEF Programs
<1>7. GoneLast(toServer'[u])
  <2>1. ASSUME NEW i \in 1 .. Len(toServer'[u]), toServer'[u][i].type = "gone"
        PROVE  i = Len(toServer'[u])
    <3>1. i \in 1 .. n + 1 /\ n \in Nat
      BY <1>2
    <3>2. CASE i \in 1 .. n
      <4>1. i \in 1 .. Len(sent) /\ toServer'[u][i] = sent[i]
        BY <1>2, <3>2
      <4> QED BY <2>1, <4>1
    <3> QED BY <1>2, <3>1, <3>2
  <2> QED BY <2>1 DEF GoneLast
<1>8. online[u]
  BY DEF Sessions
<1>9. Sessions'
  BY <1>1, <1>5, <1>7, <1>8 DEF Sessions
<1> QED BY <1>3, <1>6, <1>9

\* The client's groups and what it knows of a contact change together.
LEMMA MineFacts ==
  ASSUME Programs, NEW u \in Users, NEW m \in GroupMaps, NEW c \in Others(u), NEW g \in Groups,
         mine' = [mine EXCEPT ![u] = m], seen' = [seen EXCEPT ![u][c] = g]
  PROVE  /\ mine' \in [Users -> GroupMaps]
         /\ seen' \in [Users -> [Users -> Groups \cup {NoGroup}]]
         /\ \A w \in Users : seen'[w][w] = NoGroup
BY DEF Programs, Others

LEMMA FriendGroupsFacts ==
  ASSUME IMContactsAssumption, NEW m \in GroupMaps, NEW g \in FriendGroups(m)
  PROVE  /\ g \in DOMAIN m /\ g \in Friends .. MaxGroup /\ g \in Groups
         /\ g # Friends => g \in Made
<1>1. g \in Groups /\ g \in DOMAIN m /\ g # Strangers /\ g # Blacklist
  BY MapFacts DEF FriendGroups
<1> QED BY <1>1, Numbers

LEMMA AddStep ==
  ASSUME Types, Sessions, NEW u \in Users, NEW c \in Users, Add(u, c)
  PROVE  Programs' /\ Wires' /\ Sessions'
<1>1. c \in Others(u)
  BY DEF Add, Others
<1>2. PICK a : a = [type |-> "add", contact |-> c]
  OBVIOUS
<1>3. PICK d : d = DeletePacket(c, FALSE, FALSE)
  OBVIOUS
<1>4. a \in Requests(u) /\ a.type # "gone" /\ d \in Requests(u) /\ d.type # "gone"
  BY <1>1, <1>2, <1>3 DEF Requests, DeletePacket
<1>5. PICK packets : /\ packets = <<a>> \/ packets = <<d>> \o <<a>>
                     /\ Ask(u, packets)
  BY <1>2, <1>3 DEF Add
<1>6. /\ <<a>> \in Seq(Requests(u)) /\ Len(<<a>>) = 1 /\ <<a>>[1] = a
      /\ <<d>> \in Seq(Requests(u)) /\ Len(<<d>>) = 1 /\ <<d>>[1] = d
  BY <1>4, OneFacts
<1>7. packets \in Seq(Requests(u)) /\ \A i \in 1 .. Len(packets) : packets[i].type # "gone"
  <2>1. CASE packets = <<a>>
    BY <1>4, <1>6, <2>1
  <2>2. CASE packets = <<d>> \o <<a>>
    <3>1. /\ packets \in Seq(Requests(u)) /\ Len(packets) = 2
          /\ \A i \in 1 .. Len(packets) : packets[i] = d \/ packets[i] = a
      BY <1>4, <2>2
    <3> QED BY <1>4, <3>1
  <2> QED BY <1>5, <2>1, <2>2
<1>8. UNCHANGED <<online, clients, toClient>>
  BY DEF Add
<1>9. Programs'
  BY <1>8 DEF Types, Programs, clients
<1> QED BY <1>5, <1>7, <1>8, <1>9, AskKeeps DEF clients

\* A single request.
LEMMA OneKeeps ==
  ASSUME Types, Sessions, NEW u \in Users, NEW p \in Requests(u), p.type # "gone",
         Ask(u, <<p>>), UNCHANGED <<online, linked, toClient>>
  PROVE  Wires' /\ Sessions'
<1>1. <<p>> \in Seq(Requests(u)) /\ Len(<<p>>) = 1 /\ <<p>>[1] = p
  BY OneFacts
<1>2. \A i \in 1 .. Len(<<p>>) : <<p>>[i].type # "gone"
  BY <1>1
<1> QED BY <1>1, <1>2, AskKeeps

LEMMA AnswerStep ==
  ASSUME Types, Sessions, NEW u \in Users, NEW c \in Users, Answer(u, c)
  PROVE  Programs' /\ Wires' /\ Sessions'
<1>1. c \in asked[u] /\ asked' = [asked EXCEPT ![u] = @ \ {c}]
      /\ UNCHANGED <<online, linked, mine, seen, added, toClient>>
  BY DEF Answer
<1>2. Programs'
  BY <1>1 DEF Types, Programs
<1>3. c \in Others(u)
  BY <1>1 DEF Types, Programs, Others
<1>4. CASE UNCHANGED <<toServer, asking>>
  BY <1>1, <1>2, <1>4 DEF Types, Wires, Sessions
<1>5. ASSUME NEW accept \in BOOLEAN, NEW message \in BOOLEAN,
             Ask(u, <<[type |-> "response", contact |-> c, accept |-> accept,
                       message |-> message]>>)
      PROVE  Wires' /\ Sessions'
  <2>1. PICK p : p = [type |-> "response", contact |-> c, accept |-> accept,
                      message |-> message]
    OBVIOUS
  <2>2. p \in Requests(u) /\ p.type # "gone"
    BY <1>3, <2>1 DEF Requests
  <2> QED BY <1>1, <1>5, <2>1, <2>2, OneKeeps
<1> QED BY <1>2, <1>4, <1>5 DEF Answer

LEMMA DeleteStep ==
  ASSUME Types, Sessions, NEW u \in Users, NEW c \in Users, Delete(u, c)
  PROVE  Programs' /\ Wires' /\ Sessions'
<1>1. c \in Others(u)
  BY DEF Delete, Types, Programs, Others
<1>2. PICK both \in BOOLEAN, blacklist \in BOOLEAN : Ask(u, <<DeletePacket(c, both, blacklist)>>)
  BY DEF Delete
<1>3. PICK p : p = DeletePacket(c, both, blacklist)
  OBVIOUS
<1>4. p \in Requests(u) /\ p.type # "gone"
  BY <1>1, <1>3 DEF Requests, DeletePacket
<1>5. UNCHANGED <<online, clients, toClient>>
  BY DEF Delete
<1>6. Programs'
  BY <1>5 DEF Types, Programs, clients
<1> QED BY <1>2, <1>3, <1>4, <1>5, <1>6, OneKeeps DEF clients

\* A request to move a contact, with the move in the client.
LEMMA MoveKeeps ==
  ASSUME IMContactsAssumption, Types, Sessions, NEW u \in Users, NEW c \in Others(u),
         NEW old \in Groups, NEW g \in FriendGroups(mine[u]),
         Ask(u, <<MovePacket(c, old, g)>>),
         mine' = [mine EXCEPT ![u] = Moved(@, c, old, g)],
         seen' = [seen EXCEPT ![u][c] = g],
         UNCHANGED <<online, linked, toClient>>
  PROVE  /\ Wires' /\ Sessions' /\ mine' \in [Users -> GroupMaps]
         /\ seen' \in [Users -> [Users -> Groups \cup {NoGroup}]]
         /\ \A w \in Users : seen'[w][w] = NoGroup
<1>1. mine \in [Users -> GroupMaps] /\ mine[u] \in GroupMaps /\ c \in Users
  BY DEF Types, Programs, Others
<1>2. g \in Friends .. MaxGroup /\ g \in Groups
  BY <1>1, FriendGroupsFacts
<1>3. PICK p : p = MovePacket(c, old, g)
  OBVIOUS
<1>4. p \in Requests(u) /\ p.type # "gone"
  BY <1>2, <1>3 DEF Requests, MovePacket
<1>5. Wires' /\ Sessions'
  BY <1>3, <1>4, OneKeeps
<1>6. Moved(mine[u], c, old, g) \in GroupMaps
  BY <1>1, MovedType
<1>7. PICK m \in GroupMaps : m = Moved(mine[u], c, old, g)
  BY <1>6
<1>8. mine' = [mine EXCEPT ![u] = m]
  BY <1>7
<1> QED BY <1>2, <1>5, <1>8, MineFacts DEF Types

LEMMA MoveStep ==
  ASSUME IMContactsAssumption, Types, Sessions, NEW u \in Users, NEW c \in Users, Move(u, c)
  PROVE  Programs' /\ Wires' /\ Sessions'
<1>1. PICK g \in FriendGroups(mine[u]) :
        /\ Ask(u, <<MovePacket(c, seen[u][c], g)>>)
        /\ mine' = [mine EXCEPT ![u] = Moved(@, c, seen[u][c], g)]
        /\ seen' = [seen EXCEPT ![u][c] = g]
  BY DEF Move
<1>2. c \in Others(u) /\ seen[u][c] \in Groups
  BY DEF Move, IsFriend, Types, Programs, Others
<1>3. UNCHANGED <<online, linked, asked, added, toClient>>
  BY DEF Move
<1>4. PICK old \in Groups : old = seen[u][c]
  BY <1>2
<1>5. /\ Ask(u, <<MovePacket(c, old, g)>>)
      /\ mine' = [mine EXCEPT ![u] = Moved(@, c, old, g)]
  BY <1>1, <1>4
<1>6. /\ Wires' /\ Sessions' /\ mine' \in [Users -> GroupMaps]
      /\ seen' \in [Users -> [Users -> Groups \cup {NoGroup}]]
      /\ \A w \in Users : seen'[w][w] = NoGroup
  BY <1>1, <1>2, <1>3, <1>5, MoveKeeps
<1>7. Programs'
  BY <1>3, <1>6 DEF Types, Programs
<1> QED BY <1>6, <1>7

LEMMA SettleStep ==
  ASSUME IMContactsAssumption, Types, Sessions, NEW u \in Users, NEW c \in Users, Settle(u, c)
  PROVE  Programs' /\ Wires' /\ Sessions'
<1>1. /\ c \in added[u] /\ added' = [added EXCEPT ![u] = @ \ {c}]
      /\ UNCHANGED <<online, linked, asked, toClient>>
  BY DEF Settle
<1>2. /\ c \in Others(u) /\ mine[u] \in GroupMaps
      /\ added' \in [Users -> SUBSET Users] /\ \A w \in Users : w \notin added'[w]
  BY <1>1 DEF Types, Programs, Others
<1>3. GroupOf(mine[u], c) \in Groups
  BY <1>2, GroupOfType
<1>4. PICK old \in Groups : old = GroupOf(mine[u], c)
  BY <1>3
<1>5. PICK g \in FriendGroups(mine[u]) :
        \/ UNCHANGED <<mine, seen, toServer, asking>>
        \/ /\ Ask(u, <<MovePacket(c, old, g)>>)
           /\ mine' = [mine EXCEPT ![u] = Moved(@, c, old, g)]
           /\ seen' = [seen EXCEPT ![u][c] = g]
  BY <1>4 DEF Settle
<1>6. CASE UNCHANGED <<mine, seen, toServer, asking>>
  <2>1. Programs'
    BY <1>1, <1>2, <1>6 DEF Types, Programs
  <2> QED BY <1>1, <1>6, <2>1 DEF Types, Wires, Sessions
<1>7. CASE /\ Ask(u, <<MovePacket(c, old, g)>>)
           /\ mine' = [mine EXCEPT ![u] = Moved(@, c, old, g)]
           /\ seen' = [seen EXCEPT ![u][c] = g]
  <2>1. /\ Wires' /\ Sessions' /\ mine' \in [Users -> GroupMaps]
        /\ seen' \in [Users -> [Users -> Groups \cup {NoGroup}]]
        /\ \A w \in Users : seen'[w][w] = NoGroup
    BY <1>1, <1>2, <1>7, MoveKeeps
  <2>2. Programs'
    BY <1>1, <1>2, <2>1 DEF Types, Programs
  <2> QED BY <2>1, <2>2
<1> QED BY <1>5, <1>6, <1>7

LEMMA CreateGroupStep ==
  ASSUME Types, Sessions, NEW u \in Users, CreateGroup(u)
  PROVE  Programs' /\ Wires' /\ Sessions'
<1>1. PICK p : p = [type |-> "create"]
  OBVIOUS
<1>2. p \in Requests(u) /\ p.type # "gone"
  BY <1>1 DEF Requests
<1>3. Ask(u, <<p>>) /\ UNCHANGED <<online, clients, toClient>>
  BY <1>1 DEF CreateGroup
<1>4. Programs'
  BY <1>3 DEF Types, Programs, clients
<1> QED BY <1>2, <1>3, <1>4, OneKeeps DEF clients

LEMMA DeleteGroupStep ==
  ASSUME IMContactsAssumption, Types, Sessions, NEW u \in Users, DeleteGroup(u)
  PROVE  Programs' /\ Wires' /\ Sessions'
<1>1. PICK g \in FriendGroups(mine[u]) \ {Friends} : Ask(u, <<[type |-> "drop", group |-> g]>>)
  BY DEF DeleteGroup
<1>2. mine[u] \in GroupMaps
  BY DEF Types, Programs
<1>3. g \in Made
  BY <1>1, <1>2, FriendGroupsFacts
<1>4. PICK p : p = [type |-> "drop", group |-> g]
  OBVIOUS
<1>5. p \in Requests(u) /\ p.type # "gone"
  BY <1>3, <1>4 DEF Requests
<1>6. Ask(u, <<p>>) /\ UNCHANGED <<online, clients, toClient>>
  BY <1>1, <1>4 DEF DeleteGroup
<1>7. Programs'
  BY <1>6 DEF Types, Programs, clients
<1> QED BY <1>5, <1>6, <1>7, OneKeeps DEF clients

LEMMA RenameGroupStep ==
  ASSUME IMContactsAssumption, Types, Sessions, NEW u \in Users, RenameGroup(u)
  PROVE  Programs' /\ Wires' /\ Sessions'
<1>1. PICK g \in FriendGroups(mine[u]) \ {Friends} :
        /\ Ask(u, <<[type |-> "rename", group |-> g]>>)
        /\ mine' = [mine EXCEPT ![u] = Renamed(@, g)]
  BY DEF RenameGroup
<1>2. mine \in [Users -> GroupMaps] /\ mine[u] \in GroupMaps
  BY DEF Types, Programs
<1>3. g \in Made
  BY <1>1, <1>2, FriendGroupsFacts
<1>4. PICK p : p = [type |-> "rename", group |-> g]
  OBVIOUS
<1>5. p \in Requests(u) /\ p.type # "gone"
  BY <1>3, <1>4 DEF Requests
<1>6. Ask(u, <<p>>) /\ UNCHANGED <<online, linked, seen, asked, added, toClient>>
  BY <1>1, <1>4 DEF RenameGroup
<1>7. PICK m \in GroupMaps : mine' = [mine EXCEPT ![u] = m]
  BY <1>1, <1>2, WithoutGroupFacts DEF Renamed
<1>8. Programs'
  BY <1>6, <1>7 DEF Types, Programs
<1> QED BY <1>5, <1>6, <1>8, OneKeeps

LEMMA ReceiveRequestStep ==
  ASSUME Types, Sessions, NEW u \in Users, ReceiveRequest(u)
  PROVE  Programs' /\ Wires' /\ Sessions'
<1>1. /\ toClient[u] # <<>> /\ Head(toClient[u]).type = "request" /\ toClient' = Rest(u)
      /\ asked' = [asked EXCEPT ![u] = @ \cup {Head(toClient[u]).contact}]
      /\ UNCHANGED <<online, linked, mine, seen, added, toServer>>
  BY DEF ReceiveRequest, Received
<1>2. Head(toClient[u]).contact \in Others(u)
  BY <1>1, RestFacts, AnswerFacts DEF Types
<1>3. Programs'
  BY <1>1, <1>2 DEF Types, Programs, Others
<1> QED BY <1>1, <1>3, AnswerKeeps

LEMMA ReceiveAddedStep ==
  ASSUME IMContactsAssumption, Types, Sessions, NEW u \in Users, ReceiveAdded(u)
  PROVE  Programs' /\ Wires' /\ Sessions'
<1>1. /\ toClient[u] # <<>> /\ Head(toClient[u]).type = "added" /\ toClient' = Rest(u)
      /\ UNCHANGED <<online, linked, asked, toServer>>
  BY DEF ReceiveAdded, Received
<1>2. PICK e : e = Head(toClient[u])
  OBVIOUS
<1>3. e.contact \in Others(u)
  BY <1>1, <1>2, RestFacts, AnswerFacts DEF Types
<1>4. PICK c \in Others(u) : c = e.contact
  BY <1>3
<1>5. Friends \in Groups
  BY Numbers
<1>6. CASE ~e.ok
  <2>1. UNCHANGED <<mine, seen, added>>
    BY <1>2, <1>6 DEF ReceiveAdded
  <2>2. Programs'
    BY <1>1, <2>1 DEF Types, Programs
  <2> QED BY <1>1, <2>2, AnswerKeeps
<1>7. CASE e.ok
  <2>1. /\ mine' = mine \/ mine' = [mine EXCEPT ![u] = With(@, c, Friends)]
        /\ seen' = seen \/ seen' = [seen EXCEPT ![u][c] = Friends]
        /\ added' = [added EXCEPT ![u] = @ \cup {c}]
    BY <1>2, <1>4, <1>7 DEF ReceiveAdded
  <2>2. mine' \in [Users -> GroupMaps]
    <3>1. mine \in [Users -> GroupMaps] /\ mine[u] \in GroupMaps /\ c \in Users
      BY DEF Types, Programs, Others
    <3>2. With(mine[u], c, Friends) \in GroupMaps
      BY <3>1, WithType
    <3> QED BY <2>1, <3>1, <3>2
  <2>3. /\ seen' \in [Users -> [Users -> Groups \cup {NoGroup}]]
        /\ \A w \in Users : seen'[w][w] = NoGroup
    <3>1. CASE seen' = seen
      BY <3>1 DEF Types, Programs
    <3>2. CASE seen' = [seen EXCEPT ![u][c] = Friends]
      BY <1>5, <3>2 DEF Types, Programs, Others
    <3> QED BY <2>1, <3>1, <3>2
  <2>4. added' \in [Users -> SUBSET Users] /\ \A w \in Users : w \notin added'[w]
    BY <2>1 DEF Types, Programs, Others
  <2>5. Programs'
    BY <1>1, <2>2, <2>3, <2>4 DEF Types, Programs
  <2> QED BY <1>1, <2>5, AnswerKeeps
<1> QED BY <1>6, <1>7

LEMMA ReceiveRefusedStep ==
  ASSUME Types, Sessions, NEW u \in Users, ReceiveRefused(u)
  PROVE  Programs' /\ Wires' /\ Sessions'
<1>1. toClient[u] # <<>> /\ toClient' = Rest(u) /\ UNCHANGED <<online, clients, toServer>>
  BY DEF ReceiveRefused, Received
<1>2. Programs'
  BY <1>1 DEF Types, Programs, clients
<1> QED BY <1>1, <1>2, AnswerKeeps DEF clients

LEMMA ReceiveDeletedStep ==
  ASSUME IMContactsAssumption, Types, Sessions, NEW u \in Users, ReceiveDeleted(u)
  PROVE  Programs' /\ Wires' /\ Sessions'
<1>1. /\ toClient[u] # <<>> /\ Head(toClient[u]).type = "deleted" /\ toClient' = Rest(u)
      /\ UNCHANGED <<online, linked, asked, added, toServer>>
  BY DEF ReceiveDeleted, Received
<1>2. PICK c \in Others(u) : c = Head(toClient[u]).contact
  BY <1>1, RestFacts, AnswerFacts DEF Types
<1>3. PICK g \in Groups : g = Target(Head(toClient[u]))
  BY Numbers DEF Target
<1>4. PICK old : old = seen[u][c]
  OBVIOUS
<1>5. /\ mine' = [mine EXCEPT ![u] = Moved(@, c, old, g)]
      /\ seen' = [seen EXCEPT ![u][c] = g]
  BY <1>2, <1>3, <1>4 DEF ReceiveDeleted
<1>6. mine[u] \in GroupMaps /\ c \in Users
  BY DEF Types, Programs, Others
<1>7. PICK m \in GroupMaps : m = Moved(mine[u], c, old, g)
  BY <1>6, MovedType
<1>8. mine' = [mine EXCEPT ![u] = m]
  BY <1>5, <1>7
<1>9. /\ mine' \in [Users -> GroupMaps]
      /\ seen' \in [Users -> [Users -> Groups \cup {NoGroup}]]
      /\ \A w \in Users : seen'[w][w] = NoGroup
  BY <1>5, <1>8, MineFacts DEF Types
<1>10. Programs'
  BY <1>1, <1>9 DEF Types, Programs
<1> QED BY <1>1, <1>10, AnswerKeeps

LEMMA ReceiveGroupStep ==
  ASSUME IMContactsAssumption, Types, Sessions, NEW u \in Users, ReceiveGroup(u)
  PROVE  Programs' /\ Wires' /\ Sessions'
<1>1. /\ toClient[u] # <<>> /\ toClient' = Rest(u)
      /\ UNCHANGED <<online, linked, seen, asked, added, toServer>>
  BY DEF ReceiveGroup, Received
<1>2. PICK e : e = Head(toClient[u])
  OBVIOUS
<1>3. e.type = "created" => e.group \in Groups
  BY <1>1, <1>2, RestFacts, AnswerFacts DEF Types
<1>4. mine \in [Users -> GroupMaps] /\ mine[u] \in GroupMaps
  BY DEF Types, Programs
<1>5. PICK m : m = IF ~e.ok THEN mine[u]
                   ELSE IF e.type = "created" THEN WithGroup(mine[u], e.group)
                   ELSE WithoutGroup(mine[u], e.group)
  OBVIOUS
<1>6. m \in GroupMaps
  BY <1>3, <1>4, <1>5, WithGroupFacts, WithoutGroupFacts
<1>7. mine' = [mine EXCEPT ![u] = m]
  BY <1>2, <1>5 DEF ReceiveGroup
<1>8. Programs'
  BY <1>1, <1>4, <1>6, <1>7 DEF Types, Programs
<1> QED BY <1>1, <1>8, AnswerKeeps

LEMMA LeaveStep ==
  ASSUME Types, Sessions, NEW u \in Users, Leave(u)
  PROVE  Programs' /\ Wires' /\ Sessions'
<1>1. linked[u] /\ Ends(u, toServer[u]) /\ UNCHANGED <<online, mine, seen>>
  BY DEF Leave
<1>2. toServer[u] \in Seq(Requests(u)) /\ ~GoneIn(toServer[u])
  BY <1>1 DEF Types, Wires, Sessions
<1>3. \A i \in 1 .. Len(toServer[u]) : toServer[u][i].type # "gone"
  BY <1>2 DEF GoneIn
<1> QED BY <1>1, <1>2, <1>3, EndKeeps

LEMMA DieOfMoveStep ==
  ASSUME IMContactsAssumption, Types, Sessions, NEW u \in Users, DieOfMove(u)
  PROVE  Programs' /\ Wires' /\ Sessions'
<1>1. linked[u] /\ UNCHANGED <<online, mine, seen>>
  BY DEF DieOfMove
<1>2. PICK q : q = toServer[u]
  OBVIOUS
<1>3. q \in Seq(Requests(u)) /\ \A i \in 1 .. Len(q) : q[i].type # "gone"
  BY <1>1, <1>2 DEF Types, Wires, Sessions, GoneIn
<1>4. CASE Ends(u, q)
  BY <1>1, <1>3, <1>4, EndKeeps
<1>5. ASSUME NEW c \in Users, NEW g \in FriendGroups(mine[u]), IsFriend(u, c),
             Ends(u, Append(q, MovePacket(c, seen[u][c], g)))
      PROVE  Programs' /\ Wires' /\ Sessions'
  <2>1. c \in Others(u) /\ seen[u][c] \in Groups /\ mine[u] \in GroupMaps
    BY <1>5 DEF IsFriend, Types, Programs, Others
  <2>2. g \in Friends .. MaxGroup
    BY <2>1, FriendGroupsFacts
  <2>3. PICK p : p = MovePacket(c, seen[u][c], g)
    OBVIOUS
  <2>4. p \in Requests(u) /\ p.type # "gone"
    BY <2>1, <2>2, <2>3 DEF Requests, MovePacket
  <2>5. PICK r : r = Append(q, p)
    OBVIOUS
  <2>6. /\ r \in Seq(Requests(u)) /\ Len(q) \in Nat /\ Len(r) = Len(q) + 1 /\ r[Len(q) + 1] = p
        /\ \A i \in 1 .. Len(q) : r[i] = q[i]
    BY <1>3, <2>4, <2>5, AppendFacts
  <2>7. \A i \in 1 .. Len(r) : i \in 1 .. Len(q) \/ i = Len(q) + 1
    BY <2>6
  <2>8. \A i \in 1 .. Len(r) : r[i].type # "gone"
    BY <1>3, <2>4, <2>6, <2>7
  <2>9. Ends(u, r)
    BY <1>5, <2>3, <2>5
  <2> QED BY <1>1, <2>6, <2>8, <2>9, EndKeeps
<1> QED BY <1>2, <1>4, <1>5 DEF DieOfMove

\* What a client does is no matter of the server's and the database's.
ClientStep(u) ==
  \/ Receive(u) \/ Leave(u) \/ DieOfMove(u)
  \/ CreateGroup(u) \/ DeleteGroup(u) \/ RenameGroup(u)
  \/ \E c \in Users : Add(u, c) \/ Answer(u, c) \/ Delete(u, c) \/ Move(u, c) \/ Settle(u, c)

LEMMA ClientKeeps ==
  ASSUME NEW u \in Users, ClientStep(u)
  PROVE  UNCHANGED <<database, online, memory, left, fallen, waiting, renamed>>
BY DEF ClientStep, Receive, ReceiveRequest, ReceiveAdded, ReceiveRefused, ReceiveDeleted,
       ReceiveGroup, Leave, DieOfMove, CreateGroup, DeleteGroup, RenameGroup, Add, Answer,
       Delete, Move, Settle, history

LEMMA ClientStepKeeps ==
  ASSUME IMContactsAssumption, IInv, NEW u \in Users, ClientStep(u)
  PROVE  IInv'
<1>1. Types /\ Sessions
  BY DEF IInv
<1>2. Programs' /\ Wires' /\ Sessions'
  BY <1>1, AddStep, AnswerStep, DeleteStep, MoveStep, SettleStep, CreateGroupStep,
     DeleteGroupStep, RenameGroupStep, ReceiveRequestStep, ReceiveAddedStep,
     ReceiveRefusedStep, ReceiveDeletedStep, ReceiveGroupStep, LeaveStep, DieOfMoveStep
     DEF ClientStep, Receive
<1>3. UNCHANGED <<groups, row, apply, online, memory, left, fallen, waiting, renamed>>
  BY ClientKeeps DEF database
<1>4. Stores' /\ Memories' /\ Histories'
  BY <1>1, <1>3 DEF Types, Stores, Memories, Histories
<1>5. Singles' /\ Matches' /\ FriendshipIsMutual' /\ Waits'
  BY <1>3 DEF IInv, Singles, Matches, InMadeGroups, InFriends, InMemory, FriendshipIsMutual,
              Waits
<1> QED BY <1>2, <1>4, <1>5 DEF IInv, Types

-----------------------------------------------------------------------------
(* The server                                                              *)

LEMMA TakenKeeps ==
  ASSUME Types, Sessions, NEW u \in Users, toServer[u] # <<>>, toServer' = Taken(u),
         Answered(toClient'), UNCHANGED <<online, linked>>
  PROVE  Wires' /\ Sessions'
<1>1. /\ Taken(u) = [w \in Users |-> Taken(u)[w]]
      /\ \A w \in Users : Taken(u)[w] \in Seq(Requests(w))
      /\ \A w \in Users : w # u => Taken(u)[w] = toServer[w]
      /\ Taken(u)[u] = Tail(toServer[u])
  BY TakenFacts DEF Types
<1>2. Wires'
  BY <1>1 DEF Answered, Wires
<1>3. PICK q : q = toServer[u]
  OBVIOUS
<1>4. PICK r : r = toServer'[u]
  OBVIOUS
<1>5. /\ q \in Seq(Requests(u)) /\ q # <<>> /\ r = Tail(q)
      /\ GoneLast(q) /\ online[u] /\ (linked[u] => ~GoneIn(q))
  BY <1>1, <1>3, <1>4 DEF Types, Wires, Sessions
<1>6. /\ Len(q) \in Nat \ {0} /\ Len(r) = Len(q) - 1
      /\ \A i \in 1 .. Len(r) : i + 1 \in 1 .. Len(q) /\ r[i] = q[i + 1]
  BY <1>5, TailFacts
<1>7. GoneLast(r) /\ (linked[u] => ~GoneIn(r))
  <2>1. ASSUME NEW i \in 1 .. Len(r), r[i].type = "gone" PROVE i = Len(r) /\ GoneIn(q)
    <3>1. i + 1 \in 1 .. Len(q) /\ q[i + 1].type = "gone"
      BY <1>6, <2>1
    <3>2. i + 1 = Len(q)
      BY <1>5, <3>1 DEF GoneLast
    <3> QED BY <1>6, <3>1, <3>2 DEF GoneIn
  <2> QED BY <1>5, <2>1 DEF GoneLast, GoneIn
<1> QED BY <1>1, <1>2, <1>4, <1>5, <1>7 DEF Sessions

LEMMA HeadFacts ==
  ASSUME Types, NEW u \in Users, toServer[u] # <<>>
  PROVE  Head(toServer[u]) \in Requests(u)
BY TakenFacts DEF Types

\* What a handler leaves alone stays as it was.
LEMMA ServerKeeps ==
  ASSUME IInv, UNCHANGED <<groups, row, memory, online, left, fallen, renamed>>
  PROVE  Memories' /\ Singles' /\ Matches' /\ FriendshipIsMutual'
<1>1. Memories'
  BY DEF IInv, Types, Memories
<1> QED BY <1>1 DEF IInv, Singles, Matches, InMadeGroups, InFriends, InMemory, FriendshipIsMutual

LEMMA InsertedFacts ==
  ASSUME NEW r \in [Users -> [Users -> Groups \cup {NoGroup}]], NEW a \in Users, NEW b \in Users,
         NEW g \in Groups, g \in groups[a]
  PROVE  /\ Inserted(r, a, b, g) \in [Users -> [Users -> Groups \cup {NoGroup}]]
         /\ \A v, w \in Users : Inserted(r, a, b, g)[v][w] =
              IF v = a /\ w = b /\ r[v][w] = NoGroup THEN g ELSE r[v][w]
<1>1. CASE r[a][b] = NoGroup
  <2>1. PICK s : s = Inserted(r, a, b, g)
    OBVIOUS
  <2>2. s = [r EXCEPT ![a][b] = g]
    BY <1>1, <2>1 DEF Inserted, CanAdd
  <2> QED BY <1>1, <2>1, <2>2
<1>2. CASE r[a][b] # NoGroup
  BY <1>2 DEF Inserted, CanAdd
<1> QED BY <1>1, <1>2

Between(u, c, a, b) == (a = u /\ b = c) \/ (a = c /\ b = u)

\* Both have a row afterwards; in memory each is a friend of the other, or stays where he is.
LEMMA AddedFacts ==
  ASSUME IMContactsAssumption, Types, Singles, NEW u \in Users, NEW c \in Others(u),
         AddContactForUser(u, c, Friends)
  PROVE  /\ row' \in [Users -> [Users -> Groups \cup {NoGroup}]]
         /\ \A a, b \in Users : row'[a][b] =
              IF Between(u, c, a, b) /\ row[a][b] = NoGroup THEN Friends ELSE row[a][b]
         /\ memory' \in [Users -> GroupMaps]
         /\ \A a \in Users : DOMAIN memory'[a] = DOMAIN memory[a]
         /\ \A a, b \in Users : ~Between(u, c, a, b) =>
              \A g \in DOMAIN memory[a] : b \in memory'[a][g] <=> b \in memory[a][g]
         /\ \A a, b \in Users : Between(u, c, a, b) =>
              \/ /\ row[a][b] # NoGroup
                 /\ \A g \in DOMAIN memory[a] : b \in memory'[a][g] <=> b \in memory[a][g]
              \/ /\ b \in memory'[a][Friends]
                 /\ \A g \in DOMAIN memory[a] : b \in memory'[a][g] => g = Friends
         /\ Answered(toClient')
         /\ \A a, b \in Users : ~Between(u, c, a, b) =>
              (<<a, b>> \in left' <=> <<a, b>> \in left) /\
              (<<a, b>> \in fallen' <=> <<a, b>> \in fallen)
<1>1. /\ c \in Users /\ u # c /\ u \in Others(c) /\ Friends \in Groups
      /\ Friends \in groups[u] /\ Friends \in groups[c]
      /\ row \in [Users -> [Users -> Groups \cup {NoGroup}]]
      /\ memory \in [Users -> GroupMaps]
      /\ \A a \in Users : Friends \in DOMAIN memory[a]
  BY Numbers DEF Others, Types, Stores, Memories
<1>2. /\ row' \in [Users -> [Users -> Groups \cup {NoGroup}]]
      /\ \A a, b \in Users : row'[a][b] =
           IF Between(u, c, a, b) /\ row[a][b] = NoGroup THEN Friends ELSE row[a][b]
  <2>1. PICK r : r = Inserted(row, u, c, Friends)
    OBVIOUS
  <2>2. /\ r \in [Users -> [Users -> Groups \cup {NoGroup}]]
        /\ \A v, w \in Users : r[v][w] =
             IF v = u /\ w = c /\ row[v][w] = NoGroup THEN Friends ELSE row[v][w]
    BY <1>1, <2>1, InsertedFacts
  <2>3. PICK s : s = Inserted(r, c, u, Friends)
    OBVIOUS
  <2>4. /\ s \in [Users -> [Users -> Groups \cup {NoGroup}]]
        /\ \A v, w \in Users : s[v][w] =
             IF v = c /\ w = u /\ r[v][w] = NoGroup THEN Friends ELSE r[v][w]
      <3>1. /\ c \in Users /\ Friends \in Groups /\ Friends \in groups[c]
            /\ r \in [Users -> [Users -> Groups \cup {NoGroup}]]
        BY <1>1, <2>2
      <3> QED BY <2>3, <3>1, InsertedFacts
  <2>5. row' = s
    BY <2>1, <2>3 DEF AddContactForUser
  <2> QED BY <1>1, <2>2, <2>4, <2>5 DEF Between
<1>3. PICK mu : mu = IF row[u][c] = NoGroup THEN With(memory[u], c, Friends) ELSE memory[u]
  OBVIOUS
<1>4. PICK mc : mc = With(memory[c], u, Friends)
  OBVIOUS
<1>5. memory' = [memory EXCEPT ![u] = mu, ![c] = mc]
  BY <1>1, <1>3, <1>4 DEF AddContactForUser, CanAdd
<1>6. Single(memory[u], c) /\ Single(memory[c], u)
  BY <1>1 DEF Singles
<1>7. /\ mc \in GroupMaps /\ DOMAIN mc = DOMAIN memory[c] /\ u \in mc[Friends]
      /\ \A g \in DOMAIN memory[c] : u \in mc[g] => g = Friends
      /\ \A g \in DOMAIN memory[c] : \A b \in Users : b # u => (b \in mc[g] <=> b \in memory[c][g])
  BY <1>1, <1>4, <1>6, WithFacts
<1>8. /\ mu \in GroupMaps /\ DOMAIN mu = DOMAIN memory[u]
      /\ \A g \in DOMAIN memory[u] : \A b \in Users : b # c => (b \in mu[g] <=> b \in memory[u][g])
      /\ \/ row[u][c] # NoGroup /\ mu = memory[u]
         \/ c \in mu[Friends] /\ \A g \in DOMAIN memory[u] : c \in mu[g] => g = Friends
  BY <1>1, <1>3, <1>6, WithFacts
<1>9. /\ memory' \in [Users -> GroupMaps]
      /\ \A a \in Users : memory'[a] = IF a = c THEN mc ELSE IF a = u THEN mu ELSE memory[a]
  BY <1>1, <1>5, <1>7, <1>8
<1>10. Answered(toClient')
  <2>1. PICK p : p = Result(c, Friends, CanAdd(row, u, c, Friends))
    OBVIOUS
  <2>2. PICK q : q = Result(u, Friends, TRUE)
    OBVIOUS
  <2>3. p \in Answers(u) /\ q \in Answers(c)
    BY <1>1, <2>1, <2>2 DEF Answers, Result, CanAdd
  <2>4. Answered(toClient)
    BY DEF Types, Wires, Answered
  <2>5. Answered(Sent(toClient, u, p))
    BY <2>3, <2>4, SentFacts
  <2>6. PICK told : told = Sent(toClient, u, p)
    OBVIOUS
  <2>7. Answered(told) /\ Answered(Sent(told, c, q))
    BY <1>1, <2>3, <2>5, <2>6, SentFacts
  <2>8. toClient' = IF online[c] THEN Sent(told, c, q) ELSE told
    BY <2>1, <2>2, <2>6 DEF AddContactForUser
  <2> QED BY <2>7, <2>8
<1>11. /\ left' = left \ {<<u, c>>, <<c, u>>} /\ fallen' = fallen \ {<<u, c>>, <<c, u>>}
  BY DEF AddContactForUser
<1>12. \A a, b \in Users : ~Between(u, c, a, b) =>
         \A g \in DOMAIN memory[a] : b \in memory'[a][g] <=> b \in memory[a][g]
  BY <1>1, <1>7, <1>8, <1>9 DEF Between
<1>13. \A a, b \in Users : Between(u, c, a, b) =>
         \/ /\ row[a][b] # NoGroup
            /\ \A g \in DOMAIN memory[a] : b \in memory'[a][g] <=> b \in memory[a][g]
         \/ /\ b \in memory'[a][Friends]
            /\ \A g \in DOMAIN memory[a] : b \in memory'[a][g] => g = Friends
  BY <1>1, <1>7, <1>8, <1>9 DEF Between
<1>14. \A a, b \in Users : ~Between(u, c, a, b) =>
         (<<a, b>> \in left' <=> <<a, b>> \in left) /\
         (<<a, b>> \in fallen' <=> <<a, b>> \in fallen)
  BY <1>11 DEF Between
<1>15. \A a \in Users : DOMAIN memory'[a] = DOMAIN memory[a]
  BY <1>7, <1>8, <1>9
<1> QED BY <1>2, <1>9, <1>10, <1>12, <1>13, <1>14, <1>15

RowTypes ==
  /\ row \in [Users -> [Users -> Groups \cup {NoGroup}]]
  /\ \A u \in Users : row[u][u] = NoGroup
  /\ \A u, c \in Users : row[u][c] # NoGroup => row[u][c] \in groups[u]

LEMMA AddedKeeps ==
  ASSUME IMContactsAssumption, IInv, NEW u \in Users, NEW c \in Others(u),
         AddContactForUser(u, c, Friends), UNCHANGED <<groups, online, renamed>>
  PROVE  RowTypes' /\ Memories' /\ Singles' /\ Matches' /\ FriendshipIsMutual'
<1>1. /\ row' \in [Users -> [Users -> Groups \cup {NoGroup}]]
      /\ \A a, b \in Users : row'[a][b] =
           IF Between(u, c, a, b) /\ row[a][b] = NoGroup THEN Friends ELSE row[a][b]
      /\ memory' \in [Users -> GroupMaps]
      /\ \A a \in Users : DOMAIN memory'[a] = DOMAIN memory[a]
      /\ \A a, b \in Users : ~Between(u, c, a, b) =>
           \A g \in DOMAIN memory[a] : b \in memory'[a][g] <=> b \in memory[a][g]
      /\ \A a, b \in Users : Between(u, c, a, b) =>
           \/ /\ row[a][b] # NoGroup
              /\ \A g \in DOMAIN memory[a] : b \in memory'[a][g] <=> b \in memory[a][g]
           \/ /\ b \in memory'[a][Friends]
              /\ \A g \in DOMAIN memory[a] : b \in memory'[a][g] => g = Friends
      /\ \A a, b \in Users : ~Between(u, c, a, b) =>
           (<<a, b>> \in left' <=> <<a, b>> \in left) /\
           (<<a, b>> \in fallen' <=> <<a, b>> \in fallen)
  BY AddedFacts DEF IInv, Types
<1>2. /\ c \in Users /\ u # c /\ Friends # NoGroup
      /\ Friends \in DOMAIN DefaultGroups
      /\ \A a \in Users : Friends \in groups[a] /\ DOMAIN DefaultGroups \subseteq DOMAIN memory[a]
      /\ \A a \in Users : row[a][a] = NoGroup
      /\ \A a, b \in Users : row[a][b] # NoGroup => row[a][b] \in groups[a]
  BY Numbers DEF Others, IInv, Types, Stores, Memories
<1>3. \A a \in Users : ~Between(u, c, a, a)
  BY <1>2 DEF Between
<1>4. RowTypes'
  <2>1. \A a \in Users : row'[a][a] = NoGroup
    BY <1>1, <1>2, <1>3
  <2>2. \A a, b \in Users : row'[a][b] # NoGroup => row'[a][b] \in groups'[a]
    BY <1>1, <1>2
  <2> QED BY <1>1, <2>1, <2>2 DEF RowTypes
<1>5. Memories'
  BY <1>1, <1>2 DEF IInv, Types, Memories
<1>6. Singles'
  <2>1. ASSUME NEW a \in Users, NEW b \in Users PROVE Single(memory'[a], b)
    <3>1. Single(memory[a], b)
      BY DEF IInv, Singles
    <3> QED BY <1>1, <3>1 DEF Single
  <2> QED BY <2>1 DEF Singles
<1>7. ASSUME NEW a \in Users, online[a]
      PROVE  InMadeGroups(a)' /\ InFriends(a)' /\ InMemory(a)'
  <2>1. InMadeGroups(a) /\ InFriends(a) /\ InMemory(a)
    BY <1>7 DEF IInv, Matches
  <2>2. ASSUME NEW g \in DOMAIN memory'[a] \ DOMAIN DefaultGroups, NEW b \in memory'[a][g]
        PROVE  row'[a][b] \in {g, NoGroup}
    <3>1. b \in Users /\ g \in DOMAIN memory[a] \ DOMAIN DefaultGroups
      BY <1>1, <2>2, MapFacts
    <3>2. b \in memory[a][g] /\ (Between(u, c, a, b) => row[a][b] # NoGroup)
      BY <1>1, <1>2, <2>2, <3>1
    <3>3. row[a][b] \in {g, NoGroup}
      BY <2>1, <3>1, <3>2 DEF InMadeGroups
    <3> QED BY <1>1, <3>1, <3>2, <3>3
  <2>3. ASSUME NEW b \in Users, HasFriend(memory'[a], b)
        PROVE  row'[a][b] # NoGroup \/ <<a, b>> \in fallen'
    <3>1. CASE Between(u, c, a, b)
      BY <1>1, <1>2, <3>1
    <3>2. CASE ~Between(u, c, a, b)
      <4>1. HasFriend(memory[a], b)
        BY <1>1, <2>3, <3>2 DEF HasFriend, FriendGroups
      <4> QED BY <1>1, <2>1, <3>2, <4>1 DEF InFriends
    <3> QED BY <3>1, <3>2
  <2>4. ASSUME NEW b \in Users, row'[a][b] # NoGroup
        PROVE  (\E g \in DOMAIN memory'[a] : b \in memory'[a][g]) \/ row'[a][b] \in renamed'[a]
    <3>1. CASE Between(u, c, a, b) /\ b \in memory'[a][Friends]
      BY <1>1, <1>2, <3>1
    <3>2. CASE ~(Between(u, c, a, b) /\ b \in memory'[a][Friends])
      <4>1. row'[a][b] = row[a][b] /\ row[a][b] # NoGroup
        BY <1>1, <2>4, <3>2
      <4>2. (\E g \in DOMAIN memory[a] : b \in memory[a][g]) \/ row[a][b] \in renamed[a]
        BY <2>1, <4>1 DEF InMemory
      <4>3. \A g \in DOMAIN memory[a] : b \in memory'[a][g] <=> b \in memory[a][g]
        BY <1>1, <3>2
      <4> QED BY <1>1, <4>1, <4>2, <4>3
    <3> QED BY <3>1, <3>2
  <2> QED BY <2>2, <2>3, <2>4 DEF InMadeGroups, InFriends, InMemory
<1>8. Matches'
  BY <1>7 DEF Matches
<1>9. FriendshipIsMutual'
  <2>1. ASSUME NEW a \in Users, NEW b \in Users, row'[a][b] # NoGroup, row'[b][a] = NoGroup
        PROVE  <<b, a>> \in left' \cup fallen'
    <3>1. ~Between(u, c, a, b) /\ ~Between(u, c, b, a)
      BY <1>1, <1>2, <2>1 DEF Between
    <3>2. <<b, a>> \in left \cup fallen
      BY <1>1, <2>1, <3>1 DEF IInv, FriendshipIsMutual
    <3> QED BY <1>1, <3>1, <3>2
  <2> QED BY <2>1 DEF FriendshipIsMutual
<1> QED BY <1>4, <1>5, <1>6, <1>8, <1>9

LEMMA SavedFacts ==
  ASSUME NEW a \in Users, NEW b \in Users, NEW new \in Applications, a # b,
         NEW t \in [Users -> [Users -> Applications]], \A v \in Users : t[v][v] = NoApply
  PROVE  /\ SavedApply(t, a, b, new) \in [Users -> [Users -> Applications]]
         /\ \A v \in Users : SavedApply(t, a, b, new)[v][v] = NoApply
         /\ \A v, w \in Users : SavedApply(t, a, b, new)[v][w] =
              IF v = a /\ w = b /\ t[v][w] = NoApply THEN new ELSE t[v][w]
<1>1. CASE t[a][b] = NoApply
  <2>1. PICK s : s = SavedApply(t, a, b, new)
    OBVIOUS
  <2>2. s = [t EXCEPT ![a][b] = new]
    BY <1>1, <2>1 DEF SavedApply
  <2> QED BY <1>1, <2>1, <2>2
<1>2. CASE t[a][b] # NoApply
  BY <1>2 DEF SavedApply
<1> QED BY <1>1, <1>2

LEMMA AppliedFacts ==
  ASSUME NEW result \in {"unknown", "accepted", "denied"}, NEW sr \in BOOLEAN, NEW rr \in BOOLEAN
  PROVE  /\ Applied(result, sr, rr) \in Applications /\ Applied(result, sr, rr) # NoApply
         /\ Applied(result, sr, rr).result = result /\ Applied(result, sr, rr).receiverRead = rr
         /\ NoApply.result = "none" /\ NoApply \in Applications
BY DEF Applied, Applications, NoApply

ApplyTypes ==
  /\ apply \in [Users -> [Users -> Applications]]
  /\ \A u \in Users : apply[u][u] = NoApply

LEMMA AddedApplyFacts ==
  ASSUME Types, NEW u \in Users, NEW c \in Others(u)
  PROVE  /\ AddedApply(u, c) \in [Users -> [Users -> Applications]]
         /\ \A v \in Users : AddedApply(u, c)[v][v] = NoApply
         /\ \A v, w \in Users : apply[v][w] # NoApply => AddedApply(u, c)[v][w] = apply[v][w]
<1>1. /\ apply \in [Users -> [Users -> Applications]]
      /\ \A v \in Users : apply[v][v] = NoApply
      /\ c \in Users /\ c # u
  BY DEF Types, Stores, Others
<1>2. CASE online[c]
  BY <1>1, <1>2 DEF AddedApply
<1>3. CASE ~online[c]
  <2>1. PICK new : new = Applied("accepted", FALSE, TRUE)
    OBVIOUS
  <2>2. new \in Applications
    BY <2>1, AppliedFacts
  <2>3. PICK s : s = SavedApply(apply, c, u, new)
    OBVIOUS
  <2>4. /\ s \in [Users -> [Users -> Applications]]
        /\ \A v \in Users : s[v][v] = NoApply
        /\ \A v, w \in Users : apply[v][w] # NoApply => s[v][w] = apply[v][w]
    BY <1>1, <2>2, <2>3, SavedFacts
  <2>5. AddedApply(u, c) = s
    BY <1>3, <2>1, <2>3 DEF AddedApply
  <2> QED BY <2>4, <2>5
<1> QED BY <1>2, <1>3

LEMMA HandleAddStep ==
  ASSUME IMContactsAssumption, IInv, NEW u \in Users, HandleAdd(u)
  PROVE  IInv'
<1>1. /\ toServer[u] # <<>> /\ Head(toServer[u]).type = "add" /\ toServer' = Taken(u)
      /\ UNCHANGED <<groups, online, clients, renamed>>
  BY DEF HandleAdd
<1>2. Types /\ Sessions /\ Singles
  BY DEF IInv
<1>3. PICK c \in Others(u) : c = Head(toServer[u]).contact
  BY <1>1, <1>2, HeadFacts, RequestFacts
<1>4. /\ c \in Users /\ c # u /\ UNCHANGED <<linked, mine, seen, asked, added>>
      /\ apply \in [Users -> [Users -> Applications]] /\ \A v \in Users : apply[v][v] = NoApply
      /\ \A a, b \in Users : <<a, b>> \in waiting =>
           ~online[b] /\ apply[a][b].result = "unknown" /\ ~apply[a][b].receiverRead
      /\ waiting \subseteq Users \X Users /\ renamed \in [Users -> SUBSET Groups]
      /\ Answered(toClient)
  BY <1>1, <1>3 DEF Others, IInv, Types, Stores, Histories, Waits, Wires, Answered, clients
<1>5. Programs' /\ renamed' \in [Users -> SUBSET Groups]
  BY <1>1, <1>4 DEF IInv, Types, Programs
<1>6. ASSUME RowTypes', ApplyTypes', Memories', Singles', Matches', FriendshipIsMutual',
             Answered(toClient'), waiting' \subseteq Users \X Users, Waits'
      PROVE  IInv'
  <2>1. Stores'
    BY <1>1, <1>6 DEF IInv, Types, Stores, RowTypes, ApplyTypes
  <2>2. Wires' /\ Sessions'
    BY <1>1, <1>2, <1>4, <1>6, TakenKeeps
  <2> QED BY <1>5, <1>6, <2>1, <2>2 DEF IInv, Types, Histories
<1>7. ASSUME UNCHANGED <<row, memory, left, fallen>>
      PROVE  RowTypes' /\ Memories' /\ Singles' /\ Matches' /\ FriendshipIsMutual'
  <2>1. RowTypes'
    BY <1>1, <1>7 DEF IInv, Types, Stores, RowTypes
  <2> QED BY <1>1, <1>7, <2>1, ServerKeeps
<1>8. CASE UNCHANGED <<row, apply, memory, toClient, left, fallen, waiting>>
  <2>1. ApplyTypes' /\ Waits'
    BY <1>1, <1>4, <1>8 DEF ApplyTypes, Waits
  <2> QED BY <1>4, <1>6, <1>7, <1>8, <2>1
<1>9. CASE /\ AddContactForUser(u, c, Friends) /\ apply' = AddedApply(u, c) /\ UNCHANGED waiting
  <2>1. RowTypes' /\ Memories' /\ Singles' /\ Matches' /\ FriendshipIsMutual'
    BY <1>1, <1>9, AddedKeeps
  <2>2. Answered(toClient')
    BY <1>2, <1>9, AddedFacts
  <2>3. /\ AddedApply(u, c) \in [Users -> [Users -> Applications]]
        /\ \A v \in Users : AddedApply(u, c)[v][v] = NoApply
        /\ \A v, w \in Users : apply[v][w] # NoApply => AddedApply(u, c)[v][w] = apply[v][w]
    BY <1>2, AddedApplyFacts
  <2>4. ApplyTypes'
    BY <1>9, <2>3 DEF ApplyTypes
  <2>5. \A a, b \in Users : <<a, b>> \in waiting => apply'[a][b] = apply[a][b]
    BY <1>4, <1>9, <2>3, AppliedFacts
  <2>6. Waits'
    BY <1>1, <1>4, <1>9, <2>5 DEF Waits
  <2> QED BY <1>4, <1>6, <1>9, <2>1, <2>2, <2>4, <2>6
<1>10. CASE /\ ~online[c] /\ apply' = SavedApply(apply, u, c, Applied("unknown", FALSE, FALSE))
            /\ waiting' = IF apply[u][c] = NoApply THEN waiting \cup {<<u, c>>} ELSE waiting
            /\ UNCHANGED <<row, memory, toClient, left, fallen>>
  <2>1. PICK new : new = Applied("unknown", FALSE, FALSE)
    OBVIOUS
  <2>2. /\ new \in Applications /\ new.result = "unknown" /\ new.receiverRead = FALSE
        /\ NoApply.result = "none"
    BY <2>1, AppliedFacts
  <2>3. PICK s : s = SavedApply(apply, u, c, new)
    OBVIOUS
  <2>4. /\ s \in [Users -> [Users -> Applications]]
        /\ \A v \in Users : s[v][v] = NoApply
        /\ \A v, w \in Users :
             s[v][w] = IF v = u /\ w = c /\ apply[v][w] = NoApply THEN new ELSE apply[v][w]
    <3>1. /\ u # c /\ c \in Users /\ new \in Applications
          /\ apply \in [Users -> [Users -> Applications]] /\ \A v \in Users : apply[v][v] = NoApply
      BY <1>4, <2>2
    <3> QED BY <2>3, <3>1, SavedFacts
  <2>5. apply' = s
    BY <1>10, <2>1, <2>3
  <2>6. ApplyTypes'
    BY <2>4, <2>5 DEF ApplyTypes
  <2>7. Waits'
    <3>1. ASSUME NEW a \in Users, NEW b \in Users, <<a, b>> \in waiting'
          PROVE  ~online[b] /\ s[a][b].result = "unknown" /\ ~s[a][b].receiverRead
      <4>1. CASE <<a, b>> \in waiting
        BY <1>4, <2>2, <2>4, <4>1
      <4>2. CASE <<a, b>> \notin waiting
        <5>1. a = u /\ b = c /\ apply[u][c] = NoApply
          BY <1>10, <3>1, <4>2
        <5> QED BY <1>10, <2>2, <2>4, <5>1
      <4> QED BY <4>1, <4>2
    <3> QED BY <1>1, <2>5, <3>1 DEF Waits
  <2>8. waiting' \subseteq Users \X Users
    BY <1>4, <1>10
  <2> QED BY <1>4, <1>6, <1>7, <1>10, <2>6, <2>7, <2>8
<1>11. CASE /\ toClient' = Sent(toClient, c, [type |-> "request", contact |-> u])
            /\ UNCHANGED <<row, apply, memory, left, fallen, waiting>>
  <2>1. PICK p : p = [type |-> "request", contact |-> u]
    OBVIOUS
  <2>2. p \in Answers(c)
    BY <1>4, <2>1 DEF Answers, Others
  <2>3. Answered(toClient')
    BY <1>4, <1>11, <2>1, <2>2, SentFacts
  <2>4. ApplyTypes' /\ Waits'
    BY <1>1, <1>4, <1>11 DEF ApplyTypes, Waits
  <2> QED BY <1>4, <1>6, <1>7, <1>11, <2>3, <2>4
<1> QED BY <1>3, <1>8, <1>9, <1>10, <1>11 DEF HandleAdd

GroupTypes ==
  /\ groups \in [Users -> SUBSET Groups]
  /\ \A u \in Users : Friends \in groups[u]

\* What is to be shown of a handler that the server goes on after.
LEMMA HandlerKeeps ==
  ASSUME IInv, NEW u \in Users, toServer[u] # <<>>, toServer' = Taken(u),
         UNCHANGED <<online, clients>>,
         GroupTypes', RowTypes', ApplyTypes', Memories', Singles', Matches',
         FriendshipIsMutual', Answered(toClient'), Histories', Waits'
  PROVE  IInv'
<1>1. Types /\ Sessions /\ UNCHANGED <<online, linked, mine, seen, asked, added>>
  BY DEF IInv, clients
<1>2. Programs'
  BY <1>1 DEF Types, Programs
<1>3. Wires' /\ Sessions'
  BY <1>1, TakenKeeps
<1>4. Stores'
  BY DEF Stores, GroupTypes, RowTypes, ApplyTypes
<1> QED BY <1>2, <1>3, <1>4 DEF IInv, Types

LEMMA SameStores ==
  ASSUME Types
  PROVE  /\ UNCHANGED groups => GroupTypes'
         /\ UNCHANGED <<groups, row>> => RowTypes'
         /\ UNCHANGED apply => ApplyTypes'
         /\ UNCHANGED <<waiting, renamed>> => Histories'
         /\ UNCHANGED toClient => Answered(toClient')
BY DEF Types, Stores, GroupTypes, RowTypes, ApplyTypes, Histories, Wires, Answered

LEMMA SameWaits ==
  ASSUME IInv, UNCHANGED <<apply, waiting, online>>
  PROVE  Waits'
BY DEF IInv, Waits

LEMMA ForgottenFacts ==
  ASSUME NEW u \in Users, NEW c \in Users, NEW t \in [Users -> [Users -> Applications]],
         NEW s, s = [t EXCEPT ![c][u] = NoApply], \A v \in Users : t[v][v] = NoApply
  PROVE  /\ s \in [Users -> [Users -> Applications]]
         /\ \A v \in Users : s[v][v] = NoApply
         /\ \A v, w \in Users : w # u => s[v][w] = t[v][w]
<1>1. NoApply \in Applications
  BY DEF Applications
<1> QED BY <1>1

LEMMA HandleResponseStep ==
  ASSUME IMContactsAssumption, IInv, NEW u \in Users, HandleResponse(u)
  PROVE  IInv'
<1>1. /\ toServer[u] # <<>> /\ Head(toServer[u]).type = "response" /\ toServer' = Taken(u)
      /\ UNCHANGED <<groups, online, clients, waiting, renamed>>
  BY DEF HandleResponse
<1>2. Types /\ Sessions /\ Singles
  BY DEF IInv
<1>3. PICK e : e = Head(toServer[u])
  OBVIOUS
<1>4. PICK c \in Others(u) : c = e.contact
  BY <1>1, <1>2, <1>3, HeadFacts, RequestFacts
<1>5. /\ c \in Users /\ c # u /\ u \in Others(c) /\ online[u]
      /\ apply \in [Users -> [Users -> Applications]] /\ \A v \in Users : apply[v][v] = NoApply
      /\ \A a, b \in Users : <<a, b>> \in waiting =>
           ~online[b] /\ apply[a][b].result = "unknown" /\ ~apply[a][b].receiverRead
      /\ Answered(toClient)
  BY <1>1, <1>4 DEF Others, IInv, Types, Sessions, Stores, Waits, Wires, Answered
<1>6. GroupTypes' /\ Histories'
  BY <1>1, <1>2, SameStores
<1>7. ASSUME RowTypes', ApplyTypes', Memories', Singles', Matches', FriendshipIsMutual',
             Answered(toClient'), Waits'
      PROVE  IInv'
  BY <1>1, <1>6, <1>7, HandlerKeeps
<1>8. ASSUME UNCHANGED <<row, memory, left, fallen>>
      PROVE  RowTypes' /\ Memories' /\ Singles' /\ Matches' /\ FriendshipIsMutual'
  BY <1>1, <1>2, <1>8, SameStores, ServerKeeps
<1>9. ASSUME NEW t \in [Users -> [Users -> Applications]], \A v \in Users : t[v][v] = NoApply,
             \A v, w \in Users : apply[v][w] # NoApply => t[v][w] = apply[v][w],
             apply' = t \/ apply' = [t EXCEPT ![c][u] = NoApply]
      PROVE  ApplyTypes' /\ Waits'
  <2>1. PICK s : s = apply'
    OBVIOUS
  <2>2. /\ s \in [Users -> [Users -> Applications]]
        /\ \A v \in Users : s[v][v] = NoApply
        /\ \A v, w \in Users : w # u => s[v][w] = t[v][w]
    <3>1. CASE s = t
      BY <1>9, <3>1
    <3>2. CASE s = [t EXCEPT ![c][u] = NoApply]
      <4>1. c \in Users
        BY <1>5
      <4> QED BY <1>9, <3>2, <4>1, ForgottenFacts
    <3> QED BY <1>9, <2>1, <3>1, <3>2
  <2>3. ApplyTypes'
    BY <2>1, <2>2 DEF ApplyTypes
  <2>4. ASSUME NEW a \in Users, NEW b \in Users, <<a, b>> \in waiting
        PROVE  ~online[b] /\ s[a][b].result = "unknown" /\ ~s[a][b].receiverRead
    <3>1. ~online[b] /\ apply[a][b].result = "unknown" /\ ~apply[a][b].receiverRead /\ b # u
      BY <1>5, <2>4
    <3>2. apply[a][b] # NoApply
      BY <3>1, AppliedFacts
    <3> QED BY <1>9, <2>2, <3>1, <3>2
  <2>5. Waits'
    BY <1>1, <2>1, <2>4 DEF Waits
  <2> QED BY <2>3, <2>5
<1>10. CASE /\ AddContactForUser(u, c, Friends)
            /\ apply' = [AddedApply(u, c) EXCEPT ![c][u] = NoApply]
  <2>1. RowTypes' /\ Memories' /\ Singles' /\ Matches' /\ FriendshipIsMutual'
    BY <1>1, <1>10, AddedKeeps
  <2>2. Answered(toClient')
    BY <1>2, <1>10, AddedFacts
  <2>3. PICK t : t = AddedApply(u, c)
    OBVIOUS
  <2>4. /\ t \in [Users -> [Users -> Applications]] /\ \A v \in Users : t[v][v] = NoApply
        /\ \A v, w \in Users : apply[v][w] # NoApply => t[v][w] = apply[v][w]
    BY <1>2, <2>3, AddedApplyFacts
  <2>5. apply' = [t EXCEPT ![c][u] = NoApply]
    BY <1>10, <2>3
  <2>6. ApplyTypes' /\ Waits'
    BY <1>9, <2>4, <2>5
  <2> QED BY <1>7, <2>1, <2>2, <2>6
<1>11. CASE /\ apply' = SavedApply(apply, c, u, Applied("denied", FALSE, TRUE))
            /\ UNCHANGED <<row, memory, toClient, left, fallen>>
  <2>1. PICK new : new = Applied("denied", FALSE, TRUE)
    OBVIOUS
  <2>2. new \in Applications
    BY <2>1, AppliedFacts
  <2>3. PICK t : t = SavedApply(apply, c, u, new)
    OBVIOUS
  <2>4. /\ t \in [Users -> [Users -> Applications]] /\ \A v \in Users : t[v][v] = NoApply
        /\ \A v, w \in Users : apply[v][w] # NoApply => t[v][w] = apply[v][w]
    <3>1. /\ c # u /\ c \in Users /\ apply \in [Users -> [Users -> Applications]]
          /\ \A v \in Users : apply[v][v] = NoApply
      BY <1>5
    <3>2. /\ t \in [Users -> [Users -> Applications]] /\ \A v \in Users : t[v][v] = NoApply
          /\ \A v, w \in Users :
               t[v][w] = IF v = c /\ w = u /\ apply[v][w] = NoApply THEN new ELSE apply[v][w]
      BY <2>2, <2>3, <3>1, SavedFacts
    <3> QED BY <3>2
  <2>5. apply' = t
    BY <1>11, <2>1, <2>3
  <2>6. ApplyTypes' /\ Waits'
    BY <1>9, <2>4, <2>5
  <2> QED BY <1>5, <1>7, <1>8, <1>11, <2>6
<1>12. CASE /\ \/ toClient' = Sent(toClient, c, [type |-> "refused", contact |-> u])
               \/ toClient' = toClient
            /\ apply' = [apply EXCEPT ![c][u] = NoApply]
            /\ UNCHANGED <<row, memory, left, fallen>>
  <2>1. PICK p : p = [type |-> "refused", contact |-> u]
    OBVIOUS
  <2>2. p \in Answers(c)
    BY <1>5, <2>1 DEF Answers
  <2>3. Answered(toClient')
    BY <1>5, <1>12, <2>1, <2>2, SentFacts
  <2>4. ApplyTypes' /\ Waits'
    BY <1>5, <1>9, <1>12
  <2> QED BY <1>7, <1>8, <1>12, <2>3, <2>4
<1> QED BY <1>3, <1>4, <1>10, <1>11, <1>12 DEF HandleResponse

\* The one who deletes has nobody, or one on the blacklist, the other nobody or the same.
LEMMA HandleDeleteStep ==
  ASSUME IMContactsAssumption, IInv, NEW u \in Users, HandleDelete(u)
  PROVE  IInv'
<1>1. /\ toServer[u] # <<>> /\ Head(toServer[u]).type = "delete" /\ toServer' = Taken(u)
      /\ UNCHANGED <<apply, online, clients, fallen, waiting, renamed>>
  BY DEF HandleDelete
<1>2. Types /\ Sessions /\ Singles
  BY DEF IInv
<1>3. PICK e : e = Head(toServer[u])
  OBVIOUS
<1>4. PICK c \in Others(u) : c = e.contact
  BY <1>1, <1>2, <1>3, HeadFacts, RequestFacts
<1>5. /\ c \in Users /\ c # u /\ u \in Others(c) /\ Blacklist \in Groups
      /\ Blacklist \in DOMAIN DefaultGroups /\ Blacklist # NoGroup
      /\ groups \in [Users -> SUBSET Groups] /\ \A a \in Users : Friends \in groups[a]
      /\ row \in [Users -> [Users -> Groups \cup {NoGroup}]]
      /\ \A a \in Users : row[a][a] = NoGroup
      /\ \A a, b \in Users : row[a][b] # NoGroup => row[a][b] \in groups[a]
      /\ memory \in [Users -> GroupMaps]
      /\ \A a \in Users : DOMAIN DefaultGroups \subseteq DOMAIN memory[a]
  <2>1. /\ Blacklist \in Groups /\ Blacklist \in DOMAIN DefaultGroups /\ Blacklist # NoGroup
    BY Numbers
  <2>2. c \in Users /\ c # u /\ u \in Others(c)
    BY DEF Others
  <2> QED BY <1>2, <2>1, <2>2 DEF Types, Stores, Memories
<1>6. PICK kept : kept = IF e.blacklist /\ row[u][c] # NoGroup THEN Blacklist ELSE NoGroup
  OBVIOUS
<1>7. PICK back : back = IF e.both THEN NoGroup ELSE row[c][u]
  OBVIOUS
<1>8. PICK off : off = Without(memory[u], c)
  OBVIOUS
<1>9. PICK mu : mu = IF e.blacklist THEN [off EXCEPT ![Blacklist] = @ \cup {c}] ELSE off
  OBVIOUS
<1>10. PICK mc : mc = IF e.both THEN Without(memory[c], u) ELSE memory[c]
  OBVIOUS
<1>11. /\ groups' = [groups EXCEPT ![u] = IF e.blacklist THEN @ \cup {Blacklist} ELSE @]
       /\ row' = [row EXCEPT ![u][c] = kept, ![c][u] = back]
       /\ memory' = [memory EXCEPT ![u] = mu, ![c] = mc]
       /\ toClient' = Sent(toClient, u, [type |-> "deleted", contact |-> c,
                                         blacklist |-> e.blacklist])
       /\ left' = left \cup {<<u, c>>} \cup (IF e.both THEN {<<c, u>>} ELSE {})
  BY <1>3, <1>4, <1>5, <1>6, <1>7, <1>8, <1>9, <1>10 DEF HandleDelete
<1>12. Single(memory[u], c) /\ Single(memory[c], u)
  BY <1>2, <1>5 DEF Singles
<1>13. /\ off \in GroupMaps /\ DOMAIN off = DOMAIN memory[u]
       /\ \A g \in DOMAIN memory[u] : off[g] \subseteq memory[u][g]
       /\ \A g \in DOMAIN memory[u] : \A d \in memory[u][g] : d # c => d \in off[g]
       /\ \A g \in DOMAIN memory[u] : c \notin off[g]
  BY <1>5, <1>8, <1>12, WithoutFacts
<1>14. /\ mu \in GroupMaps /\ DOMAIN mu = DOMAIN memory[u]
       /\ \A g \in DOMAIN memory[u] : c \in mu[g] <=> g = Blacklist /\ e.blacklist
       /\ \A g \in DOMAIN memory[u] : \A d \in Users : d # c => (d \in mu[g] <=> d \in memory[u][g])
  <2>1. CASE ~e.blacklist
    BY <1>9, <1>13, <2>1
  <2>2. CASE e.blacklist
    <3>1. off = [g \in DOMAIN off |-> off[g]] /\ Blacklist \in DOMAIN off
      BY <1>5, <1>13, MapFacts
    <3>2. /\ DOMAIN mu = DOMAIN off /\ mu = [g \in DOMAIN mu |-> mu[g]]
          /\ \A g \in DOMAIN off : mu[g] = IF g = Blacklist THEN off[g] \cup {c} ELSE off[g]
      BY <1>9, <2>2, <3>1
    <3>3. mu \in GroupMaps
      <4>1. DOMAIN off \subseteq Groups /\ \A g \in DOMAIN off : off[g] \subseteq Users
        BY <1>13, MapFacts
      <4>2. DOMAIN mu \subseteq Groups /\ \A g \in DOMAIN mu : mu[g] \subseteq Users
        BY <1>5, <3>2, <4>1
      <4> QED BY <3>2, <4>2, MapIs
    <3> QED BY <1>13, <2>2, <3>1, <3>2, <3>3
  <2> QED BY <2>1, <2>2
<1>15. /\ mc \in GroupMaps /\ DOMAIN mc = DOMAIN memory[c]
       /\ e.both => \A g \in DOMAIN memory[c] : u \notin mc[g]
       /\ ~e.both => mc = memory[c]
       /\ \A g \in DOMAIN memory[c] : \A d \in Users : d # u => (d \in mc[g] <=> d \in memory[c][g])
  <2>1. CASE ~e.both
    BY <1>5, <1>10, <2>1
  <2>2. CASE e.both
    <3>1. mc = Without(memory[c], u)
      BY <1>10, <2>2
    <3>2. /\ mc \in GroupMaps /\ DOMAIN mc = DOMAIN memory[c]
          /\ \A g \in DOMAIN memory[c] : mc[g] \subseteq memory[c][g]
          /\ \A g \in DOMAIN memory[c] : \A d \in memory[c][g] : d # u => d \in mc[g]
          /\ \A g \in DOMAIN memory[c] : u \notin mc[g]
      BY <1>5, <1>12, <3>1, WithoutFacts
    <3> QED BY <2>2, <3>2
  <2> QED BY <2>1, <2>2
<1>16. /\ memory' \in [Users -> GroupMaps]
       /\ \A a \in Users : memory'[a] = IF a = c THEN mc ELSE IF a = u THEN mu ELSE memory[a]
  BY <1>5, <1>11, <1>14, <1>15
<1>17. kept \in {NoGroup, Blacklist} /\ back \in {NoGroup, row[c][u]}
  BY <1>6, <1>7
<1>18. /\ row' \in [Users -> [Users -> Groups \cup {NoGroup}]]
       /\ row'[u][c] = kept /\ row'[c][u] = back
       /\ \A a, b \in Users : ~Between(u, c, a, b) => row'[a][b] = row[a][b]
  <2>1. kept \in Groups \cup {NoGroup} /\ back \in Groups \cup {NoGroup}
    BY <1>5, <1>17
  <2> QED BY <1>5, <1>11, <2>1 DEF Between
<1>19. /\ groups' \in [Users -> SUBSET Groups]
       /\ \A a \in Users : groups[a] \subseteq groups'[a]
       /\ e.blacklist => Blacklist \in groups'[u]
  BY <1>5, <1>11
<1>20. GroupTypes'
  BY <1>5, <1>19 DEF GroupTypes
<1>21. RowTypes'
  <2>1. \A a \in Users : ~Between(u, c, a, a)
    BY <1>5 DEF Between
  <2>2. ASSUME NEW a \in Users, NEW b \in Users, row'[a][b] # NoGroup
        PROVE  row'[a][b] \in groups'[a]
    <3>1. CASE ~Between(u, c, a, b)
      BY <1>5, <1>18, <1>19, <2>2, <3>1
    <3>2. CASE a = u /\ b = c
      BY <1>6, <1>18, <1>19, <2>2, <3>2
    <3>3. CASE a = c /\ b = u
      BY <1>5, <1>17, <1>18, <1>19, <2>2, <3>3
    <3> QED BY <3>1, <3>2, <3>3 DEF Between
  <2> QED BY <1>5, <1>18, <2>1, <2>2 DEF RowTypes
<1>22. Memories'
  BY <1>1, <1>5, <1>14, <1>15, <1>16 DEF IInv, Types, Memories
<1>23. Singles'
  <2>1. ASSUME NEW a \in Users, NEW b \in Users PROVE Single(memory'[a], b)
    <3>1. Single(memory[a], b)
      BY <1>2 DEF Singles
    <3>2. CASE a = c
      BY <1>5, <1>15, <1>16, <3>1, <3>2 DEF Single
    <3>3. CASE a = u
      BY <1>5, <1>14, <1>16, <3>1, <3>3 DEF Single
    <3> QED BY <1>16, <3>1, <3>2, <3>3
  <2> QED BY <2>1 DEF Singles
<1>24. ASSUME NEW a \in Users, online[a], NEW b \in Users
       PROVE  /\ \A g \in DOMAIN memory'[a] \ DOMAIN DefaultGroups :
                   b \in memory'[a][g] => row'[a][b] \in {g, NoGroup}
              /\ HasFriend(memory'[a], b) => row'[a][b] # NoGroup \/ <<a, b>> \in fallen
              /\ row'[a][b] # NoGroup =>
                   (\E g \in DOMAIN memory'[a] : b \in memory'[a][g]) \/ row'[a][b] \in renamed[a]
  <2>1. InMadeGroups(a) /\ InFriends(a) /\ InMemory(a)
    BY <1>24 DEF IInv, Matches
  <2>2. CASE /\ row'[a][b] = row[a][b] /\ DOMAIN memory'[a] = DOMAIN memory[a]
             /\ \A g \in DOMAIN memory[a] : b \in memory'[a][g] <=> b \in memory[a][g]
    BY <2>1, <2>2 DEF InMadeGroups, InFriends, InMemory, HasFriend, FriendGroups
  <2>3. CASE a = u /\ b = c
    <3>1. row'[a][b] = kept /\ memory'[a] = mu
      BY <1>5, <1>16, <1>18, <2>3
    <3>2. ~HasFriend(mu, c)
      BY <1>14 DEF HasFriend, FriendGroups
    <3> QED BY <1>5, <1>6, <1>14, <2>3, <3>1, <3>2
  <2>4. CASE a = c /\ b = u /\ e.both
    <3>1. row'[a][b] = NoGroup /\ memory'[a] = mc
      BY <1>7, <1>16, <1>18, <2>4
    <3> QED BY <1>15, <2>4, <3>1 DEF HasFriend, FriendGroups
  <2>5. CASE a = c /\ b = u /\ ~e.both
    <3>1. row'[a][b] = row[a][b] /\ memory'[a] = memory[a]
      BY <1>7, <1>15, <1>16, <1>18, <2>5
    <3> QED BY <2>2, <3>1
  <2>6. CASE ~Between(u, c, a, b)
    <3>1. row'[a][b] = row[a][b]
      BY <1>18, <2>6
    <3>2. /\ DOMAIN memory'[a] = DOMAIN memory[a]
          /\ \A g \in DOMAIN memory[a] : b \in memory'[a][g] <=> b \in memory[a][g]
      BY <1>14, <1>15, <1>16, <2>6 DEF Between
    <3> QED BY <2>2, <3>1, <3>2
  <2> QED BY <2>3, <2>4, <2>5, <2>6 DEF Between
<1>25. Matches'
  <2>1. \A a \in Users : \A g \in DOMAIN memory'[a] : memory'[a][g] \subseteq Users
    BY <1>16, MapFacts
  <2> QED BY <1>1, <1>24, <2>1 DEF Matches, InMadeGroups, InFriends, InMemory
<1>26. FriendshipIsMutual'
  <2>1. ASSUME NEW a \in Users, NEW b \in Users, row'[a][b] # NoGroup, row'[b][a] = NoGroup
        PROVE  <<b, a>> \in left' \cup fallen
    <3>1. CASE a = u /\ b = c
      <4>1. row[u][c] # NoGroup /\ (~e.both => row[c][u] = NoGroup)
        BY <1>6, <1>7, <1>18, <2>1, <3>1
      <4> QED BY <1>5, <1>11, <3>1, <4>1 DEF IInv, FriendshipIsMutual
    <3>2. CASE a = c /\ b = u
      BY <1>11, <3>2
    <3>3. CASE ~Between(u, c, a, b)
      <4>1. row[a][b] # NoGroup /\ row[b][a] = NoGroup
        BY <1>18, <2>1, <3>3 DEF Between
      <4> QED BY <1>11, <4>1 DEF IInv, FriendshipIsMutual
    <3> QED BY <3>1, <3>2, <3>3 DEF Between
  <2> QED BY <1>1, <2>1 DEF FriendshipIsMutual
<1>27. Answered(toClient')
  <2>1. PICK p : p = [type |-> "deleted", contact |-> c, blacklist |-> e.blacklist]
    OBVIOUS
  <2>2. e.blacklist \in BOOLEAN
    BY <1>1, <1>2, <1>3, HeadFacts, RequestFacts
  <2>3. p \in Answers(u)
    BY <2>1, <2>2 DEF Answers
  <2>4. Answered(toClient)
    BY <1>2 DEF Types, Wires, Answered
  <2> QED BY <1>11, <2>1, <2>3, <2>4, SentFacts
<1>28. ApplyTypes' /\ Histories' /\ Waits'
  BY <1>1, <1>2, SameStores, SameWaits
<1> QED BY <1>1, <1>20, <1>21, <1>22, <1>23, <1>25, <1>26, <1>27, <1>28, HandlerKeeps

\* A contact who is moved is where the client wants him, in memory and in the database,
\* whatever either thought of the group he was in.
LEMMA MovedTwice ==
  ASSUME NEW m \in GroupMaps, NEW c \in Users, Single(m, c),
         NEW old \in DOMAIN m, NEW new \in DOMAIN m, NEW d \in DOMAIN m, d = GroupOf(m, c),
         NEW r, r = Moved(Moved(m, c, d, new), c, old, new)
  PROVE  /\ r \in GroupMaps /\ DOMAIN r = DOMAIN m
         /\ \A g \in DOMAIN m : c \in r[g] <=> g = new
         /\ \A g \in DOMAIN m : \A b \in Users : b # c => (b \in r[g] <=> b \in m[g])
<1>1. PICK s : s = Moved(m, c, d, new)
  OBVIOUS
<1>2. /\ s \in GroupMaps /\ DOMAIN s = DOMAIN m
      /\ \A h \in DOMAIN m : \A b \in Users : b # c => (b \in s[h] <=> b \in m[h])
      /\ \A h \in DOMAIN m : c \in s[h] => h = new \/ (h # d /\ c \in m[h])
  <2>1. ASSUME NEW x \in DOMAIN m
        PROVE  /\ Moved(m, c, x, new) \in GroupMaps /\ DOMAIN Moved(m, c, x, new) = DOMAIN m
               /\ \A h \in DOMAIN m : \A b \in Users : b # c =>
                    (b \in Moved(m, c, x, new)[h] <=> b \in m[h])
               /\ \A h \in DOMAIN m : c \in Moved(m, c, x, new)[h] =>
                    h = new \/ (h # x /\ c \in m[h])
    BY MovedFacts
  <2> QED BY <1>1, <2>1
<1>3. \A h \in DOMAIN m : c \in s[h] => h = new
  <2>1. ASSUME NEW h \in DOMAIN m, c \in m[h] PROVE h = d
    <3>1. c \in m[d]
      BY <2>1, GroupOfFacts
    <3> QED BY <2>1, <3>1 DEF Single
  <2> QED BY <1>2, <2>1
<1>4. r = Moved(s, c, old, new)
  BY <1>1
<1>5. /\ r \in GroupMaps /\ DOMAIN r = DOMAIN s /\ c \in r[new]
      /\ \A h \in DOMAIN s : \A b \in Users : b # c => (b \in r[h] <=> b \in s[h])
      /\ \A h \in DOMAIN s : c \in r[h] => h = new \/ (h # old /\ c \in s[h])
  <2>1. s \in GroupMaps /\ old \in DOMAIN s /\ new \in DOMAIN s
    BY <1>2
  <2>2. /\ Moved(s, c, old, new) \in GroupMaps /\ DOMAIN Moved(s, c, old, new) = DOMAIN s
        /\ c \in Moved(s, c, old, new)[new]
        /\ \A h \in DOMAIN s : \A b \in Users : b # c =>
             (b \in Moved(s, c, old, new)[h] <=> b \in s[h])
        /\ \A h \in DOMAIN s : c \in Moved(s, c, old, new)[h] => h = new \/ (h # old /\ c \in s[h])
    BY <2>1, MovedFacts
  <2> QED BY <1>4, <2>2
<1> QED BY <1>2, <1>3, <1>5

LEMMA CrashFacts ==
  ASSUME IMContactsAssumption, IInv, Crash, GroupTypes', RowTypes', FriendshipIsMutual',
         UNCHANGED <<apply, mine, seen, asked, added, waiting, renamed>>
  PROVE  IInv'
<1>1. /\ online' = [u \in Users |-> FALSE] /\ memory' = [u \in Users |-> DefaultGroups]
      /\ linked' = [u \in Users |-> FALSE]
      /\ toServer' = [u \in Users |-> <<>>] /\ toClient' = [u \in Users |-> <<>>]
  BY DEF Crash
<1>2. Stores'
  BY DEF IInv, Types, Stores, GroupTypes, RowTypes
<1>3. Memories'
  BY <1>1, DefaultFacts DEF Memories
<1>4. Programs'
  BY <1>1 DEF IInv, Types, Programs
<1>5. Wires'
  <2>1. \A u \in Users : <<>> \in Seq(Requests(u)) /\ <<>> \in Seq(Answers(u))
    OBVIOUS
  <2> QED BY <1>1, <2>1 DEF Wires
<1>6. Histories'
  BY DEF IInv, Types, Histories
<1>7. Sessions'
  <2>1. GoneLast(<<>>)
    BY DEF GoneLast
  <2> QED BY <1>1, <2>1 DEF Sessions
<1>8. Singles'
  <2>1. \A g \in DOMAIN DefaultGroups : DefaultGroups[g] = {}
    BY DefaultFacts
  <2> QED BY <1>1, <2>1 DEF Singles, Single
<1>9. Matches'
  BY <1>1 DEF Matches
<1>10. Waits'
  BY <1>1 DEF IInv, Waits
<1> QED BY <1>2, <1>3, <1>4, <1>5, <1>6, <1>7, <1>8, <1>9, <1>10 DEF IInv, Types

LEMMA HandleMoveStep ==
  ASSUME IMContactsAssumption, IInv, NEW u \in Users, HandleMove(u)
  PROVE  IInv'
<1>1. /\ toServer[u] # <<>> /\ Head(toServer[u]).type = "move"
      /\ UNCHANGED <<groups, apply, mine, seen, asked, added, history>>
  BY DEF HandleMove
<1>2. Types /\ Sessions /\ Singles
  BY DEF IInv
<1>3. PICK e : e = Head(toServer[u])
  OBVIOUS
<1>4. PICK c \in Others(u) : c = e.contact
  BY <1>1, <1>2, <1>3, HeadFacts, RequestFacts
<1>5. PICK new \in Friends .. MaxGroup : new = e.new
  BY <1>1, <1>2, <1>3, HeadFacts, RequestFacts
<1>6. PICK from : from = GroupOf(memory[u], c)
  OBVIOUS
<1>7. PICK found : found = (HasFriend(memory[u], c) /\ new \in groups[u])
  OBVIOUS
<1>8. /\ row' = IF ~found \/ row[u][c] = NoGroup THEN row ELSE [row EXCEPT ![u][c] = new]
      /\ \/ /\ ~found
            /\ UNCHANGED <<online, memory, linked, toClient>>
            /\ toServer' = Taken(u)
         \/ /\ found /\ CanMove(memory[u], from, new) /\ CanMove(memory[u], e.old, new)
            /\ memory' = [memory EXCEPT
                 ![u] = Moved(Moved(memory[u], c, from, new), c, e.old, new)]
            /\ UNCHANGED <<online, linked, toClient>>
            /\ toServer' = Taken(u)
         \/ Crash
  BY <1>3, <1>4, <1>5, <1>6, <1>7 DEF HandleMove
<1>9. /\ new \in Groups /\ new # NoGroup /\ c \in Users /\ c # u
      /\ row \in [Users -> [Users -> Groups \cup {NoGroup}]]
      /\ \A a \in Users : row[a][a] = NoGroup
      /\ \A a, b \in Users : row[a][b] # NoGroup => row[a][b] \in groups[a]
      /\ memory \in [Users -> GroupMaps]
      /\ \A a \in Users : DOMAIN DefaultGroups \subseteq DOMAIN memory[a]
  <2>1. new \in Groups /\ new # NoGroup
    BY Numbers
  <2> QED BY <1>2, <2>1 DEF Others, Types, Stores, Memories
<1>10. /\ row' \in [Users -> [Users -> Groups \cup {NoGroup}]]
       /\ \A a, b \in Users : row'[a][b] =
            IF a = u /\ b = c /\ found /\ row[a][b] # NoGroup THEN new ELSE row[a][b]
  <2>1. CASE ~found \/ row[u][c] = NoGroup
    BY <1>8, <1>9, <2>1
  <2>2. CASE found /\ row[u][c] # NoGroup
    <3>1. row' = [row EXCEPT ![u][c] = new]
      BY <1>8, <2>2
    <3> QED BY <1>9, <2>2, <3>1
  <2> QED BY <1>7, <2>1, <2>2
<1>11. RowTypes'
  <2>1. found => new \in groups[u]
    BY <1>7
  <2>2. \A a \in Users : row'[a][a] = NoGroup
    BY <1>9, <1>10
  <2>3. \A a, b \in Users : row'[a][b] # NoGroup => row'[a][b] \in groups'[a]
    BY <1>1, <1>9, <1>10, <2>1
  <2> QED BY <1>10, <2>2, <2>3 DEF RowTypes
<1>12. FriendshipIsMutual'
  <2>1. \A a, b \in Users : row'[a][b] = NoGroup <=> row[a][b] = NoGroup
    BY <1>9, <1>10
  <2>2. UNCHANGED <<left, fallen>>
    BY <1>1 DEF history
  <2> QED BY <2>1, <2>2 DEF IInv, FriendshipIsMutual
<1>13. GroupTypes' /\ Histories' /\ ApplyTypes' /\ UNCHANGED <<waiting, renamed, fallen>>
  BY <1>1, <1>2, SameStores DEF history
<1>14. CASE Crash
  BY <1>1, <1>11, <1>12, <1>13, <1>14, CrashFacts
<1>15. ASSUME UNCHANGED <<online, linked, toClient>>, toServer' = Taken(u),
              Memories', Singles', Matches'
       PROVE  IInv'
  <2>1. UNCHANGED clients /\ Waits' /\ Answered(toClient')
    BY <1>1, <1>2, <1>13, <1>15, SameWaits, SameStores DEF clients
  <2> QED BY <1>1, <1>11, <1>12, <1>13, <1>15, <2>1, HandlerKeeps
<1>16. CASE ~found /\ UNCHANGED <<online, memory, linked, toClient>> /\ toServer' = Taken(u)
  <2>1. UNCHANGED row
    BY <1>8, <1>16
  <2>2. Memories' /\ Singles' /\ Matches'
    BY <1>1, <1>16, <2>1, ServerKeeps DEF history
  <2> QED BY <1>15, <1>16, <2>2
<1>17. CASE /\ found /\ CanMove(memory[u], from, new) /\ CanMove(memory[u], e.old, new)
            /\ memory' = [memory EXCEPT
                 ![u] = Moved(Moved(memory[u], c, from, new), c, e.old, new)]
            /\ UNCHANGED <<online, linked, toClient>> /\ toServer' = Taken(u)
  <2>1. from \in DOMAIN memory[u] /\ new \in DOMAIN memory[u] /\ e.old \in DOMAIN memory[u]
    BY <1>17 DEF CanMove
  <2>2. PICK old \in DOMAIN memory[u] : old = e.old
    BY <2>1
  <2>3. PICK r : r = Moved(Moved(memory[u], c, from, new), c, old, new)
    OBVIOUS
  <2>4. Single(memory[u], c) /\ memory[u] \in GroupMaps
    BY <1>2, <1>9 DEF Singles
  <2>5. /\ r \in GroupMaps /\ DOMAIN r = DOMAIN memory[u]
        /\ \A g \in DOMAIN memory[u] : c \in r[g] <=> g = new
        /\ \A g \in DOMAIN memory[u] : \A b \in Users : b # c => (b \in r[g] <=> b \in memory[u][g])
    BY <1>6, <1>9, <2>1, <2>3, <2>4, MovedTwice
  <2>6. memory' = [memory EXCEPT ![u] = r]
    BY <1>17, <2>2, <2>3
  <2>7. /\ memory' \in [Users -> GroupMaps]
        /\ \A a \in Users : memory'[a] = IF a = u THEN r ELSE memory[a]
    BY <1>9, <2>5, <2>6
  <2>8. Memories'
    BY <1>9, <1>17, <2>5, <2>7 DEF IInv, Types, Memories
  <2>9. Singles'
    <3>1. ASSUME NEW a \in Users, NEW b \in Users PROVE Single(memory'[a], b)
      <4>1. Single(memory[a], b)
        BY <1>2 DEF Singles
      <4> QED BY <2>5, <2>7, <4>1 DEF Single
    <3> QED BY <3>1 DEF Singles
  <2>10. ASSUME NEW a \in Users, online[a], NEW b \in Users
         PROVE  /\ \A g \in DOMAIN memory'[a] \ DOMAIN DefaultGroups :
                     b \in memory'[a][g] => row'[a][b] \in {g, NoGroup}
                /\ HasFriend(memory'[a], b) => row'[a][b] # NoGroup \/ <<a, b>> \in fallen
                /\ row'[a][b] # NoGroup =>
                     (\E g \in DOMAIN memory'[a] : b \in memory'[a][g]) \/ row'[a][b] \in renamed[a]
    <3>1. InMadeGroups(a) /\ InFriends(a) /\ InMemory(a)
      BY <2>10 DEF IInv, Matches
    <3>2. CASE ~(a = u /\ b = c)
      <4>1. row'[a][b] = row[a][b]
        BY <1>10, <3>2
      <4>2. /\ DOMAIN memory'[a] = DOMAIN memory[a]
            /\ \A g \in DOMAIN memory[a] : b \in memory'[a][g] <=> b \in memory[a][g]
        BY <2>5, <2>7, <3>2
      <4> QED BY <3>1, <4>1, <4>2 DEF InMadeGroups, InFriends, InMemory, HasFriend, FriendGroups
    <3>3. CASE a = u /\ b = c
      <4>1. row'[a][b] = IF row[a][b] # NoGroup THEN new ELSE row[a][b]
        BY <1>10, <1>17, <3>3
      <4>2. HasFriend(memory[a], b)
        BY <1>7, <1>17, <3>3
      <4>3. row[a][b] # NoGroup \/ <<a, b>> \in fallen
        BY <3>1, <4>2 DEF InFriends
      <4> QED BY <1>9, <2>1, <2>5, <2>7, <3>3, <4>1, <4>3
    <3> QED BY <3>2, <3>3
  <2>11. Matches'
    <3>1. \A a \in Users : \A g \in DOMAIN memory'[a] : memory'[a][g] \subseteq Users
      BY <2>7, MapFacts
    <3> QED BY <1>13, <1>17, <2>10, <3>1 DEF Matches, InMadeGroups, InFriends, InMemory
  <2> QED BY <1>15, <1>17, <2>8, <2>9, <2>11
<1> QED BY <1>8, <1>14, <1>16, <1>17

\* A new group is empty, and its members elsewhere stay.
LEMMA HandleCreateGroupStep ==
  ASSUME IMContactsAssumption, IInv, NEW u \in Users, HandleCreateGroup(u)
  PROVE  IInv'
<1>1. /\ toServer[u] # <<>> /\ toServer' = Taken(u)
      /\ UNCHANGED <<row, apply, online, clients, history>>
  BY DEF HandleCreateGroup
<1>2. Types /\ Sessions /\ Singles /\ Answered(toClient)
  BY DEF IInv, Types, Wires, Answered
<1>3. UNCHANGED <<left, fallen, waiting, renamed>>
  BY <1>1 DEF history
<1>4. ApplyTypes' /\ Histories' /\ Waits' /\ FriendshipIsMutual'
  <2>1. FriendshipIsMutual'
    BY <1>1, <1>3 DEF IInv, FriendshipIsMutual
  <2> QED BY <1>1, <1>2, <1>3, <2>1, SameStores, SameWaits
<1>5. ASSUME GroupTypes', RowTypes', Memories', Singles', Matches', Answered(toClient')
      PROVE  IInv'
  BY <1>1, <1>4, <1>5, HandlerKeeps
<1>6. PICK unused : unused = (Friends + 1) .. MaxGroup \ DOMAIN memory[u]
  OBVIOUS
<1>7. PICK g : g = CHOOSE i \in unused : \A j \in unused : i <= j
  OBVIOUS
<1>8. \/ /\ unused # {} /\ g \notin groups[u]
         /\ groups' = [groups EXCEPT ![u] = @ \cup {g}]
         /\ memory' = [memory EXCEPT ![u] = WithGroup(@, g)]
         /\ toClient' = Sent(toClient, u, [type |-> "created", group |-> g, ok |-> TRUE])
      \/ /\ toClient' = Sent(toClient, u, [type |-> "created", group |-> 0, ok |-> FALSE])
         /\ UNCHANGED <<groups, memory>>
  BY <1>6, <1>7 DEF HandleCreateGroup
<1>9. CASE /\ toClient' = Sent(toClient, u, [type |-> "created", group |-> 0, ok |-> FALSE])
           /\ UNCHANGED <<groups, memory>>
  <2>1. PICK p : p = [type |-> "created", group |-> 0, ok |-> FALSE]
    OBVIOUS
  <2>2. 0 \in Groups
    BY Numbers
  <2>3. p \in Answers(u)
    BY <2>1, <2>2 DEF Answers
  <2>4. Answered(toClient')
    BY <1>2, <1>9, <2>1, <2>3, SentFacts
  <2> QED BY <1>1, <1>2, <1>3, <1>5, <1>9, <2>4, SameStores, ServerKeeps
<1>10. CASE /\ unused # {} /\ g \notin groups[u]
            /\ groups' = [groups EXCEPT ![u] = @ \cup {g}]
            /\ memory' = [memory EXCEPT ![u] = WithGroup(@, g)]
            /\ toClient' = Sent(toClient, u, [type |-> "created", group |-> g, ok |-> TRUE])
  <2>1. g \in unused
    <3>1. unused \in SUBSET Nat
      BY <1>6, Numbers
    <3>2. \E i \in unused : \A j \in unused : i <= j
      BY <1>10, <3>1, LeastElement
    <3> QED BY <1>7, <3>2
  <2>2. g \in Groups /\ g \in Made /\ g \notin DOMAIN memory[u]
    BY <1>6, <2>1, Numbers
  <2>3. /\ groups \in [Users -> SUBSET Groups] /\ \A a \in Users : Friends \in groups[a]
        /\ memory \in [Users -> GroupMaps]
        /\ \A a \in Users : DOMAIN DefaultGroups \subseteq DOMAIN memory[a]
    BY <1>2 DEF Types, Stores, Memories
  <2>4. PICK r : r = WithGroup(memory[u], g)
    OBVIOUS
  <2>5. /\ r \in GroupMaps /\ DOMAIN r = DOMAIN memory[u] \cup {g}
        /\ \A h \in DOMAIN memory[u] : r[h] = memory[u][h]
        /\ r[g] = {}
    <3>1. memory[u] \in GroupMaps /\ g \in Groups /\ g \notin DOMAIN memory[u]
      BY <2>2, <2>3
    <3>2. PICK m : m = memory[u]
      OBVIOUS
    <3>3. m \in GroupMaps /\ g \notin DOMAIN m
      BY <3>1, <3>2
    <3>4. /\ WithGroup(m, g) \in GroupMaps /\ DOMAIN WithGroup(m, g) = DOMAIN m \cup {g}
          /\ \A h \in DOMAIN m : WithGroup(m, g)[h] = m[h]
          /\ WithGroup(m, g)[g] = {}
      BY <3>1, <3>3, WithGroupFacts
    <3> QED BY <2>4, <3>2, <3>4
  <2>6. memory' = [memory EXCEPT ![u] = r]
    BY <1>10, <2>4
  <2>7. /\ memory' \in [Users -> GroupMaps]
        /\ \A a \in Users : memory'[a] = IF a = u THEN r ELSE memory[a]
    BY <2>3, <2>5, <2>6
  <2>8. /\ groups' \in [Users -> SUBSET Groups] /\ \A a \in Users : groups[a] \subseteq groups'[a]
    BY <1>10, <2>2, <2>3
  <2>9. GroupTypes' /\ RowTypes'
    BY <1>1, <1>2, <2>3, <2>8 DEF GroupTypes, RowTypes, Types, Stores
  <2>10. Memories'
    BY <1>1, <1>2, <2>3, <2>5, <2>7 DEF Types, Memories
  <2>11. Singles'
    <3>1. ASSUME NEW a \in Users, NEW b \in Users PROVE Single(memory'[a], b)
      <4>1. Single(memory[a], b)
        BY <1>2 DEF Singles
      <4> QED BY <2>5, <2>7, <4>1 DEF Single
    <3> QED BY <3>1 DEF Singles
  <2>12. Matches'
    <3>1. ASSUME NEW a \in Users, online[a]
          PROVE  InMadeGroups(a)' /\ InFriends(a)' /\ InMemory(a)'
      <4>1. InMadeGroups(a) /\ InFriends(a) /\ InMemory(a)
        BY <3>1 DEF IInv, Matches
      <4>2. CASE a # u
        <5>1. memory'[a] = memory[a]
          BY <2>7, <4>2
        <5> QED BY <1>1, <1>3, <4>1, <5>1 DEF InMadeGroups, InFriends, InMemory
      <4>3. CASE a = u
        <5>1. memory'[a] = r
          BY <2>7, <4>3
        <5>2. \A h \in DOMAIN r : \A b \in r[h] : h \in DOMAIN memory[a] /\ b \in memory[a][h]
          BY <2>5, <4>3
        <5>3. \A h \in DOMAIN memory[a] : h \in DOMAIN r /\ r[h] = memory[a][h]
          BY <2>5, <4>3
        <5>4. InMadeGroups(a)'
          BY <1>1, <4>1, <5>1, <5>2 DEF InMadeGroups
        <5>5. \A b \in Users : HasFriend(r, b) => HasFriend(memory[a], b)
          BY <5>2 DEF HasFriend, FriendGroups
        <5>6. InFriends(a)'
          BY <1>1, <1>3, <4>1, <5>1, <5>5 DEF InFriends
        <5>7. InMemory(a)'
          BY <1>1, <1>3, <4>1, <5>1, <5>3 DEF InMemory
        <5> QED BY <5>4, <5>6, <5>7
      <4> QED BY <4>2, <4>3
    <3> QED BY <1>1, <3>1 DEF Matches
  <2>13. Answered(toClient')
    <3>1. PICK p : p = [type |-> "created", group |-> g, ok |-> TRUE]
      OBVIOUS
    <3>2. p \in Answers(u)
      BY <2>2, <3>1 DEF Answers
    <3> QED BY <1>2, <1>10, <3>1, <3>2, SentFacts
  <2> QED BY <1>5, <2>9, <2>10, <2>11, <2>12, <2>13
<1> QED BY <1>8, <1>9, <1>10

\* A group that is gone from memory: who was in no other was in it.
LEMMA GroupGone ==
  ASSUME IMContactsAssumption, IInv, NEW u \in Users, NEW g \in Made,
         memory' = [memory EXCEPT ![u] = WithoutGroup(@, g)],
         UNCHANGED <<online>>
  PROVE  /\ Memories' /\ Singles'
         /\ \A a \in Users : a # u => memory'[a] = memory[a]
         /\ DOMAIN memory'[u] = DOMAIN memory[u] \ {g}
         /\ \A h \in DOMAIN memory'[u] : memory'[u][h] = memory[u][h]
         /\ \A b \in Users : HasFriend(memory'[u], b) =>
              \E h \in DOMAIN memory[u] \ {g} : b \in memory[u][h] /\ HasFriend(memory[u], b)
<1>1. /\ memory \in [Users -> GroupMaps] /\ g \notin DOMAIN DefaultGroups
      /\ \A a \in Users : DOMAIN DefaultGroups \subseteq DOMAIN memory[a]
  BY Numbers DEF IInv, Types, Memories
<1>2. PICK r : r = WithoutGroup(memory[u], g)
  OBVIOUS
<1>3. /\ r \in GroupMaps /\ DOMAIN r = DOMAIN memory[u] \ {g}
      /\ \A h \in DOMAIN memory[u] \ {g} : r[h] = memory[u][h]
  <2>1. memory[u] \in GroupMaps
    BY <1>1
  <2> QED BY <1>2, <2>1, WithoutGroupFacts
<1>4. memory' = [memory EXCEPT ![u] = r]
  BY <1>2
<1>5. /\ memory' \in [Users -> GroupMaps]
      /\ \A a \in Users : memory'[a] = IF a = u THEN r ELSE memory[a]
  BY <1>1, <1>3, <1>4
<1>6. Memories'
  BY <1>1, <1>3, <1>5 DEF IInv, Types, Memories
<1>7. Singles'
  <2>1. ASSUME NEW a \in Users, NEW b \in Users PROVE Single(memory'[a], b)
    <3>1. Single(memory[a], b)
      BY DEF IInv, Singles
    <3> QED BY <1>3, <1>5, <3>1 DEF Single
  <2> QED BY <2>1 DEF Singles
<1>8. \A b \in Users : HasFriend(r, b) =>
        \E h \in DOMAIN memory[u] \ {g} : b \in memory[u][h] /\ HasFriend(memory[u], b)
  BY <1>3 DEF HasFriend, FriendGroups
<1> QED BY <1>3, <1>5, <1>6, <1>7, <1>8

\* The members of the group lose their rows; who is a friend by another group has none any
\* more either, then he has fallen, or keeps it.
LEMMA HandleDeleteGroupStep ==
  ASSUME IMContactsAssumption, IInv, NEW u \in Users, HandleDeleteGroup(u)
  PROVE  IInv'
<1>1. /\ toServer[u] # <<>> /\ Head(toServer[u]).type = "drop" /\ toServer' = Taken(u)
      /\ UNCHANGED <<apply, online, clients, left, waiting, renamed>>
  BY DEF HandleDeleteGroup
<1>2. Types /\ Sessions /\ Singles /\ Answered(toClient)
  BY DEF IInv, Types, Wires, Answered
<1>3. PICK g \in Made : g = Head(toServer[u]).group
  BY <1>1, <1>2, HeadFacts, RequestFacts
<1>4. PICK ok \in BOOLEAN : ok = (g \in DOMAIN memory[u])
  <2>1. (g \in DOMAIN memory[u]) \in BOOLEAN
    OBVIOUS
  <2> QED BY <2>1, Zenon
<1>5. /\ toClient' = Sent(toClient, u, [type |-> "dropped", group |-> g, ok |-> ok])
      /\ IF ok
         THEN /\ groups' = [groups EXCEPT ![u] = @ \ {g}]
              /\ row' = [row EXCEPT ![u] =
                   [c \in Users |-> IF row[u][c] = g THEN NoGroup ELSE row[u][c]]]
              /\ memory' = [memory EXCEPT ![u] = WithoutGroup(@, g)]
              /\ fallen' = fallen \cup ({u} \X { c \in Users : row[u][c] = g })
         ELSE UNCHANGED <<groups, row, memory, fallen>>
  BY <1>3, <1>4 DEF HandleDeleteGroup
<1>6. Answered(toClient')
  <2>1. PICK p : p = [type |-> "dropped", group |-> g, ok |-> ok]
    OBVIOUS
  <2>2. p \in Answers(u)
    BY <2>1 DEF Answers
  <2> QED BY <1>2, <1>5, <2>1, <2>2, SentFacts
<1>7. ApplyTypes' /\ Histories' /\ Waits'
  BY <1>1, <1>2, SameStores, SameWaits
<1>8. CASE ~ok
  <2>1. UNCHANGED <<groups, row, memory, fallen>>
    BY <1>5, <1>8
  <2> QED BY <1>1, <1>2, <1>6, <1>7, <2>1, SameStores, ServerKeeps, HandlerKeeps
<1>9. CASE ok
  <2>1. /\ groups' = [groups EXCEPT ![u] = @ \ {g}]
        /\ row' = [row EXCEPT ![u] =
             [c \in Users |-> IF row[u][c] = g THEN NoGroup ELSE row[u][c]]]
        /\ memory' = [memory EXCEPT ![u] = WithoutGroup(@, g)]
        /\ fallen' = fallen \cup ({u} \X { c \in Users : row[u][c] = g })
    BY <1>5, <1>9
  <2>2. /\ groups \in [Users -> SUBSET Groups] /\ \A a \in Users : Friends \in groups[a]
        /\ row \in [Users -> [Users -> Groups \cup {NoGroup}]]
        /\ \A a \in Users : row[a][a] = NoGroup
        /\ \A a, b \in Users : row[a][b] # NoGroup => row[a][b] \in groups[a]
        /\ g # Friends /\ g # NoGroup
    <3>1. g # Friends /\ g # NoGroup
      BY Numbers
    <3> QED BY <1>2, <3>1 DEF Types, Stores
  <2>3. /\ Memories' /\ Singles'
        /\ \A a \in Users : a # u => memory'[a] = memory[a]
        /\ DOMAIN memory'[u] = DOMAIN memory[u] \ {g}
        /\ \A h \in DOMAIN memory'[u] : memory'[u][h] = memory[u][h]
        /\ \A b \in Users : HasFriend(memory'[u], b) =>
             \E h \in DOMAIN memory[u] \ {g} : b \in memory[u][h] /\ HasFriend(memory[u], b)
    BY <1>1, <2>1, GroupGone
  <2>4. /\ row' \in [Users -> [Users -> Groups \cup {NoGroup}]]
        /\ \A a, b \in Users : row'[a][b] = IF a = u /\ row[a][b] = g THEN NoGroup ELSE row[a][b]
    BY <2>1, <2>2
  <2>5. /\ groups' \in [Users -> SUBSET Groups]
        /\ \A a \in Users : groups'[a] = IF a = u THEN groups[a] \ {g} ELSE groups[a]
    BY <2>1, <2>2
  <2>6. GroupTypes'
    BY <2>2, <2>5 DEF GroupTypes
  <2>7. RowTypes'
    BY <2>2, <2>4, <2>5 DEF RowTypes
  <2>8. \A a, b \in Users :
          <<a, b>> \in fallen' <=> <<a, b>> \in fallen \/ (a = u /\ row[a][b] = g)
    BY <2>1
  <2>9. FriendshipIsMutual'
    <3>1. ASSUME NEW a \in Users, NEW b \in Users, row'[a][b] # NoGroup, row'[b][a] = NoGroup
          PROVE  <<b, a>> \in left \cup fallen'
      <4>1. row[a][b] # NoGroup
        BY <2>4, <3>1
      <4>2. CASE row[b][a] = NoGroup
        <5>1. <<b, a>> \in left \cup fallen
          BY <4>1, <4>2 DEF IInv, FriendshipIsMutual
        <5> QED BY <2>8, <5>1
      <4>3. CASE row[b][a] # NoGroup
        BY <2>4, <2>8, <3>1, <4>3
      <4> QED BY <4>2, <4>3
    <3> QED BY <1>1, <3>1 DEF FriendshipIsMutual
  <2>10. Matches'
    <3>1. ASSUME NEW a \in Users, online[a]
          PROVE  InMadeGroups(a)' /\ InFriends(a)' /\ InMemory(a)'
      <4>1. InMadeGroups(a) /\ InFriends(a) /\ InMemory(a)
        BY <3>1 DEF IInv, Matches
      <4>2. CASE a # u
        <5>1. /\ memory'[a] = memory[a] /\ \A b \in Users : row'[a][b] = row[a][b]
              /\ \A b \in Users : <<a, b>> \in fallen => <<a, b>> \in fallen'
          BY <2>3, <2>4, <2>8, <4>2
        <5>2. \A h \in DOMAIN memory[a] : memory[a][h] \subseteq Users
          BY MapFacts DEF IInv, Types, Memories
        <5> QED BY <1>1, <4>1, <5>1, <5>2 DEF InMadeGroups, InFriends, InMemory
      <4>3. CASE a = u
        <5>1. \A h \in DOMAIN memory[a] : memory[a][h] \subseteq Users
          BY MapFacts DEF IInv, Types, Memories
        <5>2. InMadeGroups(a)'
          BY <2>3, <2>4, <4>1, <4>3, <5>1 DEF InMadeGroups
        <5>3. InFriends(a)'
          BY <2>3, <2>4, <2>8, <4>1, <4>3 DEF InFriends
        <5>4. ASSUME NEW b \in Users, row'[a][b] # NoGroup
              PROVE  \/ \E h \in DOMAIN memory'[a] : b \in memory'[a][h]
                     \/ row'[a][b] \in renamed[a]
          <6>1. row'[a][b] = row[a][b] /\ row[a][b] # g /\ row[a][b] # NoGroup
            BY <2>4, <4>3, <5>4
          <6>2. CASE row[a][b] \in renamed[a]
            BY <6>1, <6>2
          <6>3. CASE \E h \in DOMAIN memory[a] : b \in memory[a][h]
            <7>1. PICK h \in DOMAIN memory[a] : b \in memory[a][h]
              BY <6>3
            <7>2. h # g
              <8>1. g \notin DOMAIN DefaultGroups
                BY Numbers
              <8> QED BY <4>1, <6>1, <7>1, <8>1 DEF InMadeGroups
            <7> QED BY <2>3, <4>3, <7>1, <7>2
          <6> QED BY <4>1, <6>1, <6>2, <6>3 DEF InMemory
        <5>5. InMemory(a)'
          BY <1>1, <5>4 DEF InMemory
        <5> QED BY <5>2, <5>3, <5>5
      <4> QED BY <4>2, <4>3
    <3> QED BY <1>1, <3>1 DEF Matches
  <2> QED BY <1>1, <1>6, <1>7, <2>3, <2>6, <2>7, <2>9, <2>10, HandlerKeeps
<1> QED BY <1>4, <1>8, <1>9

\* Who is lost to the server's memory by a new name of his group has a row of that group.
LEMMA HandleRenameStep ==
  ASSUME IMContactsAssumption, IInv, NEW u \in Users, HandleRename(u)
  PROVE  IInv'
<1>1. /\ toServer[u] # <<>> /\ Head(toServer[u]).type = "rename" /\ toServer' = Taken(u)
      /\ UNCHANGED <<groups, row, apply, online, clients, toClient, left, fallen, waiting>>
  BY DEF HandleRename, database
<1>2. Types /\ Sessions /\ Singles
  BY DEF IInv
<1>3. PICK g \in Made : g = Head(toServer[u]).group
  BY <1>1, <1>2, HeadFacts, RequestFacts
<1>4. GroupTypes' /\ RowTypes' /\ ApplyTypes' /\ Answered(toClient') /\ Waits'
  BY <1>1, <1>2, SameStores, SameWaits
<1>5. FriendshipIsMutual'
  BY <1>1 DEF IInv, FriendshipIsMutual
<1>6. CASE UNCHANGED <<memory, renamed>>
  BY <1>1, <1>2, <1>4, <1>5, <1>6, SameStores, ServerKeeps, HandlerKeeps
<1>7. CASE /\ memory' = [memory EXCEPT ![u] = WithoutGroup(@, g)]
           /\ renamed' = [renamed EXCEPT ![u] = @ \cup {g}]
  <2>1. /\ Memories' /\ Singles'
        /\ \A a \in Users : a # u => memory'[a] = memory[a]
        /\ DOMAIN memory'[u] = DOMAIN memory[u] \ {g}
        /\ \A h \in DOMAIN memory'[u] : memory'[u][h] = memory[u][h]
        /\ \A b \in Users : HasFriend(memory'[u], b) =>
             \E h \in DOMAIN memory[u] \ {g} : b \in memory[u][h] /\ HasFriend(memory[u], b)
    BY <1>1, <1>7, GroupGone
  <2>2. g \in Groups /\ g \notin DOMAIN DefaultGroups
    BY Numbers
  <2>3. /\ renamed' \in [Users -> SUBSET Groups]
        /\ \A a \in Users : renamed'[a] = IF a = u THEN renamed[a] \cup {g} ELSE renamed[a]
    BY <1>2, <1>7, <2>2 DEF Types, Histories
  <2>4. Histories'
    BY <1>1, <1>2, <2>3 DEF Types, Histories
  <2>5. Matches'
    <3>1. ASSUME NEW a \in Users, online[a]
          PROVE  InMadeGroups(a)' /\ InFriends(a)' /\ InMemory(a)'
      <4>1. InMadeGroups(a) /\ InFriends(a) /\ InMemory(a)
        BY <3>1 DEF IInv, Matches
      <4>2. CASE a # u
        BY <1>1, <2>1, <2>3, <4>1, <4>2 DEF InMadeGroups, InFriends, InMemory
      <4>3. CASE a = u
        <5>1. InMadeGroups(a)'
          BY <1>1, <2>1, <4>1, <4>3 DEF InMadeGroups
        <5>2. InFriends(a)'
          BY <1>1, <2>1, <4>1, <4>3 DEF InFriends
        <5>3. ASSUME NEW b \in Users, row[a][b] # NoGroup
              PROVE  \/ \E h \in DOMAIN memory'[a] : b \in memory'[a][h]
                     \/ row[a][b] \in renamed'[a]
          <6>1. CASE row[a][b] \in renamed[a]
            BY <2>3, <6>1
          <6>2. CASE \E h \in DOMAIN memory[a] : b \in memory[a][h]
            <7>1. PICK h \in DOMAIN memory[a] : b \in memory[a][h]
              BY <6>2
            <7>2. CASE h = g
              BY <2>2, <2>3, <4>1, <4>3, <5>3, <7>1, <7>2 DEF InMadeGroups
            <7>3. CASE h # g
              BY <2>1, <4>3, <7>1, <7>3
            <7> QED BY <7>2, <7>3
          <6> QED BY <4>1, <5>3, <6>1, <6>2 DEF InMemory
        <5>4. InMemory(a)'
          BY <1>1, <5>3 DEF InMemory
        <5> QED BY <5>1, <5>2, <5>4
      <4> QED BY <4>2, <4>3
    <3> QED BY <1>1, <3>1 DEF Matches
  <2> QED BY <1>1, <1>4, <1>5, <2>1, <2>4, <2>5, HandlerKeeps
<1> QED BY <1>3, <1>6, <1>7 DEF HandleRename, Renamed

\* The end of a connection is the last that is heard of it.
LEMMA HandleGoneStep ==
  ASSUME IMContactsAssumption, IInv, NEW u \in Users, HandleGone(u)
  PROVE  IInv'
<1>1. /\ toServer[u] # <<>> /\ Head(toServer[u]).type = "gone" /\ toServer' = Taken(u)
      /\ online' = [online EXCEPT ![u] = FALSE]
      /\ UNCHANGED <<groups, row, apply, memory, linked, mine, seen, asked, added, toClient,
                     left, fallen, waiting, renamed>>
  BY DEF HandleGone, database, clients, history
<1>2. Types /\ Sessions
  BY DEF IInv
<1>3. /\ online' \in [Users -> BOOLEAN] /\ ~online'[u]
      /\ \A a \in Users : a # u => online'[a] = online[a]
  BY <1>1, <1>2 DEF Types, Memories
<1>4. /\ Taken(u) = [w \in Users |-> Taken(u)[w]]
      /\ \A w \in Users : Taken(u)[w] \in Seq(Requests(w))
      /\ \A w \in Users : w # u => Taken(u)[w] = toServer[w]
      /\ Taken(u)[u] = Tail(toServer[u]) /\ Head(toServer[u]) = toServer[u][1]
  BY <1>1, <1>2, TakenFacts DEF Types
<1>5. toServer'[u] = <<>> /\ ~linked[u]
  <2>1. PICK q : q = toServer[u]
    OBVIOUS
  <2>2. q \in Seq(Requests(u)) /\ q # <<>> /\ GoneLast(q)
    BY <1>1, <1>2, <2>1 DEF Types, Wires, Sessions
  <2>3. Len(q) \in Nat \ {0} /\ q[1].type = "gone" /\ 1 \in 1 .. Len(q)
    BY <1>1, <1>4, <2>1, <2>2
  <2>4. Len(q) = 1
    BY <2>2, <2>3 DEF GoneLast
  <2>5. Tail(q) = <<>>
    <3>1. Tail(q) \in Seq(Requests(u)) /\ Len(Tail(q)) = 0
      BY <2>2, <2>4, TailFacts
    <3> QED BY <3>1, EmptySeq
  <2>6. GoneIn(q)
    BY <2>3 DEF GoneIn
  <2> QED BY <1>1, <1>2, <1>4, <2>1, <2>5, <2>6 DEF Sessions
<1>6. Wires'
  BY <1>1, <1>2, <1>4 DEF Types, Wires
<1>7. Sessions'
  <2>1. GoneLast(<<>>)
    BY DEF GoneLast
  <2> QED BY <1>1, <1>2, <1>3, <1>4, <1>5, <2>1 DEF Sessions
<1>8. Stores' /\ Memories' /\ Programs' /\ Histories'
  BY <1>1, <1>2, <1>3 DEF Types, Stores, Memories, Programs, Histories
<1>9. Singles' /\ FriendshipIsMutual'
  BY <1>1 DEF IInv, Singles, FriendshipIsMutual
<1>10. Matches'
  <2>1. \A a \in Users : online'[a] => online[a]
    BY <1>3
  <2> QED BY <1>1, <2>1 DEF IInv, Matches, InMadeGroups, InFriends, InMemory
<1>11. Waits'
  BY <1>1, <1>3 DEF IInv, Waits
<1> QED BY <1>6, <1>7, <1>8, <1>9, <1>10, <1>11 DEF IInv, Types

-----------------------------------------------------------------------------
(* The login                                                               *)

LEMMA NewsFacts ==
  ASSUME IMContactsAssumption, Types, NEW u \in Users
  PROVE  News(u) \subseteq Answers(u) /\ Cardinality(News(u)) \in Nat
<1>1. \A v \in Users : apply[u][v] # NoApply \/ apply[v][u] # NoApply => v \in Others(u)
  BY DEF Types, Stores, Others
<1>2. NoApply.result = "none"
  BY DEF NoApply
<1>3. PICK A : A = { v \in Users :
        \/ apply[u][v].result = "accepted" /\ apply[u][v].receiverRead
        \/ apply[v][u].result = "accepted" /\ ~apply[v][u].receiverRead }
  OBVIOUS
<1>4. PICK D : D = { v \in Users : apply[u][v].result = "denied" /\ apply[u][v].receiverRead }
  OBVIOUS
<1>5. PICK R : R = { v \in Users : apply[v][u].result = "unknown" /\ ~apply[v][u].receiverRead }
  OBVIOUS
<1>6. A \subseteq Others(u) /\ D \subseteq Others(u) /\ R \subseteq Others(u)
  BY <1>1, <1>2, <1>3, <1>4, <1>5
<1>7. PICK m : m = Loaded(u)
  OBVIOUS
<1>8. PICK NA : NA = { Result(c, GroupOf(m, c), TRUE) : c \in A }
  OBVIOUS
<1>9. PICK ND : ND = { [type |-> "refused", contact |-> c] : c \in D }
  OBVIOUS
<1>10. PICK NR : NR = { [type |-> "request", contact |-> c] : c \in R }
  OBVIOUS
<1>11. News(u) = NA \cup ND \cup NR
  BY <1>3, <1>4, <1>5, <1>7, <1>8, <1>9, <1>10 DEF News
<1>12. NA \subseteq Answers(u)
  <2>1. m \in GroupMaps
    BY <1>7, LoadedFacts DEF Types
  <2>2. ASSUME NEW c \in A PROVE Result(c, GroupOf(m, c), TRUE) \in Answers(u)
    <3>1. c \in Others(u) /\ GroupOf(m, c) \in Groups
      BY <1>6, <2>1, GroupOfType
    <3>2. PICK g \in Groups : g = GroupOf(m, c)
      BY <3>1
    <3> QED BY <3>1, <3>2 DEF Answers, Result
  <2> QED BY <1>8, <2>2
<1>13. ND \subseteq Answers(u) /\ NR \subseteq Answers(u)
  BY <1>6, <1>9, <1>10 DEF Answers
<1>14. IsFiniteSet(Others(u))
  BY FS_Subset DEF IMContactsAssumption, Others
<1>15. IsFiniteSet(A) /\ IsFiniteSet(D) /\ IsFiniteSet(R)
  BY <1>6, <1>14, FS_Subset
<1>16. IsFiniteSet(NA)
  <2>1. PICK f : f = [c \in A |-> Result(c, GroupOf(m, c), TRUE)]
    OBVIOUS
  <2>2. f \in Surjection(A, NA)
    BY <1>8, <2>1 DEF Surjection
  <2> QED BY <1>15, <2>2, FS_Surjection
<1>17. IsFiniteSet(ND)
  <2>1. PICK f : f = [c \in D |-> [type |-> "refused", contact |-> c]]
    OBVIOUS
  <2>2. f \in Surjection(D, ND)
    BY <1>9, <2>1 DEF Surjection
  <2> QED BY <1>15, <2>2, FS_Surjection
<1>18. IsFiniteSet(NR)
  <2>1. PICK f : f = [c \in R |-> [type |-> "request", contact |-> c]]
    OBVIOUS
  <2>2. f \in Surjection(R, NR)
    BY <1>10, <2>1 DEF Surjection
  <2> QED BY <1>15, <2>2, FS_Surjection
<1>19. IsFiniteSet(NA \cup ND \cup NR)
  <2>1. IsFiniteSet(NA \cup ND)
    BY <1>16, <1>17, FS_Union
  <2> QED BY <1>18, <2>1, FS_Union
<1> QED BY <1>11, <1>12, <1>13, <1>19, FS_CardinalityType

LEMMA ReadByFacts ==
  ASSUME Types, NEW u \in Users
  PROVE  /\ ReadBy(u) \in [Users -> [Users -> Applications]]
         /\ \A a \in Users : ReadBy(u)[a][a] = NoApply
         /\ \A a, b \in Users :
              b # u /\ apply[a][b].result = "unknown" /\ ~apply[a][b].receiverRead =>
                ReadBy(u)[a][b].result = "unknown" /\ ~ReadBy(u)[a][b].receiverRead
<1>1. /\ apply \in [Users -> [Users -> Applications]] /\ \A a \in Users : apply[a][a] = NoApply
      /\ NoApply.result = "none" /\ NoApply \in Applications
  BY AppliedFacts DEF Types, Stores
<1>2. \A a, b \in Users : ReadBy(u)[a][b] =
        IF apply[a][b] = NoApply
           \/ ((apply[a][b].senderRead \/ a = u) /\ (apply[a][b].receiverRead \/ b = u))
        THEN NoApply
        ELSE Applied(apply[a][b].result, apply[a][b].senderRead \/ a = u,
                     apply[a][b].receiverRead \/ b = u)
  BY DEF ReadBy
<1>3. ASSUME NEW a \in Users, NEW b \in Users
      PROVE  /\ ReadBy(u)[a][b] \in Applications
             /\ b # u /\ apply[a][b].result = "unknown" /\ ~apply[a][b].receiverRead =>
                  ReadBy(u)[a][b].result = "unknown" /\ ~ReadBy(u)[a][b].receiverRead
  <2>1. PICK t \in Applications : t = apply[a][b]
    BY <1>1
  <2>2. PICK sr \in BOOLEAN : sr = (t.senderRead \/ a = u)
    <3>1. (t.senderRead \/ a = u) \in BOOLEAN
      OBVIOUS
    <3> QED BY <3>1, Zenon
  <2>3. PICK rr \in BOOLEAN : rr = (t.receiverRead \/ b = u)
    <3>1. (t.receiverRead \/ b = u) \in BOOLEAN
      OBVIOUS
    <3> QED BY <3>1, Zenon
  <2>4. ReadBy(u)[a][b] = IF t = NoApply \/ (sr /\ rr) THEN NoApply ELSE Applied(t.result, sr, rr)
    BY <1>2, <2>1, <2>2, <2>3, Zenon
  <2>5. t # NoApply => t.result \in {"unknown", "accepted", "denied"}
    BY <2>1 DEF Applications
  <2>6. CASE t = NoApply
    BY <1>1, <2>1, <2>4, <2>6
  <2>7. CASE t # NoApply /\ sr /\ rr
    <3>1. b # u => t.receiverRead
      BY <2>3, <2>7, Zenon
    <3> QED BY <1>1, <2>1, <2>4, <2>7, <3>1
  <2>8. CASE t # NoApply /\ ~(sr /\ rr)
    <3>1. ReadBy(u)[a][b] = Applied(t.result, sr, rr)
      BY <2>4, <2>8
    <3>2. b # u /\ ~t.receiverRead => ~rr
      BY <2>3, Zenon
    <3>3. /\ Applied(t.result, sr, rr) \in Applications
          /\ Applied(t.result, sr, rr).result = t.result
          /\ Applied(t.result, sr, rr).receiverRead = rr
      BY <2>5, <2>8, AppliedFacts
    <3> QED BY <2>1, <3>1, <3>2, <3>3
  <2> QED BY <2>6, <2>7, <2>8
<1>4. ReadBy(u) \in [Users -> [Users -> Applications]]
  BY <1>3 DEF ReadBy
<1>5. \A a \in Users : ReadBy(u)[a][a] = NoApply
  BY <1>1, <1>2
<1> QED BY <1>3, <1>4, <1>5

LEMMA LoginStep ==
  ASSUME IMContactsAssumption, IInv, NEW u \in Users, Login(u)
  PROVE  IInv'
<1>1. /\ ~online[u] /\ toServer[u] = <<>>
      /\ online' = [online EXCEPT ![u] = TRUE] /\ linked' = [linked EXCEPT ![u] = TRUE]
      /\ memory' = [memory EXCEPT ![u] = Loaded(u)]
      /\ renamed' = [renamed EXCEPT ![u] = {}]
      /\ apply' = ReadBy(u) /\ waiting' = { w \in waiting : w[2] # u }
      /\ UNCHANGED <<groups, row, asked, added, toServer, left, fallen>>
  BY DEF Login
<1>2. Types /\ Sessions
  BY DEF IInv
<1>3. PICK m : m = Loaded(u)
  OBVIOUS
<1>4. /\ m \in GroupMaps /\ DOMAIN DefaultGroups \subseteq DOMAIN m
      /\ \A g \in DOMAIN m : \A c \in Users : c \in m[g] <=> row[u][c] = g
      /\ \A c \in Users : row[u][c] # NoGroup => row[u][c] \in DOMAIN m
  BY <1>2, <1>3, LoadedFacts DEF Types
<1>5. /\ online' \in [Users -> BOOLEAN] /\ online'[u]
      /\ \A a \in Users : a # u => online'[a] = online[a]
      /\ memory' \in [Users -> GroupMaps]
      /\ \A a \in Users : memory'[a] = IF a = u THEN m ELSE memory[a]
      /\ linked' \in [Users -> BOOLEAN] /\ \A a \in Users : a # u => linked'[a] = linked[a]
      /\ renamed' \in [Users -> SUBSET Groups]
      /\ \A a \in Users : renamed'[a] = IF a = u THEN {} ELSE renamed[a]
  BY <1>1, <1>2, <1>3, <1>4 DEF Types, Memories, Programs, Histories
<1>6. Stores'
  BY <1>1, <1>2, ReadByFacts DEF Types, Stores
<1>7. Memories'
  BY <1>2, <1>4, <1>5 DEF Types, Memories
<1>8. PICK known : known = { c \in Users : seen[u][c] # NoGroup \/ row[u][c] # NoGroup }
  OBVIOUS
<1>9. Programs'
  <2>1. seen' = [seen EXCEPT ![u] =
          [c \in Users |-> IF c \notin known THEN NoGroup ELSE GroupOf(m, c)]]
    BY <1>3, <1>8 DEF Login
  <2>2. \A c \in Users : GroupOf(m, c) \in Groups
    BY <1>4, GroupOfType
  <2>3. PICK s : s = [c \in Users |-> IF c \notin known THEN NoGroup ELSE GroupOf(m, c)]
    OBVIOUS
  <2>4. s \in [Users -> Groups \cup {NoGroup}]
    BY <2>2, <2>3
  <2>5. u \notin known
    BY <1>2, <1>8 DEF Types, Stores, Programs
  <2>6. s[u] = NoGroup
    BY <2>3, <2>5
  <2>7. seen' = [seen EXCEPT ![u] = s]
    BY <2>1, <2>3
  <2>8. /\ seen' \in [Users -> [Users -> Groups \cup {NoGroup}]]
        /\ \A w \in Users : seen'[w][w] = NoGroup
    BY <1>2, <2>4, <2>6, <2>7 DEF Types, Programs
  <2>9. PICK n : n = [m EXCEPT ![Strangers] = { c \in known : Holding(m, c) = {} }]
    OBVIOUS
  <2>10. n \in GroupMaps
    <3>1. /\ m = [g \in DOMAIN m |-> m[g]] /\ DOMAIN m \subseteq Groups
          /\ \A g \in DOMAIN m : m[g] \subseteq Users
      BY <1>4, MapFacts
    <3>2. /\ DOMAIN n = DOMAIN m /\ n = [g \in DOMAIN n |-> n[g]]
          /\ \A g \in DOMAIN m : n[g] = m[g] \/ n[g] = { c \in known : Holding(m, c) = {} }
      BY <2>9, <3>1
    <3>3. \A g \in DOMAIN n : n[g] \subseteq Users
      BY <1>8, <3>1, <3>2
    <3> QED BY <3>1, <3>2, <3>3, MapIs
  <2>11. mine' = [mine EXCEPT ![u] = n]
    BY <1>3, <1>8, <2>9 DEF Login
  <2>12. mine' \in [Users -> GroupMaps]
    BY <1>2, <2>10, <2>11 DEF Types, Programs
  <2> QED BY <1>1, <1>2, <1>5, <2>8, <2>12 DEF Types, Programs
<1>10. Wires'
  <2>1. PICK order \in [1 .. Cardinality(News(u)) -> News(u)] :
          toClient' = [toClient EXCEPT ![u] = order]
    BY DEF Login
  <2>2. PICK k \in Nat : k = Cardinality(News(u))
    BY <1>2, NewsFacts
  <2>3. News(u) \subseteq Answers(u)
    BY <1>2, NewsFacts
  <2>4. order \in [1 .. k -> Answers(u)]
    BY <2>1, <2>2, <2>3
  <2>5. order \in Seq(Answers(u))
    BY <2>4, SeqDef
  <2>6. /\ toClient' = [w \in Users |-> toClient'[w]]
        /\ \A w \in Users : toClient'[w] = IF w = u THEN order ELSE toClient[w]
    BY <1>2, <2>1 DEF Types, Wires
  <2> QED BY <1>1, <1>2, <2>5, <2>6 DEF Types, Wires
<1>11. Histories'
  BY <1>1, <1>2, <1>5 DEF Types, Histories
<1>12. Sessions'
  <2>1. ~GoneIn(<<>>)
    BY DEF GoneIn
  <2> QED BY <1>1, <1>2, <1>5, <2>1 DEF Sessions
<1>13. Singles'
  <2>1. ASSUME NEW a \in Users, NEW b \in Users PROVE Single(memory'[a], b)
    <3>1. Single(memory[a], b)
      BY DEF IInv, Singles
    <3> QED BY <1>4, <1>5, <3>1 DEF Single
  <2> QED BY <2>1 DEF Singles
<1>14. Matches'
  <2>1. ASSUME NEW a \in Users, online'[a]
        PROVE  InMadeGroups(a)' /\ InFriends(a)' /\ InMemory(a)'
    <3>1. CASE a # u
      <4>1. InMadeGroups(a) /\ InFriends(a) /\ InMemory(a)
        BY <1>5, <2>1, <3>1 DEF IInv, Matches
      <4> QED BY <1>1, <1>5, <3>1, <4>1 DEF InMadeGroups, InFriends, InMemory
    <3>2. CASE a = u
      <4>1. /\ memory'[a] = m /\ DOMAIN m \subseteq Groups /\ NoGroup \notin Groups
            /\ \A g \in DOMAIN m : m[g] \subseteq Users
        BY <1>4, <1>5, <3>2, MapFacts, Numbers
      <4>2. InMadeGroups(a)'
        BY <1>1, <1>4, <3>2, <4>1 DEF InMadeGroups
      <4>3. InFriends(a)'
        BY <1>1, <1>4, <3>2, <4>1 DEF InFriends, HasFriend, FriendGroups
      <4>4. InMemory(a)'
        BY <1>1, <1>4, <3>2, <4>1 DEF InMemory
      <4> QED BY <4>2, <4>3, <4>4
    <3> QED BY <3>1, <3>2
  <2> QED BY <2>1 DEF Matches
<1>15. FriendshipIsMutual'
  BY <1>1 DEF IInv, FriendshipIsMutual
<1>16. Waits'
  <2>1. ASSUME NEW a \in Users, NEW b \in Users, <<a, b>> \in waiting'
        PROVE  ~online'[b] /\ apply'[a][b].result = "unknown" /\ ~apply'[a][b].receiverRead
    <3>1. <<a, b>> \in waiting /\ b # u
      BY <1>1, <2>1
    <3>2. ~online[b] /\ apply[a][b].result = "unknown" /\ ~apply[a][b].receiverRead
      BY <3>1 DEF IInv, Waits
    <3> QED BY <1>1, <1>2, <1>5, <3>1, <3>2, ReadByFacts
  <2> QED BY <2>1 DEF Waits
<1> QED BY <1>6, <1>7, <1>9, <1>10, <1>11, <1>12, <1>13, <1>14, <1>15, <1>16 DEF IInv, Types

-----------------------------------------------------------------------------
(* The theorems                                                            *)

LEMMA InitIInv ==
  ASSUME IMContactsAssumption, Init
  PROVE  IInv
<1>1. /\ Friends \in Groups /\ Friends # NoGroup /\ DefaultGroups \in GroupMaps
      /\ \A g \in DOMAIN DefaultGroups : DefaultGroups[g] = {}
  BY Numbers, DefaultFacts
<1>2. /\ row \in [Users -> [Users -> Groups \cup {NoGroup}]]
      /\ \A u \in Users : row[u][u] = NoGroup
      /\ \A u, c \in Users : row[u][c] \in {Friends, NoGroup}
      /\ \A u, c \in Users : row[u][c] = NoGroup <=> row[c][u] = NoGroup
  BY <1>1 DEF Init
<1>3. Stores
  BY <1>1, <1>2 DEF Init, Stores, Applications
<1>4. Memories /\ Programs /\ Histories
  BY <1>1 DEF Init, Memories, Programs, Histories
<1>5. Wires
  <2>1. \A u \in Users : <<>> \in Seq(Requests(u)) /\ <<>> \in Seq(Answers(u))
    OBVIOUS
  <2> QED BY <2>1 DEF Init, Wires
<1>6. Sessions
  <2>1. GoneLast(<<>>)
    BY DEF GoneLast
  <2> QED BY <2>1 DEF Init, Sessions
<1>7. Singles
  BY <1>1 DEF Init, Singles, Single
<1>8. Matches /\ Waits
  BY DEF Init, Matches, Waits
<1>9. FriendshipIsMutual
  BY <1>2 DEF FriendshipIsMutual
<1> QED BY <1>3, <1>4, <1>5, <1>6, <1>7, <1>8, <1>9 DEF IInv, Types

LEMMA NextIInv ==
  ASSUME IMContactsAssumption, IInv, [Next]_vars
  PROVE  IInv'
<1>1. CASE UNCHANGED vars
  <2>1. UNCHANGED <<groups, row, apply, online, memory, linked, mine, seen, asked, added,
                    toServer, toClient, left, fallen, waiting, renamed>>
    BY <1>1 DEF vars, database, clients, history
  <2>2. Types' /\ Sessions'
    BY <2>1 DEF IInv, Types, Stores, Memories, Programs, Wires, Histories, Sessions
  <2> QED BY <2>1, <2>2 DEF IInv, Singles, Matches, InMadeGroups, InFriends, InMemory,
                            FriendshipIsMutual, Waits
<1>2. ASSUME NEW u \in Users, Login(u) PROVE IInv'
  BY <1>2, LoginStep
<1>3. ASSUME NEW u \in Users, Handle(u) PROVE IInv'
  BY <1>3, HandleAddStep, HandleResponseStep, HandleDeleteStep, HandleMoveStep,
     HandleCreateGroupStep, HandleDeleteGroupStep, HandleRenameStep, HandleGoneStep DEF Handle
<1>4. ASSUME NEW u \in Users, ClientStep(u) PROVE IInv'
  BY <1>4, ClientStepKeeps
<1> QED BY <1>1, <1>2, <1>3, <1>4 DEF Next, ClientStep

\* The invariant that the others follow from: what the server has in memory and in the
\* database of the contacts of a user who is online, and who is waiting for whom.
THEOREM ContactsHold ==
  ASSUME IMContactsAssumption
  PROVE  Spec => []IInv
<1>1. Init => IInv
  BY InitIInv
<1>2. IInv /\ [Next]_vars => IInv'
  BY NextIInv
<1> QED BY <1>1, <1>2, PTL DEF Spec

\* The tables, the users of the server and the programs are of their types; no UserInfo ever
\* misses a default group (ensureDefaultGroups()).
THEOREM TypesCorrect ==
  ASSUME IMContactsAssumption
  PROVE  Spec => []TypeOK
<1>1. ASSUME IInv PROVE TypeOK
  <2>1. Types
    BY <1>1 DEF IInv
  <2>2. \A a, b \in Users : apply[a][b].result \in {"none", "unknown", "accepted", "denied"}
    <3>1. \A t \in Applications : t.result \in {"none", "unknown", "accepted", "denied"}
      BY DEF Applications, NoApply
    <3> QED BY <2>1, <3>1 DEF Types, Stores
  <2>3. ASSUME NEW u \in Users, NEW i \in DOMAIN toServer[u]
        PROVE  toServer[u][i].type \in Packets
    <3>1. toServer[u] \in Seq(Requests(u))
      BY <2>1 DEF Types, Wires
    <3>2. toServer[u][i] \in Requests(u)
      BY <3>1
    <3> QED BY <3>2, RequestFacts
  <2> QED BY <2>1, <2>2, <2>3 DEF TypeOK, Types, Stores, Memories, Programs
<1> QED BY <1>1, ContactsHold, PTL

\* A contact is in one group at most in the server's memory, whatever the client and the
\* server thought of his old group (addNewContact(), moveContactToAnotherGroup()).
THEOREM InOneGroup ==
  ASSUME IMContactsAssumption
  PROVE  Spec => []OneGroupEach
<1>1. ASSUME IInv PROVE OneGroupEach
  <2>1. ASSUME NEW u \in Users, NEW c \in Users PROVE Cardinality(Holding(memory[u], c)) <= 1
    <3>1. \A g, h \in Holding(memory[u], c) : g = h
      BY <1>1 DEF IInv, Singles, Single, Holding
    <3>2. CASE Holding(memory[u], c) = {}
      BY <3>2, FS_EmptySet
    <3>3. CASE Holding(memory[u], c) # {}
      <4>1. PICK g : Holding(memory[u], c) = {g}
        BY <3>1, <3>3
      <4>2. Cardinality({g}) = 1
        BY FS_Singleton
      <4> QED BY <4>1, <4>2
    <3> QED BY <3>2, <3>3
  <2> QED BY <2>1 DEF OneGroupEach
<1> QED BY <1>1, ContactsHold, PTL

\* What the server has in memory of a user who is online is what the next login brings back,
\* but for groups that were deleted or renamed meanwhile (addContactForUser(), the handlers of
\* moves and deletions, setContactGroupsInfoString()).
THEOREM MemoryIsStored ==
  ASSUME IMContactsAssumption
  PROVE  Spec => []MemoryMatchesDatabase
<1>1. ASSUME IInv PROVE MemoryMatchesDatabase
  <2>1. ASSUME NEW u \in Users, NEW c \in Users, online[u]
        PROVE  /\ HasFriend(memory[u], c) => row[u][c] # NoGroup \/ <<u, c>> \in fallen
               /\ row[u][c] # NoGroup =>
                    Holding(memory[u], c) # {} \/ row[u][c] \in renamed[u]
    <3>1. InFriends(u) /\ InMemory(u)
      BY <1>1, <2>1 DEF IInv, Matches
    <3> QED BY <3>1, GroupOfFacts DEF InFriends, InMemory
  <2> QED BY <2>1 DEF MemoryMatchesDatabase
<1> QED BY <1>1, ContactsHold, PTL

\* Nobody is left with a contact who does not have him, unless that one deleted him, or a
\* group with him (addContactForUser(), sp_Contact_Delete, ON DELETE CASCADE).
THEOREM ContactsAreMutual ==
  ASSUME IMContactsAssumption
  PROVE  Spec => []FriendshipIsMutual
<1>1. IInv => FriendshipIsMutual
  BY DEF IInv
<1> QED BY <1>1, ContactsHold, PTL

\* What was applied for while the receiver was offline is still to be shown to him: the login
\* that reads it is the receiver's (sp_FriendshipApplyRequest_ForUser_Update), and only he
\* answers (CLIENT_RESPONSE_ADD_CONTACT_REQUEST).
THEOREM ApplicationsWait ==
  ASSUME IMContactsAssumption
  PROVE  Spec => []ApplicationWaits
<1>1. IInv => ApplicationWaits
  BY DEF IInv, Waits, ApplicationWaits
<1> QED BY <1>1, ContactsHold, PTL

-----------------------------------------------------------------------------
(* What a user who waits for answers asks for.                             *)

\* The requests that a dialog waits for, and the answers that close it.
Slow == {"delete", "create", "drop"}
SlowAnswers == {"deleted", "created", "dropped"}

Departs(p, c, g) == p.type = "move" /\ p.contact = c /\ p.new # g
Arrives(p, c, g) == p.type = "move" /\ p.contact = c /\ p.new = g

\* Contact c, whose group in the database is r, is not in group g after the first n requests.
Leaves(r, q, n, c, g) ==
  /\ r = g => \E i \in 1 .. n : Departs(q[i], c, g)
  /\ \A i \in 1 .. n : Arrives(q[i], c, g) => \E j \in (i + 1) .. n : Departs(q[j], c, g)

OnlyAdds(q) == \A i \in 1 .. Len(q) : q[i].type = "add"

\* Nothing is asked for until the answer has come, but for the second half of a request and
\* the last move of a program that dies of it.
Busy(u) ==
  /\ \A i, j \in 1 .. Len(toServer[u]) : i < j /\ toServer[u][i].type \in Slow =>
       /\ toServer[u][j].type \in {"add", "move", "gone"}
       /\ linked[u] => toServer[u][j].type = "add"
  /\ linked[u] /\ (\E i \in 1 .. Len(toClient[u]) : toClient[u][i].type \in SlowAnswers) =>
       OnlyAdds(toServer[u])

\* A group whose deletion is asked for is empty by then.
EmptiedAt(u, i, g) ==
  /\ g \notin renamed[u]
  /\ \A c \in Users : Leaves(row[u][c], toServer[u], i - 1, c, g)
  /\ \A j \in 1 .. i - 1 :
       /\ toServer[u][j].type = "rename" => toServer[u][j].group # g
       /\ toServer[u][j].type = "move" => toServer[u][j].new \in groups[u]
Emptied(u) ==
  \A i \in 1 .. Len(toServer[u]) :
    toServer[u][i].type = "drop" => EmptiedAt(u, i, toServer[u][i].group)

\* A group of the client's is in the database, or its deletion is about to be answered, and
\* whom the client does not have in it is not there once all that is on its way is handled.
Dropped(u, g) ==
  \E i \in 1 .. Len(toClient[u]) :
    toClient[u][i].type = "dropped" /\ toClient[u][i].ok /\ toClient[u][i].group = g
TrueOf(u, g) ==
  /\ g \in groups[u] \/ Dropped(u, g)
  /\ g \notin renamed[u]
  /\ \A i \in 1 .. Len(toServer[u]) : toServer[u][i].type = "rename" => toServer[u][i].group # g
  /\ \A c \in Users : c \notin mine[u][g] =>
       Leaves(row[u][c], toServer[u], Len(toServer[u]), c, g)
Believed(u) ==
  linked[u] =>
    /\ \A g \in Made : g \in DOMAIN mine[u] => TrueOf(u, g)
    /\ \A i \in 1 .. Len(toServer[u]) :
         toServer[u][i].type = "move" => toServer[u][i].new \in groups[u]

\* Nobody is in a new group.
FreshGroup(u, g) ==
  g \in Made /\ g \in groups[u] /\ g \notin renamed[u] /\ \A c \in Users : row[u][c] # g
Fresh(u) ==
  linked[u] =>
    \A i \in 1 .. Len(toClient[u]) :
      toClient[u][i].type = "created" /\ toClient[u][i].ok => FreshGroup(u, toClient[u][i].group)

\* Whom the client does not know, or is about to take off its groups, is in none of them.
Unseen(u) ==
  linked[u] =>
    /\ \A c \in Users : seen[u][c] = NoGroup =>
         /\ row[u][c] \notin Made
         /\ \A i \in 1 .. Len(toServer[u]) :
              toServer[u][i].type = "move" => toServer[u][i].contact # c
    /\ \A i \in 1 .. Len(toClient[u]) :
         toClient[u][i].type = "deleted" => row[u][toClient[u][i].contact] \notin Made

\* A group that is renamed stays in the database.
KeepsRenamed(u) ==
  /\ renamed[u] \subseteq groups[u]
  /\ \A i \in 1 .. Len(toServer[u]) :
       toServer[u][i].type = "rename" => toServer[u][i].group \in groups[u]

Patient(u) == Busy(u) /\ Emptied(u) /\ Believed(u) /\ Fresh(u) /\ Unseen(u) /\ KeepsRenamed(u)

\* Who has a row in a group that the user made is a friend in memory, unless the group has
\* got another name, so that a request to move him is granted.
Held(u) ==
  online[u] => \A c \in Users : row[u][c] \in Made =>
    HasFriend(memory[u], c) \/ row[u][c] \in renamed[u]

Settling(u) == \A c \in added[u] : seen[u][c] # NoGroup

Beliefs ==
  /\ \A u \in Users : u \notin hasty => Patient(u)
  /\ \A u \in Users : Held(u) /\ Settling(u)

LEMMA LeavesLater ==
  ASSUME NEW r, NEW t, NEW c, NEW g, NEW q, NEW p, NEW n \in Nat \ {0},
         \A i \in 1 .. n - 1 : p[i] = q[i + 1],
         t = g => (r = g /\ ~Departs(q[1], c, g)) \/ Arrives(q[1], c, g),
         Leaves(r, q, n, c, g)
  PROVE  Leaves(t, p, n - 1, c, g)
<1>1. ASSUME t = g PROVE \E i \in 1 .. n - 1 : Departs(p[i], c, g)
  <2>1. \E i \in 2 .. n : Departs(q[i], c, g)
    <3>1. CASE r = g /\ ~Departs(q[1], c, g)
      <4>1. PICK i \in 1 .. n : Departs(q[i], c, g)
        BY <3>1 DEF Leaves
      <4>2. i # 1
        BY <3>1, <4>1
      <4> QED BY <4>1, <4>2
    <3>2. CASE Arrives(q[1], c, g)
      <4>1. 1 \in 1 .. n
        OBVIOUS
      <4>2. PICK j \in (1 + 1) .. n : Departs(q[j], c, g)
        BY <3>2, <4>1 DEF Leaves
      <4> QED BY <4>2
    <3> QED BY <1>1, <3>1, <3>2
  <2>2. PICK i \in 2 .. n : Departs(q[i], c, g)
    BY <2>1
  <2>3. i - 1 \in 1 .. n - 1 /\ p[i - 1] = q[i]
    BY <2>2
  <2> QED BY <2>2, <2>3
<1>2. ASSUME NEW i \in 1 .. n - 1, Arrives(p[i], c, g)
      PROVE  \E j \in (i + 1) .. n - 1 : Departs(p[j], c, g)
  <2>1. i + 1 \in 1 .. n /\ Arrives(q[i + 1], c, g)
    BY <1>2
  <2>2. PICK j \in (i + 1 + 1) .. n : Departs(q[j], c, g)
    BY <2>1 DEF Leaves
  <2>3. j - 1 \in (i + 1) .. n - 1 /\ p[j - 1] = q[j]
    BY <2>2
  <2> QED BY <2>2, <2>3
<1> QED BY <1>1, <1>2 DEF Leaves

LEMMA LeavesSame ==
  ASSUME NEW r, NEW t, NEW c, NEW g, NEW q, NEW p, NEW n \in Nat, NEW k \in Nat, n <= k,
         \A i \in 1 .. n : p[i] = q[i], \A i \in (n + 1) .. k : ~Arrives(p[i], c, g),
         t = g => r = g, Leaves(r, q, n, c, g)
  PROVE  Leaves(t, p, k, c, g)
<1>1. ASSUME t = g PROVE \E i \in 1 .. k : Departs(p[i], c, g)
  <2>1. PICK i \in 1 .. n : Departs(q[i], c, g)
    BY <1>1 DEF Leaves
  <2>2. i \in 1 .. k /\ p[i] = q[i]
    BY <2>1
  <2> QED BY <2>1, <2>2
<1>2. ASSUME NEW i \in 1 .. k, Arrives(p[i], c, g)
      PROVE  \E j \in (i + 1) .. k : Departs(p[j], c, g)
  <2>1. i \in 1 .. n /\ Arrives(q[i], c, g)
    BY <1>2
  <2>2. PICK j \in (i + 1) .. n : Departs(q[j], c, g)
    BY <2>1 DEF Leaves
  <2>3. j \in (i + 1) .. k /\ p[j] = q[j]
    BY <2>2
  <2> QED BY <2>2, <2>3
<1> QED BY <1>1, <1>2 DEF Leaves

LEMMA LeavesNow ==
  ASSUME NEW r, NEW c, NEW g, NEW q, NEW n \in Nat \ {0}, Departs(q[n], c, g)
  PROVE  Leaves(r, q, n, c, g)
<1>1. n \in 1 .. n
  OBVIOUS
<1>2. ASSUME NEW i \in 1 .. n, Arrives(q[i], c, g) PROVE n \in (i + 1) .. n
  BY <1>2 DEF Departs, Arrives
<1> QED BY <1>1, <1>2 DEF Leaves

\* More answers, which are not among the slow ones.
Longer(r, s) ==
  /\ Len(r) \in Nat /\ Len(s) \in Nat /\ Len(r) <= Len(s)
  /\ \A i \in 1 .. Len(r) : s[i] = r[i]
QuickAnswers(r, s) ==
  Longer(r, s) /\ \A i \in (Len(r) + 1) .. Len(s) : s[i].type \notin SlowAnswers

\* What others do puts a contact into no group that the user has made.
LEMMA OutsideKeeps ==
  ASSUME Types, NEW u \in Users, Patient(u),
         toServer'[u] = toServer[u], linked'[u] = linked[u], mine'[u] = mine[u],
         seen'[u] = seen[u], renamed'[u] = renamed[u], groups'[u] = groups[u],
         \A c \in Users : row'[u][c] \in Made => row'[u][c] = row[u][c],
         QuickAnswers(toClient[u], toClient'[u])
  PROVE  Patient(u)'
<1>1. PICK q : q = toServer[u]
  OBVIOUS
<1>2. PICK r : r = toClient[u]
  OBVIOUS
<1>3. PICK s : s = toClient'[u]
  OBVIOUS
<1>4. /\ q \in Seq(Requests(u)) /\ r \in Seq(Answers(u)) /\ Len(q) \in Nat
      /\ \A i \in 1 .. Len(q) : q[i] \in Requests(u)
      /\ \A i \in 1 .. Len(r) : r[i] \in Answers(u)
  BY <1>1, <1>2 DEF Types, Wires
<1>5. /\ Len(r) \in Nat /\ Len(s) \in Nat /\ Len(r) <= Len(s)
      /\ \A i \in 1 .. Len(r) : i \in 1 .. Len(s) /\ s[i] = r[i]
      /\ \A i \in 1 .. Len(s) : s[i].type \in SlowAnswers => i \in 1 .. Len(r) /\ s[i] = r[i]
  BY <1>2, <1>3 DEF QuickAnswers, Longer
<1>6. Busy(u)'
  BY <1>1, <1>2, <1>3, <1>5 DEF Patient, Busy
<1>7. KeepsRenamed(u)'
  BY DEF Patient, KeepsRenamed
<1>8. ASSUME NEW c \in Users, NEW g \in Made, NEW n \in Nat, Leaves(row[u][c], q, n, c, g)
      PROVE  Leaves(row'[u][c], q, n, c, g)
  BY <1>8 DEF Leaves
<1>9. Emptied(u)'
  <2>1. ASSUME NEW i \in 1 .. Len(q), q[i].type = "drop" PROVE EmptiedAt(u, i, q[i].group)'
    <3>1. q[i].group \in Made /\ i - 1 \in Nat
      BY <1>4, <2>1, RequestFacts
    <3>2. EmptiedAt(u, i, q[i].group)
      BY <1>1, <2>1 DEF Patient, Emptied
    <3> QED BY <1>1, <1>8, <3>1, <3>2 DEF EmptiedAt
  <2> QED BY <1>1, <2>1 DEF Emptied
<1>10. Believed(u)'
  <2>1. ASSUME linked[u], NEW g \in Made, g \in DOMAIN mine[u] PROVE TrueOf(u, g)'
    <3>1. TrueOf(u, g)
      BY <2>1 DEF Patient, Believed
    <3>2. Dropped(u, g) => Dropped(u, g)'
      BY <1>2, <1>3, <1>5 DEF Dropped
    <3> QED BY <1>1, <1>4, <1>8, <3>1, <3>2 DEF TrueOf
  <2> QED BY <2>1 DEF Patient, Believed
<1>11. Fresh(u)'
  <2>1. ASSUME linked[u], NEW i \in 1 .. Len(s), s[i].type = "created", s[i].ok
        PROVE  FreshGroup(u, s[i].group)'
    <3>1. i \in 1 .. Len(r) /\ s[i] = r[i]
      BY <1>5, <2>1 DEF SlowAnswers
    <3>2. FreshGroup(u, s[i].group)
      BY <1>2, <2>1, <3>1 DEF Patient, Fresh
    <3> QED BY <3>2 DEF FreshGroup
  <2> QED BY <1>3, <2>1 DEF Fresh
<1>12. Unseen(u)'
  <2>1. ASSUME linked[u], NEW i \in 1 .. Len(s), s[i].type = "deleted"
        PROVE  row'[u][s[i].contact] \notin Made
    <3>1. i \in 1 .. Len(r) /\ s[i] = r[i]
      BY <1>5, <2>1 DEF SlowAnswers
    <3>2. s[i].contact \in Users
      BY <1>4, <2>1, <3>1, AnswerFacts DEF Others
    <3>3. row[u][s[i].contact] \notin Made
      BY <1>2, <2>1, <3>1 DEF Patient, Unseen
    <3> QED BY <3>2, <3>3
  <2> QED BY <1>3, <2>1 DEF Patient, Unseen
<1> QED BY <1>6, <1>7, <1>9, <1>10, <1>11, <1>12 DEF Patient

\* What becomes of a row when a request e is handled: who is asked to be moved is moved,
\* if the group is there.
RowFollows(u, e) ==
  /\ \A c \in Users : row'[u][c] \in Made =>
       row'[u][c] = row[u][c] \/ (e.type = "move" /\ e.contact = c)
  /\ (e.type = "move" => e.new \in groups[u]) =>
       \A c \in Users : \A g \in Made : g \notin renamed[u] /\ row'[u][c] = g =>
         (row[u][c] = g /\ ~Departs(e, c, g)) \/ Arrives(e, c, g)

FreshAfter(u, g) ==
  g \in Made /\ g \in groups'[u] /\ g \notin renamed'[u] /\ \A c \in Users : row'[u][c] # g

\* What a handler answers.
Answering(u, e, r, s) ==
  /\ Longer(r, s)
  /\ \A i \in (Len(r) + 1) .. Len(s) :
       /\ s[i].type \in SlowAnswers => e.type \in Slow
       /\ s[i].type = "deleted" => row'[u][s[i].contact] \notin Made
       /\ s[i].type = "created" /\ s[i].ok => FreshAfter(u, s[i].group)

LEMMA HandledKeeps ==
  ASSUME Types, NEW u \in Users, Patient(u), toServer[u] # <<>>,
         toServer'[u] = Tail(toServer[u]), linked'[u] = linked[u], mine'[u] = mine[u],
         seen'[u] = seen[u], groups[u] \subseteq groups'[u],
         NEW e, e = toServer[u][1],
         \A g \in renamed'[u] : g \in renamed[u] \/ (e.type = "rename" /\ e.group = g),
         RowFollows(u, e), Answering(u, e, toClient[u], toClient'[u])
  PROVE  Patient(u)'
<1>1. PICK q : q = toServer[u]
  OBVIOUS
<1>2. PICK p : p = toServer'[u]
  OBVIOUS
<1>3. PICK r : r = toClient[u]
  OBVIOUS
<1>4. PICK s : s = toClient'[u]
  OBVIOUS
<1>5. /\ q \in Seq(Requests(u)) /\ q # <<>> /\ r \in Seq(Answers(u))
      /\ \A i \in 1 .. Len(q) : q[i] \in Requests(u)
      /\ \A i \in 1 .. Len(r) : r[i] \in Answers(u)
  BY <1>1, <1>3 DEF Types, Wires
<1>6. /\ Len(q) \in Nat \ {0} /\ Len(p) = Len(q) - 1 /\ 1 \in 1 .. Len(q) /\ q[1] = e
      /\ \A i \in 1 .. Len(p) : i + 1 \in 1 .. Len(q) /\ p[i] = q[i + 1]
  BY <1>1, <1>2, <1>5, TailFacts
<1>7. /\ Len(r) \in Nat /\ Len(s) \in Nat /\ Len(r) <= Len(s)
      /\ \A i \in 1 .. Len(r) : i \in 1 .. Len(s) /\ s[i] = r[i]
      /\ \A i \in 1 .. Len(s) : (i \in 1 .. Len(r) /\ s[i] = r[i]) \/ i \in (Len(r) + 1) .. Len(s)
      /\ \A i \in (Len(r) + 1) .. Len(s) :
           /\ s[i].type \in SlowAnswers => e.type \in Slow
           /\ s[i].type = "deleted" => row'[u][s[i].contact] \notin Made
           /\ s[i].type = "created" /\ s[i].ok => FreshAfter(u, s[i].group)
  BY <1>3, <1>4 DEF Answering, Longer
<1>8. ASSUME linked[u], NEW i \in 1 .. Len(r), r[i].type \in SlowAnswers
      PROVE  OnlyAdds(q) /\ e.type = "add"
  BY <1>1, <1>3, <1>6, <1>8 DEF Patient, Busy, OnlyAdds
<1>9. Busy(u)'
  <2>1. ASSUME NEW i \in 1 .. Len(p), NEW j \in 1 .. Len(p), i < j, p[i].type \in Slow
        PROVE  p[j].type \in {"add", "move", "gone"} /\ (linked[u] => p[j].type = "add")
    <3>1. /\ i + 1 \in 1 .. Len(q) /\ j + 1 \in 1 .. Len(q) /\ i + 1 < j + 1
          /\ p[i] = q[i + 1] /\ p[j] = q[j + 1]
      BY <1>6, <2>1
    <3> QED BY <1>1, <2>1, <3>1 DEF Patient, Busy
  <2>2. ASSUME linked[u], NEW i \in 1 .. Len(s), s[i].type \in SlowAnswers PROVE OnlyAdds(p)
    <3>1. CASE i \in 1 .. Len(r) /\ s[i] = r[i]
      <4>1. OnlyAdds(q)
        BY <1>8, <2>2, <3>1
      <4> QED BY <1>6, <4>1 DEF OnlyAdds
    <3>2. CASE i \in (Len(r) + 1) .. Len(s)
      <4>1. q[1].type \in Slow
        BY <1>6, <1>7, <2>2, <3>2
      <4>2. \A j \in 1 .. Len(q) : 1 < j => q[j].type = "add"
        BY <1>1, <1>6, <2>2, <4>1 DEF Patient, Busy
      <4> QED BY <1>6, <4>2 DEF OnlyAdds
    <3> QED BY <1>7, <2>2, <3>1, <3>2
  <2> QED BY <1>2, <1>4, <2>1, <2>2 DEF Busy
<1>10. KeepsRenamed(u)'
  <2>1. renamed[u] \subseteq groups[u] /\ (e.type = "rename" => e.group \in groups[u])
    BY <1>1, <1>6 DEF Patient, KeepsRenamed
  <2>2. \A i \in 1 .. Len(p) : p[i].type = "rename" => p[i].group \in groups[u]
    BY <1>1, <1>6 DEF Patient, KeepsRenamed
  <2> QED BY <1>2, <2>1, <2>2 DEF KeepsRenamed
<1>11. ASSUME NEW c \in Users, NEW g \in Made, g \notin renamed[u],
              e.type = "move" => e.new \in groups[u]
       PROVE  row'[u][c] = g => (row[u][c] = g /\ ~Departs(e, c, g)) \/ Arrives(e, c, g)
  BY <1>11 DEF RowFollows
<1>12. ASSUME NEW c \in Users, NEW g \in Made, g \notin renamed[u],
              e.type = "move" => e.new \in groups[u], NEW n \in 1 .. Len(q),
              Leaves(row[u][c], q, n, c, g)
       PROVE  Leaves(row'[u][c], p, n - 1, c, g)
  <2>1. n \in Nat \ {0} /\ \A i \in 1 .. n - 1 : p[i] = q[i + 1]
    BY <1>6, <1>12
  <2>2. row'[u][c] = g => (row[u][c] = g /\ ~Departs(q[1], c, g)) \/ Arrives(q[1], c, g)
    BY <1>6, <1>11, <1>12
  <2> QED BY <1>12, <2>1, <2>2, LeavesLater
<1>13. Emptied(u)'
  <2>1. ASSUME NEW i \in 1 .. Len(p), p[i].type = "drop" PROVE EmptiedAt(u, i, p[i].group)'
    <3>1. i + 1 \in 1 .. Len(q) /\ p[i] = q[i + 1] /\ i \in 1 .. Len(q) /\ i + 1 - 1 = i
      BY <1>6, <2>1
    <3>2. PICK g \in Made : g = p[i].group
      BY <1>5, <2>1, <3>1, RequestFacts
    <3>3. EmptiedAt(u, i + 1, g)
      BY <1>1, <2>1, <3>1, <3>2 DEF Patient, Emptied
    <3>4. /\ g \notin renamed[u] /\ \A c \in Users : Leaves(row[u][c], q, i, c, g)
          /\ \A j \in 1 .. i : /\ q[j].type = "rename" => q[j].group # g
                               /\ q[j].type = "move" => q[j].new \in groups[u]
      BY <1>1, <3>1, <3>3 DEF EmptiedAt
    <3>5. 1 \in 1 .. i
      BY <2>1
    <3>6. g \notin renamed'[u]
      BY <1>6, <3>4, <3>5
    <3>7. \A c \in Users : Leaves(row'[u][c], p, i - 1, c, g)
      BY <1>6, <1>12, <3>1, <3>4, <3>5
    <3>8. \A j \in 1 .. i - 1 : /\ p[j].type = "rename" => p[j].group # g
                                /\ p[j].type = "move" => p[j].new \in groups'[u]
      <4>1. \A j \in 1 .. i - 1 : j + 1 \in 1 .. i /\ p[j] = q[j + 1]
        BY <1>6, <2>1
      <4> QED BY <3>4, <4>1
    <3> QED BY <1>2, <3>2, <3>6, <3>7, <3>8 DEF EmptiedAt
  <2> QED BY <1>2, <2>1 DEF Emptied
<1>14. Believed(u)'
  <2>1. ASSUME linked[u]
        PROVE  /\ \A i \in 1 .. Len(q) : q[i].type = "move" => q[i].new \in groups[u]
               /\ e.type = "move" => e.new \in groups[u]
    BY <1>1, <1>6, <2>1 DEF Patient, Believed
  <2>2. ASSUME linked[u], NEW g \in Made, g \in DOMAIN mine[u] PROVE TrueOf(u, g)'
    <3>1. TrueOf(u, g)
      BY <2>2 DEF Patient, Believed
    <3>2. Dropped(u, g) => Dropped(u, g)'
      BY <1>3, <1>4, <1>7 DEF Dropped
    <3>3. /\ g \notin renamed[u]
          /\ \A i \in 1 .. Len(q) : q[i].type = "rename" => q[i].group # g
          /\ \A c \in Users : c \notin mine[u][g] => Leaves(row[u][c], q, Len(q), c, g)
      BY <1>1, <3>1 DEF TrueOf
    <3>4. g \notin renamed'[u] /\ \A i \in 1 .. Len(p) : p[i].type = "rename" => p[i].group # g
      BY <1>6, <3>3
    <3>5. \A c \in Users : c \notin mine[u][g] => Leaves(row'[u][c], p, Len(p), c, g)
      <4>1. Len(q) \in 1 .. Len(q)
        BY <1>6
      <4> QED BY <1>6, <1>12, <2>1, <2>2, <3>3, <4>1
    <3> QED BY <1>2, <3>1, <3>2, <3>4, <3>5 DEF TrueOf
  <2>3. ASSUME linked[u]
        PROVE  \A i \in 1 .. Len(p) : p[i].type = "move" => p[i].new \in groups'[u]
    BY <1>6, <2>1, <2>3
  <2> QED BY <1>2, <2>2, <2>3 DEF Believed
<1>15. Fresh(u)'
  <2>1. ASSUME linked[u], NEW i \in 1 .. Len(r), r[i].type = "created", r[i].ok
        PROVE  FreshAfter(u, r[i].group)
    <3>1. FreshGroup(u, r[i].group)
      BY <1>3, <2>1 DEF Patient, Fresh
    <3>2. e.type = "add"
      BY <1>8, <2>1 DEF SlowAnswers
    <3>3. \A c \in Users : row'[u][c] \in Made => row'[u][c] = row[u][c]
      BY <3>2 DEF RowFollows
    <3> QED BY <3>1, <3>2, <3>3 DEF FreshGroup, FreshAfter
  <2> QED BY <1>4, <1>7, <2>1 DEF Fresh, FreshGroup, FreshAfter
<1>16. Unseen(u)'
  <2>1. ASSUME linked[u], NEW i \in 1 .. Len(r), r[i].type = "deleted"
        PROVE  row'[u][r[i].contact] \notin Made
    <3>1. e.type = "add" /\ r[i].contact \in Users
      BY <1>5, <1>8, <2>1, AnswerFacts DEF SlowAnswers, Others
    <3>2. row[u][r[i].contact] \notin Made
      BY <1>3, <2>1 DEF Patient, Unseen
    <3> QED BY <3>1, <3>2 DEF RowFollows
  <2>2. ASSUME linked[u], NEW c \in Users, seen[u][c] = NoGroup
        PROVE  /\ row'[u][c] \notin Made
               /\ \A i \in 1 .. Len(p) : p[i].type = "move" => p[i].contact # c
    <3>1. /\ row[u][c] \notin Made
          /\ \A i \in 1 .. Len(q) : q[i].type = "move" => q[i].contact # c
      BY <1>1, <2>2 DEF Patient, Unseen
    <3>2. ~(e.type = "move" /\ e.contact = c)
      BY <1>6, <3>1
    <3>3. row'[u][c] \notin Made
      BY <3>1, <3>2 DEF RowFollows
    <3> QED BY <1>6, <3>1, <3>3
  <2> QED BY <1>2, <1>4, <1>7, <2>1, <2>2 DEF Unseen
<1> QED BY <1>9, <1>10, <1>13, <1>14, <1>15, <1>16 DEF Patient

\* A group that is deleted is empty, and nothing more is asked for than to be answered.
LEMMA DropKeeps ==
  ASSUME Types, NEW u \in Users, Patient(u), toServer[u] # <<>>,
         toServer'[u] = Tail(toServer[u]), linked'[u] = linked[u], mine'[u] = mine[u],
         seen'[u] = seen[u], renamed'[u] = renamed[u],
         NEW e, e = toServer[u][1], e.type = "drop",
         \A g \in groups[u] : g \in groups'[u] \/ (g = e.group /\ (linked[u] => Dropped(u, g)')),
         \A c \in Users : row'[u][c] \in Made => row'[u][c] = row[u][c],
         Longer(toClient[u], toClient'[u]),
         \A i \in (Len(toClient[u]) + 1) .. Len(toClient'[u]) : toClient'[u][i].type = "dropped"
  PROVE  Patient(u)'
<1>1. PICK q : q = toServer[u]
  OBVIOUS
<1>2. PICK p : p = toServer'[u]
  OBVIOUS
<1>3. PICK r : r = toClient[u]
  OBVIOUS
<1>4. PICK s : s = toClient'[u]
  OBVIOUS
<1>5. /\ q \in Seq(Requests(u)) /\ q # <<>> /\ \A i \in 1 .. Len(q) : q[i] \in Requests(u)
  BY <1>1 DEF Types, Wires
<1>6. /\ Len(q) \in Nat \ {0} /\ Len(p) = Len(q) - 1 /\ 1 \in 1 .. Len(q) /\ q[1] = e
      /\ \A i \in 1 .. Len(p) : i + 1 \in 1 .. Len(q) /\ 1 < i + 1 /\ p[i] = q[i + 1]
  BY <1>1, <1>2, <1>5, TailFacts
<1>7. /\ Len(r) \in Nat /\ Len(s) \in Nat /\ Len(r) <= Len(s)
      /\ \A i \in 1 .. Len(r) : i \in 1 .. Len(s) /\ s[i] = r[i]
      /\ \A i \in 1 .. Len(s) : (i \in 1 .. Len(r) /\ s[i] = r[i]) \/ s[i].type = "dropped"
  BY <1>3, <1>4 DEF Longer
<1>8. e.type \in Slow
  BY DEF Slow
<1>9. /\ \A i \in 1 .. Len(p) : p[i].type \in {"add", "move", "gone"}
      /\ linked[u] => OnlyAdds(p)
  <2>1. \A i \in 1 .. Len(q) : 1 < i =>
          q[i].type \in {"add", "move", "gone"} /\ (linked[u] => q[i].type = "add")
    BY <1>1, <1>6, <1>8 DEF Patient, Busy
  <2>2. \A i \in 1 .. Len(p) :
          p[i].type \in {"add", "move", "gone"} /\ (linked[u] => p[i].type = "add")
    <3>1. ASSUME NEW i \in 1 .. Len(p)
          PROVE  p[i].type \in {"add", "move", "gone"} /\ (linked[u] => p[i].type = "add")
      <4>1. i + 1 \in 1 .. Len(q) /\ 1 < i + 1 /\ p[i] = q[i + 1]
        BY <1>6
      <4> QED BY <2>1, <4>1, Zenon
    <3> QED BY <3>1
  <2> QED BY <2>2, Zenon DEF OnlyAdds
<1>10. linked[u] => \A i \in 1 .. Len(r) : r[i].type \notin SlowAnswers
  <2>1. linked[u] /\ (\E i \in 1 .. Len(r) : r[i].type \in SlowAnswers) => q[1].type = "add"
    BY <1>1, <1>3, <1>6 DEF Patient, Busy, OnlyAdds
  <2>2. q[1].type # "add"
    BY <1>6
  <2> QED BY <2>1, <2>2, Zenon
<1>11. EmptiedAt(u, 1, e.group)
  BY <1>1, <1>6 DEF Patient, Emptied
<1>12. Busy(u)'
  BY <1>2, <1>9 DEF Busy, Slow
<1>13. Emptied(u)'
  BY <1>2, <1>9 DEF Emptied
<1>14. KeepsRenamed(u)'
  <2>1. \A g \in renamed[u] : g \in groups'[u]
    BY <1>11 DEF EmptiedAt, Patient, KeepsRenamed
  <2> QED BY <1>2, <1>9, <2>1 DEF KeepsRenamed
<1>15. Believed(u)'
  <2>1. ASSUME linked[u], NEW g \in Made, g \in DOMAIN mine[u] PROVE TrueOf(u, g)'
    <3>1. TrueOf(u, g)
      BY <2>1 DEF Patient, Believed
    <3>2. Dropped(u, g) => Dropped(u, g)'
      BY <1>3, <1>4, <1>7 DEF Dropped
    <3>3. g \in groups'[u] \/ Dropped(u, g)'
      BY <2>1, <3>1, <3>2 DEF TrueOf
    <3>4. \A i \in 1 .. Len(p) : p[i].type = "add"
      BY <1>9, <2>1 DEF OnlyAdds
    <3>5. ASSUME NEW c \in Users, c \notin mine[u][g] PROVE Leaves(row'[u][c], p, Len(p), c, g)
      <4>1. Leaves(row[u][c], q, Len(q), c, g)
        BY <1>1, <3>1, <3>5 DEF TrueOf
      <4>2. \A i \in 1 .. Len(q) : ~Departs(q[i], c, g)
        <5>1. \A i \in 1 .. Len(q) : i = 1 \/ (i - 1 \in 1 .. Len(p) /\ q[i] = p[i - 1])
          BY <1>6
        <5> QED BY <1>6, <3>4, <5>1 DEF Departs
      <4>3. row[u][c] # g
        BY <4>1, <4>2 DEF Leaves
      <4>4. row'[u][c] # g
        BY <4>3
      <4> QED BY <3>4, <4>4 DEF Leaves, Arrives
    <3> QED BY <1>2, <3>1, <3>3, <3>4, <3>5 DEF TrueOf
  <2> QED BY <1>2, <1>9, <2>1 DEF Believed, OnlyAdds
<1>16. Fresh(u)'
  BY <1>4, <1>7, <1>10 DEF Fresh, SlowAnswers
<1>17. Unseen(u)'
  <2>1. ASSUME linked[u], NEW c \in Users, seen[u][c] = NoGroup
        PROVE  /\ row'[u][c] \notin Made
               /\ \A i \in 1 .. Len(p) : p[i].type = "move" => p[i].contact # c
    <3>1. row[u][c] \notin Made
      BY <2>1 DEF Patient, Unseen
    <3> QED BY <1>9, <2>1, <3>1 DEF OnlyAdds
  <2> QED BY <1>2, <1>4, <1>7, <1>10, <2>1 DEF Unseen, SlowAnswers
<1> QED BY <1>12, <1>13, <1>14, <1>15, <1>16, <1>17 DEF Patient

\* What a client that has no dialog open may believe of its groups.
LEMMA KnownGroups ==
  ASSUME IMContactsAssumption, Types, NEW u \in Users, Patient(u), linked[u], ~InProgress(u)
  PROVE  /\ \A i \in 1 .. Len(toServer[u]) : toServer[u][i].type \notin Slow
         /\ \A i \in 1 .. Len(toClient[u]) : toClient[u][i].type \notin SlowAnswers
         /\ \A g \in FriendGroups(mine[u]) : g \in groups[u]
<1>1. /\ toServer[u] \in Seq(Requests(u)) /\ toClient[u] \in Seq(Answers(u))
      /\ mine[u] \in GroupMaps /\ Friends \in groups[u]
  BY DEF Types, Stores, Programs, Wires
<1>2. DOMAIN toServer[u] = 1 .. Len(toServer[u]) /\ DOMAIN toClient[u] = 1 .. Len(toClient[u])
  BY <1>1
<1>3. \A i \in 1 .. Len(toServer[u]) : toServer[u][i].type \notin Slow
  BY <1>2 DEF InProgress, Slow
<1>4. \A i \in 1 .. Len(toClient[u]) : toClient[u][i].type \notin SlowAnswers
  BY <1>2 DEF InProgress, SlowAnswers
<1>5. \A g : ~Dropped(u, g)
  BY <1>4 DEF Dropped, SlowAnswers
<1>6. ASSUME NEW g \in FriendGroups(mine[u]) PROVE g \in groups[u]
  <2>1. g \in DOMAIN mine[u] /\ (g # Friends => g \in Made)
    BY <1>1, <1>6, FriendGroupsFacts
  <2>2. CASE g = Friends
    BY <1>1, <2>2
  <2>3. CASE g # Friends
    BY <1>5, <2>1, <2>3 DEF Patient, Believed, TrueOf
  <2> QED BY <2>2, <2>3
<1> QED BY <1>3, <1>4, <1>6

\* The requests of a client that has no dialog open.
FineRequest(u, p, i, n) ==
  /\ p[i].type = "rename" => p[i].group \in groups[u] /\ p[i].group \notin DOMAIN mine'[u]
  /\ p[i].type = "move" => p[i].new \in groups[u] /\ seen'[u][p[i].contact] # NoGroup
  /\ p[i].type = "drop" => /\ i = n + 1 /\ p[i].group \in DOMAIN mine[u]
                           /\ mine[u][p[i].group] = {}
  /\ p[i].type \in Slow => \A j \in (i + 1) .. Len(p) : p[j].type = "add"

\* The group of the client's after them: whom it does not have in it was not in it before, or
\* is asked to be moved.
FineGroup(u, p, n, g) ==
  /\ g \in DOMAIN mine[u]
  /\ \A c \in Users : c \notin mine'[u][g] =>
       \/ c \notin mine[u][g] /\ \A i \in (n + 1) .. Len(p) : ~Arrives(p[i], c, g)
       \/ Departs(p[Len(p)], c, g)

LEMMA AskedKeeps ==
  ASSUME IMContactsAssumption, Types, NEW u \in Users, Patient(u), linked[u], ~InProgress(u),
         linked'[u] = linked[u], toClient'[u] = toClient[u], row'[u] = row[u],
         groups'[u] = groups[u], renamed'[u] = renamed[u],
         NEW p \in Seq(Requests(u)), p = toServer'[u],
         NEW n \in Nat, n = Len(toServer[u]), n < Len(p),
         \A i \in 1 .. n : p[i] = toServer[u][i],
         \A i \in (n + 1) .. Len(p) : FineRequest(u, p, i, n),
         \A g \in Made : g \in DOMAIN mine'[u] => FineGroup(u, p, n, g),
         \A c \in Users : seen'[u][c] = NoGroup => seen[u][c] = NoGroup
  PROVE  Patient(u)'
<1>1. PICK q : q = toServer[u]
  OBVIOUS
<1>2. PICK r : r = toClient[u]
  OBVIOUS
<1>3. /\ q \in Seq(Requests(u)) /\ Len(q) = n /\ Len(p) \in Nat \ {0}
      /\ \A i \in 1 .. Len(p) : p[i] \in Requests(u)
      /\ \A i \in 1 .. n : i \in 1 .. Len(p) /\ p[i] = q[i]
      /\ \A i \in 1 .. Len(p) : i \in 1 .. n \/ i \in (n + 1) .. Len(p)
  BY <1>1 DEF Types, Wires
<1>4. /\ \A i \in 1 .. n : q[i].type \notin Slow
      /\ \A i \in 1 .. Len(r) : r[i].type \notin SlowAnswers
      /\ \A g \in FriendGroups(mine[u]) : g \in groups[u]
  BY <1>1, <1>2, <1>3, KnownGroups
<1>5. /\ \A i \in (n + 1) .. Len(p) :
           /\ p[i].type = "rename" => p[i].group \in groups[u] /\ p[i].group \notin DOMAIN mine'[u]
           /\ p[i].type = "move" => p[i].new \in groups[u] /\ seen'[u][p[i].contact] # NoGroup
           /\ p[i].type = "drop" => /\ i = n + 1 /\ p[i].group \in DOMAIN mine[u]
                                    /\ mine[u][p[i].group] = {}
           /\ p[i].type \in Slow => \A j \in (i + 1) .. Len(p) : p[j].type = "add"
      /\ \A g \in Made : g \in DOMAIN mine'[u] => g \in DOMAIN mine[u]
  BY DEF FineRequest, FineGroup
<1>6. Busy(u)'
  <2>1. ASSUME NEW i \in 1 .. Len(p), NEW j \in 1 .. Len(p), i < j, p[i].type \in Slow
        PROVE  p[j].type = "add"
    <3>1. i \in (n + 1) .. Len(p)
      BY <1>3, <1>4, <2>1
    <3>2. j \in (i + 1) .. Len(p)
      BY <2>1
    <3> QED BY <1>5, <2>1, <3>1, <3>2
  <2> QED BY <1>2, <1>4, <2>1 DEF Busy
<1>7. KeepsRenamed(u)'
  BY <1>1, <1>3, <1>5 DEF Patient, KeepsRenamed
<1>8. Emptied(u)'
  <2>1. ASSUME NEW i \in 1 .. Len(p), p[i].type = "drop" PROVE EmptiedAt(u, i, p[i].group)'
    <3>1. i \in (n + 1) .. Len(p)
      BY <1>3, <1>4, <2>1 DEF Slow
    <3>2. PICK g \in Made : g = p[i].group
      BY <1>3, <2>1, RequestFacts
    <3>3. i = n + 1 /\ g \in DOMAIN mine[u] /\ mine[u][g] = {}
      BY <1>5, <2>1, <3>1, <3>2
    <3>4. TrueOf(u, g)
      BY <3>3 DEF Patient, Believed
    <3>5. /\ g \notin renamed[u]
          /\ \A j \in 1 .. n : q[j].type = "rename" => q[j].group # g
          /\ \A c \in Users : Leaves(row[u][c], q, n, c, g)
      BY <1>1, <1>3, <3>3, <3>4 DEF TrueOf
    <3>6. \A c \in Users : Leaves(row[u][c], p, n, c, g)
      <4>1. n <= n /\ (\A j \in 1 .. n : p[j] = q[j]) /\ \A j \in (n + 1) .. n : FALSE
        BY <1>3
      <4> QED BY <3>5, <4>1, LeavesSame
    <3>7. \A j \in 1 .. n : q[j].type = "move" => q[j].new \in groups[u]
      BY <1>1, <1>3 DEF Patient, Believed
    <3>8. i - 1 = n
      BY <3>3
    <3> QED BY <1>3, <3>2, <3>5, <3>6, <3>7, <3>8 DEF EmptiedAt
  <2> QED BY <2>1 DEF Emptied
<1>9. Believed(u)'
  <2>1. ASSUME NEW g \in Made, g \in DOMAIN mine'[u] PROVE TrueOf(u, g)'
    <3>1. TrueOf(u, g)
      BY <1>5, <2>1 DEF Patient, Believed
    <3>2. g \in groups[u]
      BY <1>2, <1>4, <3>1 DEF TrueOf, Dropped, SlowAnswers
    <3>3. \A i \in 1 .. Len(p) : p[i].type = "rename" => p[i].group # g
      BY <1>1, <1>3, <1>5, <2>1, <3>1 DEF TrueOf
    <3>4. ASSUME NEW c \in Users, c \notin mine'[u][g] PROVE Leaves(row[u][c], p, Len(p), c, g)
      <4>1. CASE Departs(p[Len(p)], c, g)
        BY <1>3, <4>1, LeavesNow
      <4>2. CASE c \notin mine[u][g] /\ \A i \in (n + 1) .. Len(p) : ~Arrives(p[i], c, g)
        <5>1. Leaves(row[u][c], q, n, c, g)
          BY <1>1, <1>3, <3>1, <4>2 DEF TrueOf
        <5>2. Len(p) \in Nat /\ n <= Len(p) /\ \A i \in 1 .. n : p[i] = q[i]
          BY <1>3
        <5>3. \A i \in (n + 1) .. Len(p) : ~Arrives(p[i], c, g)
          BY <4>2
        <5>4. PICK k \in Nat : k = Len(p)
          BY <5>2
        <5>5. /\ n <= k /\ \A i \in 1 .. n : p[i] = q[i]
              /\ \A i \in (n + 1) .. k : ~Arrives(p[i], c, g)
          BY <5>2, <5>3, <5>4
        <5>6. Leaves(row[u][c], p, k, c, g)
          BY <5>1, <5>5, LeavesSame
        <5> QED BY <5>4, <5>6
      <4> QED BY <2>1, <3>4, <4>1, <4>2 DEF FineGroup
    <3> QED BY <3>1, <3>2, <3>3, <3>4 DEF TrueOf
  <2>2. \A i \in 1 .. Len(p) : p[i].type = "move" => p[i].new \in groups[u]
    BY <1>1, <1>3, <1>5 DEF Patient, Believed
  <2> QED BY <2>1, <2>2 DEF Believed
<1>10. Fresh(u)'
  BY <1>2, <1>4 DEF Fresh, SlowAnswers
<1>11. Unseen(u)'
  <2>1. ASSUME NEW c \in Users, seen'[u][c] = NoGroup
        PROVE  /\ row[u][c] \notin Made
               /\ \A i \in 1 .. Len(p) : p[i].type = "move" => p[i].contact # c
    <3>1. /\ row[u][c] \notin Made
          /\ \A i \in 1 .. n : q[i].type = "move" => q[i].contact # c
      BY <1>1, <1>3, <2>1 DEF Patient, Unseen
    <3> QED BY <1>3, <1>5, <2>1, <3>1
  <2> QED BY <1>2, <1>4, <2>1 DEF Unseen, SlowAnswers
<1> QED BY <1>6, <1>7, <1>8, <1>9, <1>10, <1>11 DEF Patient

\* A group of the client's after an answer e.
StillKnown(u, e, g) ==
  \/ e.type = "created" /\ e.ok /\ e.group = g
  \/ /\ g \in DOMAIN mine[u] /\ ~(e.type = "dropped" /\ e.ok /\ e.group = g)
     /\ \A c \in Users : c \notin mine'[u][g] =>
          \/ c \notin mine[u][g]
          \/ /\ row[u][c] \notin Made
             /\ \A i \in 1 .. Len(toServer[u]) :
                  toServer[u][i].type = "move" => toServer[u][i].contact # c

LEMMA ReceivedKeeps ==
  ASSUME Types, NEW u \in Users, Patient(u), toClient[u] # <<>>,
         toClient'[u] = Tail(toClient[u]), toServer'[u] = toServer[u], linked'[u] = linked[u],
         row'[u] = row[u], groups'[u] = groups[u], renamed'[u] = renamed[u],
         NEW e, e = toClient[u][1],
         \A g \in Made : linked[u] /\ g \in DOMAIN mine'[u] => StillKnown(u, e, g),
         \A c \in Users : seen'[u][c] = NoGroup => seen[u][c] = NoGroup
  PROVE  Patient(u)'
<1>1. PICK q : q = toServer[u]
  OBVIOUS
<1>2. PICK r : r = toClient[u]
  OBVIOUS
<1>3. PICK s : s = toClient'[u]
  OBVIOUS
<1>4. r \in Seq(Answers(u)) /\ r # <<>> /\ s = Tail(r) /\ q \in Seq(Requests(u))
  BY <1>1, <1>2, <1>3 DEF Types, Wires
<1>5. /\ Len(r) \in Nat \ {0} /\ Len(s) = Len(r) - 1 /\ 1 \in 1 .. Len(r) /\ r[1] = e
      /\ \A i \in 1 .. Len(s) : i + 1 \in 1 .. Len(r) /\ s[i] = r[i + 1]
      /\ \A i \in 1 .. Len(r) : i # 1 => i - 1 \in 1 .. Len(s) /\ s[i - 1] = r[i]
  BY <1>2, <1>4, TailFacts
<1>6. linked[u] /\ e.type \in SlowAnswers => OnlyAdds(q)
  BY <1>1, <1>2, <1>5 DEF Patient, Busy
<1>7. Busy(u)'
  <2>1. linked[u] /\ (\E i \in 1 .. Len(s) : s[i].type \in SlowAnswers) => OnlyAdds(q)
    BY <1>1, <1>2, <1>5 DEF Patient, Busy
  <2> QED BY <1>1, <1>3, <2>1 DEF Patient, Busy
<1>8. Emptied(u)' /\ KeepsRenamed(u)'
  BY DEF Patient, Emptied, EmptiedAt, KeepsRenamed
<1>9. Believed(u)'
  <2>1. ASSUME linked[u], NEW g \in Made, g \in DOMAIN mine'[u] PROVE TrueOf(u, g)'
    <3>1. CASE e.type = "created" /\ e.ok /\ e.group = g
      <4>1. FreshGroup(u, g)
        BY <1>2, <1>5, <2>1, <3>1 DEF Patient, Fresh
      <4>2. \A i \in 1 .. Len(q) : q[i].type = "add"
        BY <1>6, <2>1, <3>1 DEF SlowAnswers, OnlyAdds
      <4>3. \A c \in Users : Leaves(row[u][c], q, Len(q), c, g)
        BY <4>1, <4>2 DEF FreshGroup, Leaves, Arrives
      <4> QED BY <1>1, <4>1, <4>2, <4>3 DEF FreshGroup, TrueOf
    <3>2. CASE /\ g \in DOMAIN mine[u] /\ ~(e.type = "dropped" /\ e.ok /\ e.group = g)
               /\ \A c \in Users : c \notin mine'[u][g] =>
                    \/ c \notin mine[u][g]
                    \/ /\ row[u][c] \notin Made
                       /\ \A i \in 1 .. Len(q) : q[i].type = "move" => q[i].contact # c
      <4>1. TrueOf(u, g)
        BY <2>1, <3>2 DEF Patient, Believed
      <4>2. Dropped(u, g) => Dropped(u, g)'
        <5>1. ASSUME NEW i \in 1 .. Len(r), r[i].type = "dropped", r[i].ok, r[i].group = g
              PROVE  i # 1
          BY <1>5, <3>2, <5>1
        <5>2. ASSUME NEW i \in 1 .. Len(r), r[i].type = "dropped", r[i].ok, r[i].group = g
              PROVE  \E j \in 1 .. Len(s) : s[j].type = "dropped" /\ s[j].ok /\ s[j].group = g
          <6>1. PICK j \in 1 .. Len(s) : s[j] = r[i]
            BY <1>5, <5>1, <5>2
          <6> QED BY <5>2, <6>1
        <5> QED BY <1>2, <1>3, <5>2 DEF Dropped
      <4>3. ASSUME NEW c \in Users, c \notin mine'[u][g]
            PROVE  Leaves(row[u][c], q, Len(q), c, g)
        <5>1. CASE c \notin mine[u][g]
          BY <1>1, <4>1, <5>1 DEF TrueOf
        <5>2. CASE /\ row[u][c] \notin Made
                   /\ \A i \in 1 .. Len(q) : q[i].type = "move" => q[i].contact # c
          BY <5>2 DEF Leaves, Arrives
        <5> QED BY <3>2, <4>3, <5>1, <5>2
      <4> QED BY <1>1, <4>1, <4>2, <4>3 DEF TrueOf
    <3> QED BY <1>1, <2>1, <3>1, <3>2 DEF StillKnown
  <2> QED BY <2>1 DEF Patient, Believed
<1>10. Fresh(u)'
  <2>1. ASSUME linked[u], NEW i \in 1 .. Len(s), s[i].type = "created", s[i].ok
        PROVE  FreshGroup(u, s[i].group)
    <3>1. PICK j \in 1 .. Len(r) : r[j] = s[i]
      BY <1>5
    <3> QED BY <1>2, <2>1, <3>1 DEF Patient, Fresh
  <2> QED BY <1>3, <2>1 DEF Fresh, FreshGroup
<1>11. Unseen(u)'
  <2>1. ASSUME linked[u], NEW i \in 1 .. Len(s), s[i].type = "deleted"
        PROVE  row[u][s[i].contact] \notin Made
    BY <1>2, <1>5, <2>1 DEF Patient, Unseen
  <2> QED BY <1>3, <2>1 DEF Patient, Unseen
<1> QED BY <1>7, <1>8, <1>9, <1>10, <1>11 DEF Patient

\* Some of what was sent is received of a program that ends.
LEMMA EndedKeeps ==
  ASSUME Types, NEW u \in Users, Patient(u), ~linked'[u],
         row'[u] = row[u], groups'[u] = groups[u], renamed'[u] = renamed[u],
         NEW p, p = toServer'[u], NEW n \in Nat, n <= Len(toServer[u]), Len(p) \in Nat,
         n <= Len(p), \A i \in 1 .. n : p[i] = toServer[u][i],
         \A i \in (n + 1) .. Len(p) : p[i].type \in {"move", "gone"}
  PROVE  Patient(u)'
<1>1. PICK q : q = toServer[u]
  OBVIOUS
<1>2. /\ Len(q) \in Nat /\ q \in Seq(Requests(u))
      /\ \A i \in 1 .. n : i \in 1 .. Len(q) /\ p[i] = q[i]
      /\ \A i \in 1 .. Len(p) : i \in 1 .. n \/ p[i].type \in {"move", "gone"}
      /\ \A i \in 1 .. Len(p) : p[i].type \in Slow \cup {"rename"} => i \in 1 .. n
  <2>1. q \in Seq(Requests(u)) /\ Len(q) \in Nat
    BY <1>1 DEF Types, Wires
  <2>2. \A i \in 1 .. n : i \in 1 .. Len(q) /\ p[i] = q[i]
    BY <1>1, <2>1
  <2>3. \A i \in 1 .. Len(p) : i \in 1 .. n \/ p[i].type \in {"move", "gone"}
    OBVIOUS
  <2> QED BY <2>1, <2>2, <2>3 DEF Slow
<1>3. Busy(u)'
  <2>1. ASSUME NEW i \in 1 .. Len(p), NEW j \in 1 .. Len(p), i < j, p[i].type \in Slow
        PROVE  p[j].type \in {"add", "move", "gone"}
    <3>1. i \in 1 .. n
      BY <1>2, <2>1
    <3> QED BY <1>1, <1>2, <2>1, <3>1 DEF Patient, Busy
  <2> QED BY <2>1 DEF Busy
<1>4. Emptied(u)'
  <2>1. ASSUME NEW i \in 1 .. Len(p), p[i].type = "drop" PROVE EmptiedAt(u, i, p[i].group)'
    <3>1. i \in 1 .. n
      BY <1>2, <2>1 DEF Slow
    <3>2. i \in 1 .. Len(q) /\ p[i] = q[i] /\ \A j \in 1 .. i - 1 : p[j] = q[j]
      BY <1>2, <3>1
    <3>3. PICK g : g = p[i].group
      OBVIOUS
    <3>4. EmptiedAt(u, i, g)
      BY <1>1, <2>1, <3>2, <3>3 DEF Patient, Emptied
    <3>5. /\ g \notin renamed[u] /\ \A c \in Users : Leaves(row[u][c], q, i - 1, c, g)
          /\ \A j \in 1 .. i - 1 : /\ q[j].type = "rename" => q[j].group # g
                                   /\ q[j].type = "move" => q[j].new \in groups[u]
      BY <1>1, <3>4 DEF EmptiedAt
    <3>6. \A c \in Users : Leaves(row[u][c], p, i - 1, c, g)
      BY <3>2, <3>5 DEF Leaves
    <3> QED BY <3>2, <3>3, <3>5, <3>6 DEF EmptiedAt
  <2> QED BY <2>1 DEF Emptied
<1>5. KeepsRenamed(u)'
  BY <1>1, <1>2 DEF Patient, KeepsRenamed
<1> QED BY <1>3, <1>4, <1>5 DEF Patient, Believed, Fresh, Unseen

\* Nothing is on its way.
LEMMA StoppedKeeps ==
  ASSUME NEW u \in Users, Patient(u), ~linked'[u], toServer'[u] = <<>>,
         groups'[u] = groups[u], renamed'[u] = renamed[u]
  PROVE  Patient(u)'
BY DEF Patient, Busy, Emptied, Believed, Fresh, Unseen, KeepsRenamed

\* A client that has taken over what the server has.
LEMMA LoggedInKeeps ==
  ASSUME NEW u \in Users, Patient(u), toServer'[u] = <<>>, renamed'[u] = {},
         groups'[u] = groups[u], row'[u] = row[u],
         \A i \in 1 .. Len(toClient'[u]) : toClient'[u][i].type \notin SlowAnswers,
         \A g \in Made : g \in DOMAIN mine'[u] =>
           g \in groups[u] /\ \A c \in Users : c \notin mine'[u][g] => row[u][c] # g,
         \A c \in Users : seen'[u][c] = NoGroup => row[u][c] \notin Made
  PROVE  Patient(u)'
<1>1. PICK p : p = toServer'[u]
  OBVIOUS
<1>2. p = <<>> /\ Len(p) = 0
  BY <1>1
<1>3. Busy(u)' /\ Emptied(u)' /\ KeepsRenamed(u)'
  BY <1>1, <1>2 DEF Busy, Emptied, KeepsRenamed, OnlyAdds
<1>4. Believed(u)'
  <2>1. ASSUME NEW g \in Made, g \in DOMAIN mine'[u] PROVE TrueOf(u, g)'
    <3>1. ASSUME NEW c \in Users, row[u][c] # g PROVE Leaves(row[u][c], p, Len(p), c, g)
      BY <1>2, <3>1 DEF Leaves
    <3> QED BY <1>1, <1>2, <2>1, <3>1 DEF TrueOf
  <2> QED BY <1>1, <1>2, <2>1 DEF Believed
<1>5. Fresh(u)' /\ Unseen(u)'
  BY <1>1, <1>2 DEF Fresh, Unseen, SlowAnswers
<1> QED BY <1>3, <1>4, <1>5 DEF Patient

\* What is to be shown of a step of a client.
ClientBelieves(u) ==
  /\ \A w \in Others(u) :
       /\ toServer'[w] = toServer[w] /\ toClient'[w] = toClient[w] /\ linked'[w] = linked[w]
       /\ mine'[w] = mine[w] /\ seen'[w] = seen[w] /\ added'[w] = added[w]
  /\ hasty \subseteq hasty'
  /\ \A c \in Users : seen'[u][c] = NoGroup => seen[u][c] = NoGroup
  /\ \A c \in added'[u] : c \in added[u] \/ seen'[u][c] # NoGroup
  /\ Patient(u) /\ u \notin hasty' => Patient(u)'

LEMMA AskAlone ==
  ASSUME Types, NEW u \in Users, NEW packets \in Seq(Requests(u)), Ask(u, packets)
  PROVE  /\ \A w \in Others(u) : toServer'[w] = toServer[w]
         /\ toServer'[u] = toServer[u] \o packets
         /\ hasty \subseteq hasty' /\ linked[u] /\ (u \notin hasty' => ~InProgress(u))
<1>1. linked[u] /\ hasty' = IF InProgress(u) THEN hasty \cup {u} ELSE hasty
  BY DEF Ask
<1>2. hasty \subseteq hasty' /\ (u \notin hasty' => ~InProgress(u))
  BY <1>1
<1> QED BY <1>1, <1>2, AskFacts DEF Types, Others

\* The requests alone are told from those on their way.
LEMMA AskedFine ==
  ASSUME IMContactsAssumption, Types, NEW u \in Users, Patient(u), u \notin hasty',
         NEW packets \in Seq(Requests(u)), packets # <<>>, Ask(u, packets),
         linked'[u] = linked[u], toClient'[u] = toClient[u], row'[u] = row[u],
         groups'[u] = groups[u], renamed'[u] = renamed[u],
         \A j \in 1 .. Len(packets) : FineRequest(u, packets, j, 0),
         \A g \in Made : g \in DOMAIN mine'[u] => FineGroup(u, packets, 0, g),
         \A c \in Users : seen'[u][c] = NoGroup => seen[u][c] = NoGroup
  PROVE  Patient(u)'
<1>1. PICK q : q = toServer[u]
  OBVIOUS
<1>2. PICK p : p = toServer'[u]
  OBVIOUS
<1>3. q \in Seq(Requests(u)) /\ p = q \o packets /\ linked[u] /\ ~InProgress(u)
  BY <1>1, <1>2, AskAlone DEF Types, Wires
<1>4. PICK n \in Nat : n = Len(q)
  <2>1. q \in Seq(Requests(u))
    BY <1>3
  <2>2. Len(q) \in Nat
    BY <2>1
  <2> QED BY <2>2
<1>5. PICK k \in Nat \ {0} : k = Len(packets)
  OBVIOUS
<1>6. /\ p \in Seq(Requests(u)) /\ Len(p) = n + k /\ \A i \in 1 .. n : p[i] = q[i]
      /\ \A j \in 1 .. k : p[n + j] = packets[j]
  BY <1>3, <1>4, <1>5, ConcatFacts
<1>7. ASSUME NEW i \in (n + 1) .. Len(p) PROVE FineRequest(u, p, i, n)
  <2>1. PICK j \in 1 .. k : i = n + j /\ p[i] = packets[j]
    <3>1. i - n \in 1 .. k /\ i = n + (i - n)
      BY <1>6, <1>7
    <3> QED BY <1>6, <3>1
  <2>2. FineRequest(u, packets, j, 0)
    BY <1>5
  <2>3. ASSUME packets[j].type \in Slow, NEW h \in (i + 1) .. Len(p) PROVE p[h].type = "add"
    <3>1. PICK l \in (j + 1) .. k : h = n + l
      <4>1. h - n \in (j + 1) .. k /\ h = n + (h - n)
        BY <1>6, <2>1, <2>3
      <4> QED BY <4>1
    <3>2. packets[l].type = "add"
      BY <1>5, <2>2, <2>3, <3>1 DEF FineRequest
    <3>3. l \in 1 .. k
      BY <3>1
    <3> QED BY <1>6, <3>1, <3>2, <3>3
  <2>4. packets[j].type = "drop" => i = n + 1
    BY <2>1, <2>2 DEF FineRequest
  <2> QED BY <2>1, <2>2, <2>3, <2>4 DEF FineRequest
<1>8. ASSUME NEW g \in Made, g \in DOMAIN mine'[u] PROVE FineGroup(u, p, n, g)
  <2>1. FineGroup(u, packets, 0, g)
    BY <1>8
  <2>2. p[Len(p)] = packets[Len(packets)]
    BY <1>5, <1>6
  <2>3. ASSUME NEW c \in Users, \A i \in (0 + 1) .. Len(packets) : ~Arrives(packets[i], c, g)
        PROVE  \A i \in (n + 1) .. Len(p) : ~Arrives(p[i], c, g)
    <3>1. ASSUME NEW i \in (n + 1) .. Len(p) PROVE ~Arrives(p[i], c, g)
      <4>1. i - n \in 1 .. k /\ i = n + (i - n)
        BY <1>6, <3>1
      <4>2. p[i] = packets[i - n]
        BY <1>6, <4>1
      <4> QED BY <1>5, <2>3, <4>1, <4>2
    <3> QED BY <3>1
  <2> QED BY <2>1, <2>2, <2>3 DEF FineGroup
<1>9. n = Len(toServer[u]) /\ n < Len(p) /\ \A i \in 1 .. n : p[i] = toServer[u][i]
  BY <1>1, <1>4, <1>5, <1>6
<1> QED BY <1>2, <1>3, <1>6, <1>7, <1>8, <1>9, AskedKeeps

\* What is asked for without a change of the client's groups.
LEMMA AskedBelieves ==
  ASSUME IMContactsAssumption, Types, NEW u \in Users,
         NEW packets \in Seq(Requests(u)), packets # <<>>, Ask(u, packets),
         UNCHANGED <<groups, row, renamed, linked, mine, seen, added, toClient>>,
         \A j \in 1 .. Len(packets) :
           /\ packets[j].type \notin {"rename", "move"}
           /\ packets[j].type = "drop" => /\ j = 1 /\ packets[j].group \in DOMAIN mine[u]
                                          /\ mine[u][packets[j].group] = {}
           /\ packets[j].type \in Slow =>
                \A i \in (j + 1) .. Len(packets) : packets[i].type = "add"
  PROVE  ClientBelieves(u)
<1>1. ASSUME Patient(u), u \notin hasty' PROVE Patient(u)'
  <2>1. \A j \in 1 .. Len(packets) : FineRequest(u, packets, j, 0)
    BY DEF FineRequest
  <2>2. ASSUME NEW g \in Made, g \in DOMAIN mine'[u] PROVE FineGroup(u, packets, 0, g)
    BY <2>2 DEF FineGroup, Arrives
  <2> QED BY <1>1, <2>1, <2>2, AskedFine
<1> QED BY <1>1, AskAlone DEF ClientBelieves

LEMMA OneAsked ==
  ASSUME IMContactsAssumption, Types, NEW u \in Users, NEW p \in Requests(u), Ask(u, <<p>>),
         UNCHANGED <<groups, row, renamed, linked, mine, seen, added, toClient>>,
         p.type \notin {"rename", "move"},
         p.type = "drop" => p.group \in DOMAIN mine[u] /\ mine[u][p.group] = {}
  PROVE  ClientBelieves(u)
<1>1. PICK packets : packets = <<p>>
  OBVIOUS
<1>2. packets \in Seq(Requests(u)) /\ packets # <<>> /\ Len(packets) = 1 /\ packets[1] = p
  BY <1>1
<1>3. \A j \in 1 .. Len(packets) : j = 1 /\ \A i \in (j + 1) .. Len(packets) : FALSE
  BY <1>2
<1>4. \A j \in 1 .. Len(packets) :
        /\ packets[j].type \notin {"rename", "move"}
        /\ packets[j].type = "drop" => /\ j = 1 /\ packets[j].group \in DOMAIN mine[u]
                                       /\ mine[u][packets[j].group] = {}
        /\ packets[j].type \in Slow =>
             \A i \in (j + 1) .. Len(packets) : packets[i].type = "add"
  BY <1>2, <1>3
<1> QED BY <1>1, <1>2, <1>4, AskedBelieves

LEMMA AddBelieves ==
  ASSUME IMContactsAssumption, Types, NEW u \in Users, NEW c \in Users, Add(u, c)
  PROVE  ClientBelieves(u)
<1>1. c \in Others(u) /\ UNCHANGED <<groups, row, renamed, linked, mine, seen, added, toClient>>
  BY DEF Add, Others, database, clients, history
<1>2. PICK a : a = [type |-> "add", contact |-> c]
  OBVIOUS
<1>3. PICK d : d = DeletePacket(c, FALSE, FALSE)
  OBVIOUS
<1>4. a \in Requests(u) /\ a.type = "add" /\ d \in Requests(u) /\ d.type = "delete"
  BY <1>1, <1>2, <1>3 DEF Requests, DeletePacket
<1>5. CASE Ask(u, <<a>>)
  BY <1>1, <1>4, <1>5, OneAsked
<1>6. CASE Ask(u, <<d>> \o <<a>>)
  <2>1. PICK packets : packets = <<d>> \o <<a>>
    OBVIOUS
  <2>2. /\ packets \in Seq(Requests(u)) /\ packets # <<>> /\ Len(packets) = 2
        /\ packets[1] = d /\ packets[2] = a
    BY <1>4, <2>1
  <2>3. \A j \in 1 .. Len(packets) :
          /\ packets[j].type \notin {"rename", "move"}
          /\ packets[j].type = "drop" => /\ j = 1 /\ packets[j].group \in DOMAIN mine[u]
                                         /\ mine[u][packets[j].group] = {}
          /\ packets[j].type \in Slow =>
               \A i \in (j + 1) .. Len(packets) : packets[i].type = "add"
    <3>1. \A j \in 1 .. Len(packets) : j \in {1, 2} /\ \A i \in (j + 1) .. Len(packets) : i = 2
      BY <2>2
    <3> QED BY <1>4, <2>2, <3>1
  <2> QED BY <1>1, <1>6, <2>1, <2>2, <2>3, AskedBelieves
<1> QED BY <1>2, <1>3, <1>5, <1>6 DEF Add

LEMMA SamePatient ==
  ASSUME Types, NEW u \in Users, Patient(u),
         toServer'[u] = toServer[u], toClient'[u] = toClient[u], linked'[u] = linked[u],
         mine'[u] = mine[u], seen'[u] = seen[u], renamed'[u] = renamed[u],
         groups'[u] = groups[u], row'[u] = row[u]
  PROVE  Patient(u)'
<1>1. PICK r : r = toClient[u]
  OBVIOUS
<1>2. Len(r) \in Nat
  <2>1. r \in Seq(Answers(u))
    BY <1>1 DEF Types, Wires
  <2> QED BY <2>1
<1>3. QuickAnswers(r, r)
  BY <1>2 DEF QuickAnswers, Longer
<1> QED BY <1>1, <1>3, OutsideKeeps

LEMMA AnswerBelieves ==
  ASSUME IMContactsAssumption, Types, NEW u \in Users, NEW c \in Users, Answer(u, c)
  PROVE  ClientBelieves(u)
<1>1. /\ c \in Others(u)
      /\ UNCHANGED <<groups, row, renamed, linked, mine, seen, added, toClient>>
  BY DEF Answer, Types, Programs, Others, database, history
<1>2. CASE UNCHANGED <<toServer, asking>>
  <2>1. Patient(u) => Patient(u)'
    BY <1>1, <1>2, SamePatient
  <2> QED BY <1>1, <1>2, <2>1 DEF ClientBelieves, asking
<1>3. ASSUME NEW accept \in BOOLEAN, NEW message \in BOOLEAN,
             Ask(u, <<[type |-> "response", contact |-> c, accept |-> accept,
                       message |-> message]>>)
      PROVE  ClientBelieves(u)
  <2>1. PICK p : p = [type |-> "response", contact |-> c, accept |-> accept,
                      message |-> message]
    OBVIOUS
  <2>2. p \in Requests(u) /\ p.type = "response"
    BY <1>1, <2>1 DEF Requests
  <2> QED BY <1>1, <1>3, <2>1, <2>2, OneAsked
<1> QED BY <1>2, <1>3 DEF Answer

LEMMA DeleteBelieves ==
  ASSUME IMContactsAssumption, Types, NEW u \in Users, NEW c \in Users, Delete(u, c)
  PROVE  ClientBelieves(u)
<1>1. /\ c \in Others(u)
      /\ UNCHANGED <<groups, row, renamed, linked, mine, seen, added, toClient>>
  BY DEF Delete, Types, Programs, Others, database, clients, history
<1>2. PICK both \in BOOLEAN, blacklist \in BOOLEAN : Ask(u, <<DeletePacket(c, both, blacklist)>>)
  BY DEF Delete
<1>3. PICK p : p = DeletePacket(c, both, blacklist)
  OBVIOUS
<1>4. p \in Requests(u) /\ p.type = "delete"
  BY <1>1, <1>3 DEF Requests, DeletePacket
<1> QED BY <1>1, <1>2, <1>3, <1>4, OneAsked

LEMMA CreateGroupBelieves ==
  ASSUME IMContactsAssumption, Types, NEW u \in Users, CreateGroup(u)
  PROVE  ClientBelieves(u)
<1>1. UNCHANGED <<groups, row, renamed, linked, mine, seen, added, toClient>>
  BY DEF CreateGroup, database, clients, history
<1>2. PICK p : p = [type |-> "create"]
  OBVIOUS
<1>3. p \in Requests(u) /\ p.type = "create"
  BY <1>2 DEF Requests
<1>4. Ask(u, <<p>>)
  BY <1>2 DEF CreateGroup
<1> QED BY <1>1, <1>3, <1>4, OneAsked

\* The deletion of a group is offered when IMUser has nobody in it.
LEMMA DeleteGroupBelieves ==
  ASSUME IMContactsAssumption, Types, NEW u \in Users, DeleteGroup(u)
  PROVE  ClientBelieves(u)
<1>1. UNCHANGED <<groups, row, renamed, linked, mine, seen, added, toClient>>
  BY DEF DeleteGroup, database, clients, history
<1>2. PICK g \in FriendGroups(mine[u]) \ {Friends} :
        mine[u][g] = {} /\ Ask(u, <<[type |-> "drop", group |-> g]>>)
  BY DEF DeleteGroup
<1>3. g \in Made /\ g \in DOMAIN mine[u]
  <2>1. mine[u] \in GroupMaps
    BY DEF Types, Programs
  <2> QED BY <1>2, <2>1, FriendGroupsFacts
<1>4. PICK p : p = [type |-> "drop", group |-> g]
  OBVIOUS
<1>5. p \in Requests(u) /\ p.type = "drop" /\ p.group = g
  BY <1>3, <1>4 DEF Requests
<1> QED BY <1>1, <1>2, <1>3, <1>4, <1>5, OneAsked

\* A move that is asked for, with the client's own.
LEMMA MovedBelieves ==
  ASSUME IMContactsAssumption, Types, NEW u \in Users, NEW c \in Others(u),
         NEW old \in Groups, NEW g \in FriendGroups(mine[u]),
         Ask(u, <<MovePacket(c, old, g)>>),
         mine' = [mine EXCEPT ![u] = Moved(@, c, old, g)],
         seen' = [seen EXCEPT ![u][c] = g],
         \A w \in Users : added'[w] \subseteq added[w],
         \A w \in Others(u) : added'[w] = added[w],
         UNCHANGED <<groups, row, renamed, linked, toClient>>
  PROVE  ClientBelieves(u)
<1>1. /\ mine \in [Users -> GroupMaps] /\ mine[u] \in GroupMaps /\ c \in Users
      /\ seen \in [Users -> [Users -> Groups \cup {NoGroup}]]
  BY DEF Types, Programs, Others
<1>2. /\ g \in DOMAIN mine[u] /\ g \in Friends .. MaxGroup /\ g # NoGroup
  BY <1>1, FriendGroupsFacts, Numbers
<1>3. PICK m : m = mine[u]
  OBVIOUS
<1>4. PICK r : r = Moved(m, c, old, g)
  OBVIOUS
<1>5. /\ DOMAIN r = DOMAIN m /\ c \in r[g]
      /\ \A h \in DOMAIN m : \A d \in Users : d # c => (d \in r[h] <=> d \in m[h])
  <2>1. m = [h \in DOMAIN m |-> m[h]]
    BY <1>1, <1>3, MapFacts
  <2>2. PICK w : w = [m EXCEPT ![old] = @ \ {c}]
    OBVIOUS
  <2>3. /\ DOMAIN w = DOMAIN m /\ w = [h \in DOMAIN w |-> w[h]]
        /\ \A h \in DOMAIN m : w[h] = IF h = old THEN m[h] \ {c} ELSE m[h]
    BY <2>1, <2>2
  <2>4. r = [w EXCEPT ![g] = @ \cup {c}]
    BY <1>4, <2>2 DEF Moved
  <2>5. \A h \in DOMAIN m : r[h] = IF h = g THEN w[h] \cup {c} ELSE w[h]
    BY <2>3, <2>4
  <2> QED BY <1>2, <1>3, <2>3, <2>4, <2>5
<1>6. mine' = [mine EXCEPT ![u] = r]
  BY <1>3, <1>4
<1>7. mine'[u] = r /\ \A w \in Others(u) : mine'[w] = mine[w]
  BY <1>1, <1>6 DEF Others
<1>8. /\ \A w \in Others(u) : seen'[w] = seen[w]
      /\ seen'[u][c] = g /\ \A d \in Users : seen'[u][d] = NoGroup => seen[u][d] = NoGroup
  BY <1>1, <1>2 DEF Others
<1>9. PICK p : p = MovePacket(c, old, g)
  OBVIOUS
<1>10. /\ p \in Requests(u) /\ p.type = "move" /\ p.contact = c /\ p.new = g
  BY <1>2, <1>9 DEF Requests, MovePacket
<1>11. PICK packets : packets = <<p>>
  OBVIOUS
<1>12. /\ packets \in Seq(Requests(u)) /\ packets # <<>> /\ Len(packets) = 1 /\ packets[1] = p
       /\ Ask(u, packets)
  BY <1>9, <1>10, <1>11
<1>13. ASSUME Patient(u), u \notin hasty' PROVE Patient(u)'
  <2>1. g \in groups[u]
    <3>1. linked[u] /\ ~InProgress(u)
      BY <1>12, <1>13, AskAlone
    <3> QED BY <1>13, <3>1, KnownGroups
  <2>2. \A j \in 1 .. Len(packets) : FineRequest(u, packets, j, 0)
    <3>1. \A j \in 1 .. Len(packets) : j = 1
      BY <1>12
    <3> QED BY <1>2, <1>8, <1>10, <1>12, <2>1, <3>1 DEF FineRequest, Slow
  <2>3. ASSUME NEW h \in Made, h \in DOMAIN mine'[u] PROVE FineGroup(u, packets, 0, h)
    <3>1. h \in DOMAIN mine[u]
      BY <1>3, <1>5, <1>7, <2>3
    <3>2. ASSUME NEW d \in Users, d \notin mine'[u][h]
          PROVE  \/ /\ d \notin mine[u][h]
                    /\ \A i \in (0 + 1) .. Len(packets) : ~Arrives(packets[i], d, h)
                 \/ Departs(packets[Len(packets)], d, h)
      <4>1. CASE d = c
        BY <1>5, <1>7, <1>10, <1>12, <3>2, <4>1 DEF Departs
      <4>2. CASE d # c
        <5>1. \A i \in (0 + 1) .. Len(packets) : i = 1
          BY <1>12
        <5> QED BY <1>3, <1>5, <1>7, <1>10, <1>12, <3>1, <3>2, <4>2, <5>1 DEF Arrives
      <4> QED BY <4>1, <4>2
    <3> QED BY <3>1, <3>2 DEF FineGroup
  <2> QED BY <1>8, <1>12, <1>13, <2>2, <2>3, AskedFine
<1> QED BY <1>7, <1>8, <1>12, <1>13, AskAlone DEF ClientBelieves

LEMMA MoveBelieves ==
  ASSUME IMContactsAssumption, Types, NEW u \in Users, NEW c \in Users, Move(u, c)
  PROVE  ClientBelieves(u)
<1>1. PICK old : old = seen[u][c]
  OBVIOUS
<1>2. c \in Others(u) /\ old \in Groups
  BY <1>1 DEF Move, IsFriend, Types, Programs, Others
<1>3. PICK g \in FriendGroups(mine[u]) :
        /\ Ask(u, <<MovePacket(c, old, g)>>)
        /\ mine' = [mine EXCEPT ![u] = Moved(@, c, old, g)]
        /\ seen' = [seen EXCEPT ![u][c] = g]
  BY <1>1 DEF Move
<1>4. UNCHANGED <<groups, row, renamed, linked, added, toClient>>
  BY DEF Move, database, history
<1> QED BY <1>2, <1>3, <1>4, MovedBelieves

LEMMA SettleBelieves ==
  ASSUME IMContactsAssumption, Types, NEW u \in Users, NEW c \in Users, Settle(u, c)
  PROVE  ClientBelieves(u)
<1>1. /\ c \in added[u] /\ added' = [added EXCEPT ![u] = @ \ {c}]
      /\ UNCHANGED <<groups, row, renamed, linked, toClient>>
  BY DEF Settle, database, history
<1>2. /\ c \in Others(u) /\ mine[u] \in GroupMaps
      /\ \A w \in Users : added'[w] \subseteq added[w]
      /\ \A w \in Others(u) : added'[w] = added[w]
  BY <1>1 DEF Types, Programs, Others
<1>3. GroupOf(mine[u], c) \in Groups
  BY <1>2, GroupOfType
<1>4. PICK old \in Groups : old = GroupOf(mine[u], c)
  BY <1>3
<1>5. PICK g \in FriendGroups(mine[u]) :
        \/ UNCHANGED <<mine, seen, toServer, asking>>
        \/ /\ Ask(u, <<MovePacket(c, old, g)>>)
           /\ mine' = [mine EXCEPT ![u] = Moved(@, c, old, g)]
           /\ seen' = [seen EXCEPT ![u][c] = g]
  BY <1>4 DEF Settle
<1>6. CASE UNCHANGED <<mine, seen, toServer, asking>>
  <2>1. Patient(u) => Patient(u)'
    BY <1>1, <1>6, SamePatient
  <2> QED BY <1>1, <1>2, <1>6, <2>1 DEF ClientBelieves, asking
<1>7. CASE /\ Ask(u, <<MovePacket(c, old, g)>>)
           /\ mine' = [mine EXCEPT ![u] = Moved(@, c, old, g)]
           /\ seen' = [seen EXCEPT ![u][c] = g]
  BY <1>1, <1>2, <1>7, MovedBelieves
<1> QED BY <1>5, <1>6, <1>7

LEMMA RenameGroupBelieves ==
  ASSUME IMContactsAssumption, Types, NEW u \in Users, RenameGroup(u)
  PROVE  ClientBelieves(u)
<1>1. PICK g \in FriendGroups(mine[u]) \ {Friends} :
        /\ Ask(u, <<[type |-> "rename", group |-> g]>>)
        /\ mine' = [mine EXCEPT ![u] = WithoutGroup(@, g)]
  BY DEF RenameGroup, Renamed
<1>2. /\ mine \in [Users -> GroupMaps] /\ mine[u] \in GroupMaps
      /\ UNCHANGED <<groups, row, renamed, linked, seen, added, toClient>>
  BY DEF RenameGroup, Types, Programs, database, history
<1>3. g \in Made
  BY <1>1, <1>2, FriendGroupsFacts
<1>4. PICK r : r = WithoutGroup(mine[u], g)
  OBVIOUS
<1>5. DOMAIN r = DOMAIN mine[u] \ {g} /\ \A h \in DOMAIN mine[u] \ {g} : r[h] = mine[u][h]
  BY <1>2, <1>4, WithoutGroupFacts
<1>6. mine' = [mine EXCEPT ![u] = r]
  BY <1>1, <1>4
<1>7. mine'[u] = r /\ \A w \in Others(u) : mine'[w] = mine[w]
  BY <1>2, <1>6 DEF Others
<1>8. PICK p : p = [type |-> "rename", group |-> g]
  OBVIOUS
<1>9. p \in Requests(u) /\ p.type = "rename" /\ p.group = g
  BY <1>3, <1>8 DEF Requests
<1>10. PICK packets : packets = <<p>>
  OBVIOUS
<1>11. /\ packets \in Seq(Requests(u)) /\ packets # <<>> /\ Len(packets) = 1 /\ packets[1] = p
       /\ Ask(u, packets)
  BY <1>1, <1>8, <1>9, <1>10
<1>12. ASSUME Patient(u), u \notin hasty' PROVE Patient(u)'
  <2>1. g \in groups[u]
    <3>1. linked[u] /\ ~InProgress(u)
      BY <1>11, <1>12, AskAlone
    <3> QED BY <1>1, <1>12, <3>1, KnownGroups
  <2>2. \A j \in 1 .. Len(packets) : j = 1
    BY <1>11
  <2>3. \A j \in 1 .. Len(packets) : FineRequest(u, packets, j, 0)
    BY <1>5, <1>7, <1>9, <1>11, <2>1, <2>2 DEF FineRequest, Slow
  <2>4. ASSUME NEW h \in Made, h \in DOMAIN mine'[u] PROVE FineGroup(u, packets, 0, h)
    <3>1. h \in DOMAIN mine[u] /\ mine'[u][h] = mine[u][h]
      BY <1>5, <1>7, <2>4
    <3>2. \A i \in (0 + 1) .. Len(packets) : \A c \in Users : ~Arrives(packets[i], c, h)
      BY <1>9, <1>11, <2>2 DEF Arrives
    <3> QED BY <3>1, <3>2 DEF FineGroup
  <2> QED BY <1>2, <1>11, <1>12, <2>3, <2>4, AskedFine
<1> QED BY <1>2, <1>7, <1>11, <1>12, AskAlone DEF ClientBelieves

\* An answer that is taken.
LEMMA ReceivedBelieves ==
  ASSUME IMContactsAssumption, Types, NEW u \in Users, toClient[u] # <<>>, toClient' = Rest(u),
         UNCHANGED <<groups, row, renamed, linked, toServer, asking>>,
         NEW e, e = Head(toClient[u]),
         \A w \in Others(u) : /\ mine'[w] = mine[w] /\ seen'[w] = seen[w]
                              /\ added'[w] = added[w],
         \A c \in Users : seen'[u][c] = NoGroup => seen[u][c] = NoGroup,
         \A c \in added'[u] : c \in added[u] \/ seen'[u][c] # NoGroup,
         Patient(u) => \A g \in Made : linked[u] /\ g \in DOMAIN mine'[u] => StillKnown(u, e, g)
  PROVE  ClientBelieves(u)
<1>1. /\ \A w \in Others(u) : toClient'[w] = toClient[w]
      /\ toClient'[u] = Tail(toClient[u]) /\ e = toClient[u][1]
  <2>1. toClient[u] \in Seq(Answers(u)) /\ toClient = [w \in Users |-> toClient[w]]
    BY DEF Types, Wires
  <2>2. e = toClient[u][1]
    BY <2>1, TailFacts
  <2> QED BY <2>1, <2>2 DEF Rest, Others
<1>2. Patient(u) => Patient(u)'
  BY <1>1, ReceivedKeeps
<1> QED BY <1>1, <1>2 DEF ClientBelieves, asking

LEMMA SameKnown ==
  ASSUME NEW u \in Users, mine'[u] = mine[u], NEW e, ~(e.type = "dropped" /\ e.ok)
  PROVE  \A g \in Made : linked[u] /\ g \in DOMAIN mine'[u] => StillKnown(u, e, g)
BY DEF StillKnown

LEMMA ReceiveRequestBelieves ==
  ASSUME IMContactsAssumption, Types, NEW u \in Users, ReceiveRequest(u)
  PROVE  ClientBelieves(u)
<1>1. PICK e : e = Head(toClient[u])
  OBVIOUS
<1>2. /\ toClient[u] # <<>> /\ e.type = "request" /\ toClient' = Rest(u)
      /\ UNCHANGED <<groups, row, renamed, linked, mine, seen, added, toServer, asking>>
  BY <1>1 DEF ReceiveRequest, Received, database, history
<1> QED BY <1>1, <1>2, SameKnown, ReceivedBelieves

LEMMA ReceiveRefusedBelieves ==
  ASSUME IMContactsAssumption, Types, NEW u \in Users, ReceiveRefused(u)
  PROVE  ClientBelieves(u)
<1>1. PICK e : e = Head(toClient[u])
  OBVIOUS
<1>2. /\ toClient[u] # <<>> /\ e.type = "refused" /\ toClient' = Rest(u)
      /\ UNCHANGED <<groups, row, renamed, linked, mine, seen, added, toServer, asking>>
  BY <1>1 DEF ReceiveRefused, Received, database, clients, history
<1> QED BY <1>1, <1>2, SameKnown, ReceivedBelieves

\* Whom the client learns of is in no group that the user has made.
LEMMA ReceiveAddedBelieves ==
  ASSUME IMContactsAssumption, Types, NEW u \in Users, ReceiveAdded(u)
  PROVE  ClientBelieves(u)
<1>1. PICK e : e = Head(toClient[u])
  OBVIOUS
<1>2. /\ toClient[u] # <<>> /\ e.type = "added" /\ toClient' = Rest(u)
      /\ UNCHANGED <<groups, row, renamed, linked, toServer, asking>>
  BY <1>1 DEF ReceiveAdded, Received, database
<1>3. PICK c \in Others(u) : c = e.contact
  BY <1>1, <1>2, RestFacts, AnswerFacts DEF Types
<1>4. /\ mine \in [Users -> GroupMaps] /\ seen \in [Users -> [Users -> Groups \cup {NoGroup}]]
      /\ added \in [Users -> SUBSET Users] /\ c \in Users /\ mine[u] \in GroupMaps
      /\ Friends # NoGroup
  BY Numbers DEF Types, Programs, Others
<1>5. CASE ~e.ok
  <2>1. UNCHANGED <<mine, seen, added>>
    BY <1>1, <1>5 DEF ReceiveAdded
  <2>2. ~(e.type = "dropped" /\ e.ok)
    BY <1>2
  <2> QED BY <1>1, <1>2, <2>1, <2>2, SameKnown, ReceivedBelieves
<1>6. CASE e.ok
  <2>1. added' = [added EXCEPT ![u] = @ \cup {c}]
    BY <1>1, <1>3, <1>6 DEF ReceiveAdded
  <2>2. \/ seen[u][c] = NoGroup /\ mine' = [mine EXCEPT ![u] = With(@, c, Friends)]
           /\ seen' = [seen EXCEPT ![u][c] = Friends]
        \/ seen[u][c] # NoGroup /\ mine' = mine
           /\ seen' \in {seen, [seen EXCEPT ![u][c] = Friends]}
    BY <1>1, <1>3, <1>6 DEF ReceiveAdded
  <2>3. /\ \A w \in Others(u) : seen'[w] = seen[w] /\ added'[w] = added[w]
        /\ \A d \in Users : seen'[u][d] = NoGroup => seen[u][d] = NoGroup
        /\ seen'[u][c] # NoGroup /\ \A d \in added'[u] : d \in added[u] \/ d = c
    BY <1>4, <2>1, <2>2 DEF Others
  <2>4. CASE mine' = mine
    BY <1>1, <1>2, <2>3, <2>4, SameKnown, ReceivedBelieves
  <2>5. CASE seen[u][c] = NoGroup /\ mine' = [mine EXCEPT ![u] = With(@, c, Friends)]
    <3>1. PICK r : r = With(mine[u], c, Friends)
      OBVIOUS
    <3>2. /\ DOMAIN r = DOMAIN mine[u]
          /\ \A h \in DOMAIN r : \A d \in Users : d # c => (d \in r[h] <=> d \in mine[u][h])
      BY <1>4, <3>1, WithFacts DEF With
    <3>3. mine' = [mine EXCEPT ![u] = r]
      BY <2>5, <3>1
    <3>4. mine'[u] = r /\ \A w \in Others(u) : mine'[w] = mine[w]
      BY <1>4, <3>3 DEF Others
    <3>5. ASSUME Patient(u), linked[u], NEW g \in Made, g \in DOMAIN mine'[u]
          PROVE  StillKnown(u, e, g)
      <4>1. /\ row[u][c] \notin Made
            /\ \A i \in 1 .. Len(toServer[u]) :
                 toServer[u][i].type = "move" => toServer[u][i].contact # c
        BY <1>4, <2>5, <3>5 DEF Patient, Unseen
      <4> QED BY <1>2, <3>2, <3>4, <3>5, <4>1 DEF StillKnown
    <3> QED BY <1>1, <1>2, <2>3, <3>4, <3>5, ReceivedBelieves
  <2> QED BY <2>2, <2>4, <2>5
<1> QED BY <1>5, <1>6

\* Who is deleted was in a group before, and is not about to be moved.
LEMMA ReceiveDeletedBelieves ==
  ASSUME IMContactsAssumption, Types, NEW u \in Users, ReceiveDeleted(u)
  PROVE  ClientBelieves(u)
<1>1. PICK e : e = Head(toClient[u])
  OBVIOUS
<1>2. /\ toClient[u] # <<>> /\ e.type = "deleted" /\ toClient' = Rest(u)
      /\ UNCHANGED <<groups, row, renamed, linked, added, toServer, asking>>
  BY <1>1 DEF ReceiveDeleted, Received, database, history
<1>3. PICK c \in Others(u) : c = e.contact
  BY <1>1, <1>2, RestFacts, AnswerFacts DEF Types
<1>4. PICK g \in Groups : g = Target(e)
  BY Numbers DEF Target
<1>5. PICK old : old = seen[u][c]
  OBVIOUS
<1>6. /\ mine \in [Users -> GroupMaps] /\ seen \in [Users -> [Users -> Groups \cup {NoGroup}]]
      /\ c \in Users /\ mine[u] \in GroupMaps /\ g # NoGroup
  BY Numbers DEF Types, Programs, Others
<1>7. /\ old \in DOMAIN mine[u] /\ g \in DOMAIN mine[u]
      /\ mine' = [mine EXCEPT ![u] = Moved(@, c, old, g)]
      /\ seen' = [seen EXCEPT ![u][c] = g]
  BY <1>1, <1>3, <1>4, <1>5 DEF ReceiveDeleted, CanMove
<1>8. PICK r : r = Moved(mine[u], c, old, g)
  OBVIOUS
<1>9. /\ DOMAIN r = DOMAIN mine[u]
      /\ \A h \in DOMAIN r : \A d \in Users : d # c => (d \in r[h] <=> d \in mine[u][h])
  BY <1>6, <1>7, <1>8, MovedFacts
<1>10. mine' = [mine EXCEPT ![u] = r]
  BY <1>7, <1>8
<1>11. mine'[u] = r /\ \A w \in Others(u) : mine'[w] = mine[w]
  BY <1>6, <1>10 DEF Others
<1>12. /\ \A w \in Others(u) : seen'[w] = seen[w]
       /\ \A d \in Users : seen'[u][d] = NoGroup => seen[u][d] = NoGroup
  BY <1>6, <1>7 DEF Others
<1>13. ASSUME Patient(u), linked[u], NEW h \in Made, h \in DOMAIN mine'[u]
       PROVE  StillKnown(u, e, h)
  <2>1. toClient[u] \in Seq(Answers(u))
    BY DEF Types, Wires
  <2>2. 1 \in 1 .. Len(toClient[u]) /\ toClient[u][1] = e
    BY <1>1, <1>2, <2>1, TailFacts
  <2>3. row[u][c] \notin Made
    BY <1>2, <1>3, <1>13, <2>2 DEF Patient, Unseen
  <2>4. OnlyAdds(toServer[u])
    BY <1>2, <1>13, <2>2 DEF Patient, Busy, SlowAnswers
  <2>5. \A i \in 1 .. Len(toServer[u]) :
          toServer[u][i].type = "move" => toServer[u][i].contact # c
    BY <2>4 DEF OnlyAdds
  <2> QED BY <1>2, <1>9, <1>11, <1>13, <2>3, <2>5 DEF StillKnown
<1> QED BY <1>1, <1>2, <1>11, <1>12, <1>13, ReceivedBelieves

LEMMA ReceiveGroupBelieves ==
  ASSUME IMContactsAssumption, Types, NEW u \in Users, ReceiveGroup(u)
  PROVE  ClientBelieves(u)
<1>1. PICK e : e = Head(toClient[u])
  OBVIOUS
<1>2. /\ toClient[u] # <<>> /\ e.type \in {"created", "dropped"} /\ toClient' = Rest(u)
      /\ UNCHANGED <<groups, row, renamed, linked, seen, added, toServer, asking>>
  BY <1>1 DEF ReceiveGroup, Received, database, history
<1>3. mine \in [Users -> GroupMaps] /\ mine[u] \in GroupMaps
  BY DEF Types, Programs
<1>4. e.type = "created" => e.group \in Groups
  BY <1>1, <1>2, RestFacts, AnswerFacts DEF Types
<1>5. PICK m : m = IF ~e.ok THEN mine[u]
                   ELSE IF e.type = "created" THEN WithGroup(mine[u], e.group)
                   ELSE WithoutGroup(mine[u], e.group)
  OBVIOUS
<1>6. mine' = [mine EXCEPT ![u] = m]
  BY <1>1, <1>5 DEF ReceiveGroup
<1>7. mine'[u] = m /\ \A w \in Others(u) : mine'[w] = mine[w]
  BY <1>3, <1>6 DEF Others
<1>8. ASSUME NEW g \in Made, g \in DOMAIN m PROVE StillKnown(u, e, g)
  <2>1. CASE ~e.ok
    BY <1>5, <1>7, <1>8, <2>1 DEF StillKnown
  <2>2. CASE e.ok /\ e.type = "created"
    <3>1. PICK x \in Groups : x = e.group
      BY <1>4, <2>2
    <3>2. PICK k \in GroupMaps : k = mine[u]
      BY <1>3
    <3>3. m = WithGroup(k, x)
      BY <1>5, <2>2, <3>1, <3>2
    <3>4. DOMAIN m = DOMAIN k \cup {x} /\ \A h \in DOMAIN k : m[h] = k[h]
      <4>1. /\ DOMAIN WithGroup(k, x) = DOMAIN k \cup {x}
            /\ \A h \in DOMAIN k : WithGroup(k, x)[h] = k[h]
        BY WithGroupFacts
      <4> QED BY <3>3, <4>1
    <3> QED BY <1>7, <1>8, <2>2, <3>1, <3>2, <3>4 DEF StillKnown
  <2>3. CASE e.ok /\ e.type = "dropped"
    <3>1. DOMAIN m = DOMAIN mine[u] \ {e.group}
          /\ \A h \in DOMAIN mine[u] \ {e.group} : m[h] = mine[u][h]
      BY <1>3, <1>5, <2>3, WithoutGroupFacts
    <3> QED BY <1>7, <1>8, <2>3, <3>1 DEF StillKnown
  <2> QED BY <1>2, <2>1, <2>2, <2>3
<1> QED BY <1>1, <1>2, <1>7, <1>8, ReceivedBelieves

\* A connection that ends, perhaps after a last request to move.
LEMMA EndsBelieves ==
  ASSUME IMContactsAssumption, Types, NEW u \in Users, NEW sent \in Seq(Requests(u)),
         Ends(u, sent), Len(toServer[u]) <= Len(sent),
         \A i \in 1 .. Len(toServer[u]) : sent[i] = toServer[u][i],
         \A i \in (Len(toServer[u]) + 1) .. Len(sent) : sent[i].type = "move",
         UNCHANGED <<groups, row, renamed, mine, seen, asking>>
  PROVE  ClientBelieves(u)
<1>1. /\ \A w \in Users : w # u => toServer'[w] = toServer[w]
      /\ linked' = [linked EXCEPT ![u] = FALSE]
      /\ \A w \in Users : added'[w] \subseteq added[w]
  BY EndsFacts DEF Types
<1>2. PICK n \in 0 .. Len(sent) :
        /\ Len(toServer'[u]) = n + 1 /\ \A i \in 1 .. n : toServer'[u][i] = sent[i]
        /\ toServer'[u][n + 1].type = "gone"
  BY EndsFacts DEF Types
<1>3. /\ toClient' = [toClient EXCEPT ![u] = <<>>]
      /\ \A w \in Others(u) : added'[w] = added[w]
  BY DEF Ends, Types, Programs, Others
<1>4. /\ ~linked'[u] /\ \A w \in Others(u) : linked'[w] = linked[w] /\ toClient'[w] = toClient[w]
  BY <1>1, <1>3 DEF Types, Programs, Wires, Others
<1>5. ASSUME Patient(u) PROVE Patient(u)'
  <2>1. PICK k \in Nat : k = Len(toServer[u])
    <3>1. toServer[u] \in Seq(Requests(u))
      BY DEF Types, Wires
    <3>2. Len(toServer[u]) \in Nat
      BY <3>1
    <3> QED BY <3>2
  <2>2. PICK p : p = toServer'[u]
    OBVIOUS
  <2>3. PICK l \in Nat : l = IF n <= k THEN n ELSE k
    BY <1>2
  <2>4. l <= k /\ Len(p) \in Nat /\ l <= Len(p) /\ \A i \in 1 .. l : p[i] = toServer[u][i]
    BY <1>2, <2>1, <2>2, <2>3
  <2>5. ASSUME NEW i \in (l + 1) .. Len(p) PROVE p[i].type \in {"move", "gone"}
    <3>1. i = n + 1 \/ (i \in 1 .. n /\ i \in (k + 1) .. Len(sent))
      BY <1>2, <2>1, <2>2, <2>3, <2>5
    <3> QED BY <1>2, <2>1, <2>2, <3>1
  <2> QED BY <1>4, <1>5, <2>1, <2>2, <2>4, <2>5, EndedKeeps
<1> QED BY <1>1, <1>3, <1>4, <1>5 DEF ClientBelieves, asking, Others

LEMMA LeaveBelieves ==
  ASSUME IMContactsAssumption, Types, NEW u \in Users, Leave(u)
  PROVE  ClientBelieves(u)
<1>1. PICK q : q = toServer[u]
  OBVIOUS
<1>2. Ends(u, q) /\ UNCHANGED <<groups, row, renamed, mine, seen, asking>>
  BY <1>1 DEF Leave, database, history
<1>3. q \in Seq(Requests(u)) /\ Len(q) \in Nat
  <2>1. q \in Seq(Requests(u))
    BY <1>1 DEF Types, Wires
  <2> QED BY <2>1
<1>4. Len(q) <= Len(q) /\ \A i \in (Len(q) + 1) .. Len(q) : FALSE
  BY <1>3
<1> QED BY <1>1, <1>2, <1>3, <1>4, EndsBelieves

LEMMA DieOfMoveBelieves ==
  ASSUME IMContactsAssumption, Types, NEW u \in Users, DieOfMove(u)
  PROVE  ClientBelieves(u)
<1>1. PICK q : q = toServer[u]
  OBVIOUS
<1>2. UNCHANGED <<groups, row, renamed, mine, seen, asking>>
  BY DEF DieOfMove, database, history
<1>3. q \in Seq(Requests(u)) /\ Len(q) \in Nat
  <2>1. q \in Seq(Requests(u))
    BY <1>1 DEF Types, Wires
  <2> QED BY <2>1
<1>4. CASE Ends(u, q)
  <2>1. Len(q) <= Len(q) /\ \A i \in (Len(q) + 1) .. Len(q) : FALSE
    BY <1>3
  <2> QED BY <1>1, <1>2, <1>3, <1>4, <2>1, EndsBelieves
<1>5. ASSUME NEW c \in Users, NEW g \in FriendGroups(mine[u]), IsFriend(u, c),
             Ends(u, Append(q, MovePacket(c, seen[u][c], g)))
      PROVE  ClientBelieves(u)
  <2>1. c \in Others(u) /\ seen[u][c] \in Groups /\ mine[u] \in GroupMaps
    BY <1>5 DEF IsFriend, Types, Programs, Others
  <2>2. g \in Friends .. MaxGroup
    BY <2>1, FriendGroupsFacts
  <2>3. PICK p : p = MovePacket(c, seen[u][c], g)
    OBVIOUS
  <2>4. p \in Requests(u) /\ p.type = "move"
    BY <2>1, <2>2, <2>3 DEF Requests, MovePacket
  <2>5. PICK r : r = Append(q, p)
    OBVIOUS
  <2>6. /\ r \in Seq(Requests(u)) /\ Len(r) = Len(q) + 1 /\ r[Len(q) + 1] = p
        /\ \A i \in 1 .. Len(q) : r[i] = q[i]
    BY <1>3, <2>4, <2>5, AppendFacts
  <2>7. Len(q) <= Len(r) /\ \A i \in (Len(q) + 1) .. Len(r) : r[i].type = "move"
    BY <1>3, <2>4, <2>6
  <2>8. Ends(u, r)
    BY <1>5, <2>3, <2>5
  <2> QED BY <1>1, <1>2, <2>6, <2>7, <2>8, EndsBelieves
<1> QED BY <1>1, <1>4, <1>5 DEF DieOfMove

\* Who has no dialog open when another one's program takes a step has none afterwards, too.
LEMMA ClientStepBelieves ==
  ASSUME IMContactsAssumption, IInv, Beliefs, NEW u \in Users, ClientStep(u)
  PROVE  Beliefs'
<1>1. Types
  BY DEF IInv
<1>2. UNCHANGED <<groups, row, online, memory, renamed>>
  BY ClientKeeps DEF database
<1>3. ClientBelieves(u)
  <2>1. CASE Receive(u)
    BY <1>1, <2>1, ReceiveRequestBelieves, ReceiveAddedBelieves, ReceiveRefusedBelieves,
       ReceiveDeletedBelieves, ReceiveGroupBelieves DEF Receive
  <2>2. CASE Leave(u)
    BY <1>1, <2>2, LeaveBelieves
  <2>3. CASE DieOfMove(u)
    BY <1>1, <2>3, DieOfMoveBelieves
  <2>4. CASE CreateGroup(u) \/ DeleteGroup(u) \/ RenameGroup(u)
    BY <1>1, <2>4, CreateGroupBelieves, DeleteGroupBelieves, RenameGroupBelieves
  <2>5. ASSUME NEW c \in Users,
               Add(u, c) \/ Answer(u, c) \/ Delete(u, c) \/ Move(u, c) \/ Settle(u, c)
        PROVE  ClientBelieves(u)
    BY <1>1, <2>5, AddBelieves, AnswerBelieves, DeleteBelieves, MoveBelieves, SettleBelieves
  <2> QED BY <2>1, <2>2, <2>3, <2>4, <2>5 DEF ClientStep
<1>4. ASSUME NEW w \in Users, w \notin hasty' PROVE Patient(w)'
  <2>1. w \notin hasty
    BY <1>3, <1>4 DEF ClientBelieves
  <2>2. Patient(w)
    BY <2>1 DEF Beliefs
  <2>3. CASE w = u
    BY <1>3, <1>4, <2>2, <2>3 DEF ClientBelieves
  <2>4. CASE w # u
    <3>1. w \in Others(u)
      BY <2>4 DEF Others
    <3>2. /\ toServer'[w] = toServer[w] /\ toClient'[w] = toClient[w] /\ linked'[w] = linked[w]
          /\ mine'[w] = mine[w] /\ seen'[w] = seen[w]
      BY <1>3, <3>1 DEF ClientBelieves
    <3> QED BY <1>1, <1>2, <2>2, <3>2, SamePatient
  <2> QED BY <2>3, <2>4
<1>5. ASSUME NEW w \in Users PROVE Held(w)'
  BY <1>2 DEF Beliefs, Held
<1>6. ASSUME NEW w \in Users PROVE Settling(w)'
  <2>1. Settling(w)
    BY DEF Beliefs
  <2>2. CASE w = u
    <3>1. added[u] \in SUBSET Users
      BY <1>1 DEF Types, Programs
    <3> QED BY <1>3, <2>1, <2>2, <3>1 DEF ClientBelieves, Settling
  <2>3. CASE w # u
    BY <1>3, <2>1, <2>3 DEF ClientBelieves, Settling, Others
  <2> QED BY <2>2, <2>3
<1> QED BY <1>4, <1>5, <1>6 DEF Beliefs

-----------------------------------------------------------------------------
(* The server, and the clients' beliefs                                    *)

LEMMA SentMore ==
  ASSUME NEW q, Answered(q), NEW u \in Users, NEW p \in Answers(u)
  PROVE  /\ \A w \in Users : w # u => Sent(q, u, p)[w] = q[w]
         /\ \A w \in Users : Longer(q[w], Sent(q, u, p)[w])
         /\ \A i \in (Len(q[u]) + 1) .. Len(Sent(q, u, p)[u]) : Sent(q, u, p)[u][i] = p
         /\ linked[u] => \E i \in 1 .. Len(Sent(q, u, p)[u]) : Sent(q, u, p)[u][i] = p
<1>1. PICK s : s = Sent(q, u, p)
  OBVIOUS
<1>2. /\ q = [w \in Users |-> q[w]] /\ \A w \in Users : q[w] \in Seq(Answers(w))
  BY DEF Answered
<1>3. \A w \in Users : Len(q[w]) \in Nat
  BY <1>2
<1>4. CASE linked[u]
  <2>1. s = [q EXCEPT ![u] = Append(q[u], p)]
    BY <1>1, <1>4 DEF Sent
  <2>2. s[u] = Append(q[u], p) /\ \A w \in Users : w # u => s[w] = q[w]
    BY <1>2, <2>1
  <2>3. /\ Len(s[u]) = Len(q[u]) + 1 /\ s[u][Len(q[u]) + 1] = p
        /\ \A i \in 1 .. Len(q[u]) : s[u][i] = q[u][i]
    BY <1>2, <2>2, AppendFacts
  <2>4. PICK n \in Nat : n = Len(q[u])
    BY <1>3
  <2>5. /\ Longer(q[u], s[u])
        /\ \A i \in (n + 1) .. Len(s[u]) : s[u][i] = p
        /\ \E i \in 1 .. Len(s[u]) : s[u][i] = p
    <3>1. Len(s[u]) = n + 1 /\ n + 1 \in 1 .. Len(s[u]) /\ s[u][n + 1] = p
      BY <2>3, <2>4
    <3>2. Longer(q[u], s[u])
      BY <2>3, <2>4 DEF Longer
    <3>3. \A i \in (n + 1) .. Len(s[u]) : i = n + 1
      BY <3>1
    <3> QED BY <3>1, <3>2, <3>3
  <2>6. \A w \in Users : Longer(q[w], s[w])
    <3>1. ASSUME NEW w \in Users PROVE Longer(q[w], q[w])
      BY <1>3 DEF Longer
    <3> QED BY <2>2, <2>5, <3>1
  <2> QED BY <1>1, <2>2, <2>4, <2>5, <2>6
<1>5. CASE ~linked[u]
  <2>1. s = q
    BY <1>1, <1>5 DEF Sent
  <2>2. \A w \in Users : Longer(q[w], s[w])
    BY <1>3, <2>1 DEF Longer
  <2>3. \A i \in (Len(q[u]) + 1) .. Len(s[u]) : FALSE
    BY <1>3, <2>1
  <2> QED BY <1>1, <1>5, <2>1, <2>2, <2>3
<1> QED BY <1>4, <1>5

LEMMA SameAnswers ==
  ASSUME Types, NEW w \in Users, toClient'[w] = toClient[w]
  PROVE  /\ Longer(toClient[w], toClient'[w])
         /\ \A i \in (Len(toClient[w]) + 1) .. Len(toClient'[w]) : FALSE
<1>1. PICK r : r = toClient[w]
  OBVIOUS
<1>2. Len(r) \in Nat
  <2>1. r \in Seq(Answers(w))
    BY <1>1 DEF Types, Wires
  <2> QED BY <2>1
<1>3. Longer(r, r) /\ \A i \in (Len(r) + 1) .. Len(r) : FALSE
  BY <1>2 DEF Longer
<1> QED BY <1>1, <1>3

\* The answers that both get of an application that is accepted.
LEMMA AddedAnswers ==
  ASSUME IMContactsAssumption, Types, NEW u \in Users, NEW c \in Others(u),
         AddContactForUser(u, c, Friends)
  PROVE  \A w \in Users :
           /\ Longer(toClient[w], toClient'[w])
           /\ \A i \in (Len(toClient[w]) + 1) .. Len(toClient'[w]) : toClient'[w][i].type = "added"
<1>1. PICK p : p = Result(c, Friends, CanAdd(row, u, c, Friends))
  OBVIOUS
<1>2. PICK b : b = Result(u, Friends, TRUE)
  OBVIOUS
<1>3. p \in Answers(u) /\ p.type = "added" /\ b \in Answers(c) /\ b.type = "added" /\ c \in Users
  BY <1>1, <1>2, Numbers DEF Answers, Result, CanAdd, Others
<1>4. PICK told : told = Sent(toClient, u, p)
  OBVIOUS
<1>5. Answered(toClient)
  BY DEF Answered, Types, Wires
<1>6. Answered(told)
  BY <1>3, <1>4, <1>5, SentFacts
<1>7. toClient' = IF online[c] THEN Sent(told, c, b) ELSE told
  BY <1>1, <1>2, <1>4 DEF AddContactForUser
<1>8. /\ \A w \in Users : w # u => told[w] = toClient[w]
      /\ \A w \in Users : Longer(toClient[w], told[w])
      /\ \A i \in (Len(toClient[u]) + 1) .. Len(told[u]) : told[u][i] = p
  BY <1>3, <1>4, <1>5, SentMore
<1>9. c # u
  BY DEF Others
<1>10. \A w \in Users : Longer(toClient[w], told[w]) /\
         \A i \in (Len(toClient[w]) + 1) .. Len(told[w]) : told[w][i].type = "added"
  <2>1. ASSUME NEW w \in Users, w # u, NEW i \in (Len(toClient[w]) + 1) .. Len(told[w])
        PROVE  FALSE
    <3>1. told[w] = toClient[w] /\ Len(toClient[w]) \in Nat
      BY <1>8, <2>1 DEF Longer
    <3> QED BY <2>1, <3>1
  <2> QED BY <1>3, <1>8, <2>1
<1>11. CASE ~online[c]
  BY <1>7, <1>10, <1>11
<1>12. CASE online[c]
  <2>1. PICK s : s = Sent(told, c, b)
    OBVIOUS
  <2>2. /\ \A w \in Users : w # c => s[w] = told[w]
        /\ Longer(told[c], s[c])
        /\ \A i \in (Len(told[c]) + 1) .. Len(s[c]) : s[c][i] = b
    BY <1>3, <1>6, <2>1, SentMore
  <2>3. told[c] = toClient[c]
    BY <1>3, <1>8, <1>9
  <2>4. toClient' = s
    BY <1>7, <1>12, <2>1
  <2> QED BY <1>3, <1>10, <2>2, <2>3, <2>4
<1> QED BY <1>11, <1>12

\* What most handlers do to the rows of the groups that users have made: they stay, and who
\* has one is a friend in memory still.
RowsStay ==
  \A a, b \in Users : row'[a][b] \in Made =>
    row'[a][b] = row[a][b] /\ (HasFriend(memory[a], b) => HasFriend(memory'[a], b))

LEMMA HeldStays ==
  ASSUME RowsStay, UNCHANGED renamed, \A a \in Users : online'[a] => online[a],
         NEW w \in Users, Held(w)
  PROVE  Held(w)'
BY DEF RowsStay, Held

LEMMA ServerStays ==
  ASSUME IInv, Beliefs, NEW u \in Users, toServer[u] # <<>>, toServer' = Taken(u),
         UNCHANGED <<clients, asking, renamed>>, \A a \in Users : online'[a] => online[a],
         RowsStay, groups[u] \subseteq groups'[u],
         \A w \in Others(u) : groups'[w] = groups[w] /\ QuickAnswers(toClient[w], toClient'[w]),
         NEW e, e = Head(toServer[u]), e.type # "move",
         Patient(u) => Answering(u, e, toClient[u], toClient'[u])
  PROVE  Beliefs'
<1>1. Types /\ UNCHANGED <<linked, mine, seen, added, hasty>>
  BY DEF IInv, clients, asking
<1>2. /\ \A w \in Users : w # u => toServer'[w] = toServer[w]
      /\ toServer'[u] = Tail(toServer[u]) /\ e = toServer[u][1]
  BY <1>1, TakenFacts DEF Types
<1>3. ASSUME NEW w \in Users, Patient(w) PROVE Patient(w)'
  <2>1. CASE w = u
    <3>1. RowFollows(u, e)
      BY DEF RowsStay, RowFollows, Departs
    <3>2. Answering(u, e, toClient[u], toClient'[u])
      BY <1>3, <2>1
    <3> QED BY <1>1, <1>2, <1>3, <2>1, <3>1, <3>2, HandledKeeps
  <2>2. CASE w # u
    <3>1. \A c \in Users : row'[w][c] \in Made => row'[w][c] = row[w][c]
      BY DEF RowsStay
    <3>2. groups'[w] = groups[w] /\ QuickAnswers(toClient[w], toClient'[w])
      BY <2>2 DEF Others
    <3> QED BY <1>1, <1>2, <1>3, <2>2, <3>1, <3>2, OutsideKeeps
  <2> QED BY <2>1, <2>2
<1>4. ASSUME NEW w \in Users PROVE Held(w)' /\ Settling(w)'
  <2>1. Held(w) /\ Settling(w)
    BY DEF Beliefs
  <2>2. Held(w)'
    BY <2>1, HeldStays
  <2> QED BY <1>1, <2>1, <2>2 DEF Settling
<1> QED BY <1>1, <1>3, <1>4 DEF Beliefs

\* What users are told of applications keeps no dialog open and closes none.
Told ==
  \A w \in Users :
    /\ Longer(toClient[w], toClient'[w])
    /\ \A i \in (Len(toClient[w]) + 1) .. Len(toClient'[w]) :
         toClient'[w][i].type \in {"added", "request", "refused"}

LEMMA SameTold ==
  ASSUME Types, UNCHANGED toClient
  PROVE  Told
BY SameAnswers DEF Told

LEMMA SentTold ==
  ASSUME Types, NEW c \in Users, NEW p \in Answers(c), p.type \in {"request", "refused"},
         toClient' = Sent(toClient, c, p)
  PROVE  Told
<1>1. Answered(toClient)
  BY DEF Types, Wires, Answered
<1>2. /\ \A w \in Users : w # c => toClient'[w] = toClient[w]
      /\ \A w \in Users : Longer(toClient[w], toClient'[w])
      /\ \A i \in (Len(toClient[c]) + 1) .. Len(toClient'[c]) : toClient'[c][i] = p
  BY <1>1, SentMore
<1>3. ASSUME NEW w \in Users, w # c, NEW i \in (Len(toClient[w]) + 1) .. Len(toClient'[w])
      PROVE  FALSE
  BY <1>2, <1>3, SameAnswers
<1> QED BY <1>2, <1>3 DEF Told

LEMMA ToldStays ==
  ASSUME IInv, Beliefs, NEW u \in Users, toServer[u] # <<>>, toServer' = Taken(u),
         UNCHANGED <<groups, online, clients, asking, renamed>>, RowsStay, Told,
         Head(toServer[u]).type # "move"
  PROVE  Beliefs'
<1>1. PICK e : e = Head(toServer[u])
  OBVIOUS
<1>2. \A w \in Others(u) : QuickAnswers(toClient[w], toClient'[w])
  BY DEF Told, QuickAnswers, SlowAnswers, Others
<1>3. Answering(u, e, toClient[u], toClient'[u])
  BY DEF Told, Answering, SlowAnswers
<1> QED BY <1>1, <1>2, <1>3, ServerStays

LEMMA AddedStays ==
  ASSUME IMContactsAssumption, IInv, NEW u \in Users, NEW c \in Others(u),
         AddContactForUser(u, c, Friends)
  PROVE  RowsStay /\ Told
<1>1. /\ Types /\ Singles /\ Friends \notin Made
      /\ \A a \in Users : Friends \in DOMAIN memory[a] /\ Friends \in FriendGroups(memory[a])
  BY Numbers DEF IInv, Types, Memories, FriendGroups
<1>2. /\ \A a, b \in Users : row'[a][b] =
           IF Between(u, c, a, b) /\ row[a][b] = NoGroup THEN Friends ELSE row[a][b]
      /\ \A a \in Users : DOMAIN memory'[a] = DOMAIN memory[a]
      /\ \A a, b \in Users : ~Between(u, c, a, b) =>
           \A g \in DOMAIN memory[a] : b \in memory'[a][g] <=> b \in memory[a][g]
      /\ \A a, b \in Users : Between(u, c, a, b) =>
           \/ /\ row[a][b] # NoGroup
              /\ \A g \in DOMAIN memory[a] : b \in memory'[a][g] <=> b \in memory[a][g]
           \/ b \in memory'[a][Friends]
  BY <1>1, AddedFacts
<1>3. ASSUME NEW a \in Users, NEW b \in Users, row'[a][b] \in Made
      PROVE  row'[a][b] = row[a][b] /\ (HasFriend(memory[a], b) => HasFriend(memory'[a], b))
  <2>1. row'[a][b] = row[a][b]
    BY <1>1, <1>2, <1>3
  <2>2. \/ \A g \in DOMAIN memory[a] : b \in memory'[a][g] <=> b \in memory[a][g]
        \/ b \in memory'[a][Friends]
    BY <1>2
  <2> QED BY <1>1, <1>2, <2>1, <2>2 DEF HasFriend, FriendGroups
<1>4. Told
  BY <1>1, AddedAnswers DEF Told
<1> QED BY <1>3, <1>4 DEF RowsStay

LEMMA SameRows ==
  ASSUME UNCHANGED <<row, memory>>
  PROVE  RowsStay
BY DEF RowsStay

LEMMA HandleAddBelieves ==
  ASSUME IMContactsAssumption, IInv, Beliefs, NEW u \in Users, HandleAdd(u)
  PROVE  Beliefs'
<1>1. /\ toServer[u] # <<>> /\ Head(toServer[u]).type = "add" /\ toServer' = Taken(u)
      /\ UNCHANGED <<groups, online, clients, asking, renamed>>
  BY DEF HandleAdd
<1>2. Types
  BY DEF IInv
<1>3. PICK c \in Others(u) : c = Head(toServer[u]).contact
  BY <1>1, <1>2, HeadFacts, RequestFacts
<1>4. CASE AddContactForUser(u, c, Friends)
  BY <1>1, <1>4, AddedStays, ToldStays
<1>5. CASE UNCHANGED <<row, memory, toClient>>
  BY <1>1, <1>2, <1>5, SameRows, SameTold, ToldStays
<1>6. CASE /\ toClient' = Sent(toClient, c, [type |-> "request", contact |-> u])
           /\ UNCHANGED <<row, memory>>
  <2>1. PICK p : p = [type |-> "request", contact |-> u]
    OBVIOUS
  <2>2. p \in Answers(c) /\ p.type = "request" /\ c \in Users
    BY <2>1 DEF Answers, Others
  <2>3. Told
    BY <1>2, <1>6, <2>1, <2>2, SentTold
  <2> QED BY <1>1, <1>6, <2>3, SameRows, ToldStays
<1> QED BY <1>3, <1>4, <1>5, <1>6 DEF HandleAdd

LEMMA HandleResponseBelieves ==
  ASSUME IMContactsAssumption, IInv, Beliefs, NEW u \in Users, HandleResponse(u)
  PROVE  Beliefs'
<1>1. /\ toServer[u] # <<>> /\ Head(toServer[u]).type = "response" /\ toServer' = Taken(u)
      /\ UNCHANGED <<groups, online, clients, asking, renamed>>
  BY DEF HandleResponse
<1>2. Types
  BY DEF IInv
<1>3. PICK c \in Others(u) : c = Head(toServer[u]).contact
  BY <1>1, <1>2, HeadFacts, RequestFacts
<1>4. CASE AddContactForUser(u, c, Friends)
  BY <1>1, <1>4, AddedStays, ToldStays
<1>5. CASE UNCHANGED <<row, memory, toClient>>
  BY <1>1, <1>2, <1>5, SameRows, SameTold, ToldStays
<1>6. CASE /\ toClient' = Sent(toClient, c, [type |-> "refused", contact |-> u])
           /\ UNCHANGED <<row, memory>>
  <2>1. PICK p : p = [type |-> "refused", contact |-> u]
    OBVIOUS
  <2>2. p \in Answers(c) /\ p.type = "refused" /\ c \in Users
    BY <2>1 DEF Answers, Others
  <2>3. Told
    BY <1>2, <1>6, <2>1, <2>2, SentTold
  <2> QED BY <1>1, <1>6, <2>3, SameRows, ToldStays
<1> QED BY <1>3, <1>4, <1>5, <1>6 DEF HandleResponse

LEMMA HandleGoneBelieves ==
  ASSUME IMContactsAssumption, IInv, Beliefs, NEW u \in Users, HandleGone(u)
  PROVE  Beliefs'
<1>1. /\ toServer[u] # <<>> /\ Head(toServer[u]).type = "gone" /\ toServer' = Taken(u)
      /\ UNCHANGED <<groups, row, memory, toClient, clients, asking, renamed>>
      /\ online' = [online EXCEPT ![u] = FALSE]
  BY DEF HandleGone, database, history
<1>2. Types /\ online \in [Users -> BOOLEAN]
  BY DEF IInv, Types, Memories
<1>3. \A a \in Users : online'[a] => online[a]
  BY <1>1, <1>2
<1>4. Told /\ RowsStay
  BY <1>1, <1>2, SameTold, SameRows
<1>5. PICK e : e = Head(toServer[u])
  OBVIOUS
<1>6. \A w \in Others(u) : groups'[w] = groups[w] /\ QuickAnswers(toClient[w], toClient'[w])
  BY <1>1, <1>4 DEF Told, QuickAnswers, SlowAnswers, Others
<1>7. Answering(u, e, toClient[u], toClient'[u])
  BY <1>4 DEF Told, Answering, SlowAnswers
<1> QED BY <1>1, <1>3, <1>4, <1>5, <1>6, <1>7, ServerStays

\* Who is deleted is in no group that the user has made when the answer is sent.
LEMMA HandleDeleteBelieves ==
  ASSUME IMContactsAssumption, IInv, Beliefs, NEW u \in Users, HandleDelete(u)
  PROVE  Beliefs'
<1>1. /\ toServer[u] # <<>> /\ Head(toServer[u]).type = "delete" /\ toServer' = Taken(u)
      /\ UNCHANGED <<online, clients, asking, renamed>>
  BY DEF HandleDelete
<1>2. Types /\ Singles
  BY DEF IInv
<1>3. PICK e : e = Head(toServer[u])
  OBVIOUS
<1>4. PICK c \in Others(u) : c = e.contact
  BY <1>1, <1>2, <1>3, HeadFacts, RequestFacts
<1>5. /\ c \in Users /\ c # u /\ Blacklist \notin Made /\ NoGroup \notin Made
      /\ Blacklist \in Groups
      /\ groups \in [Users -> SUBSET Groups]
      /\ row \in [Users -> [Users -> Groups \cup {NoGroup}]]
      /\ memory \in [Users -> GroupMaps]
      /\ \A a \in Users : Blacklist \in DOMAIN memory[a]
  <2>1. Blacklist \notin Made /\ NoGroup \notin Made /\ Blacklist \in Groups
    BY Numbers
  <2>2. Blacklist \in DOMAIN DefaultGroups
    BY Numbers
  <2> QED BY <1>2, <2>1, <2>2 DEF Others, Types, Stores, Memories
<1>6. PICK kept : kept = IF e.blacklist /\ row[u][c] # NoGroup THEN Blacklist ELSE NoGroup
  OBVIOUS
<1>7. PICK back : back = IF e.both THEN NoGroup ELSE row[c][u]
  OBVIOUS
<1>8. PICK off : off = Without(memory[u], c)
  OBVIOUS
<1>9. PICK mu : mu = IF e.blacklist THEN [off EXCEPT ![Blacklist] = @ \cup {c}] ELSE off
  OBVIOUS
<1>10. PICK mc : mc = IF e.both THEN Without(memory[c], u) ELSE memory[c]
  OBVIOUS
<1>11. /\ groups' = [groups EXCEPT ![u] = IF e.blacklist THEN @ \cup {Blacklist} ELSE @]
       /\ row' = [row EXCEPT ![u][c] = kept, ![c][u] = back]
       /\ memory' = [memory EXCEPT ![u] = mu, ![c] = mc]
       /\ toClient' = Sent(toClient, u, [type |-> "deleted", contact |-> c,
                                         blacklist |-> e.blacklist])
  BY <1>3, <1>4, <1>5, <1>6, <1>7, <1>8, <1>9, <1>10 DEF HandleDelete
<1>12. /\ DOMAIN mu = DOMAIN memory[u]
       /\ \A g \in DOMAIN memory[u] : \A d \in memory[u][g] : d # c => d \in mu[g]
  <2>1. /\ off \in GroupMaps /\ DOMAIN off = DOMAIN memory[u]
        /\ \A g \in DOMAIN memory[u] : \A d \in memory[u][g] : d # c => d \in off[g]
    BY <1>5, <1>8, WithoutFacts
  <2>2. off = [g \in DOMAIN off |-> off[g]] /\ Blacklist \in DOMAIN off
    BY <1>5, <2>1, MapFacts
  <2>3. CASE e.blacklist
    <3>1. /\ DOMAIN mu = DOMAIN off
          /\ \A g \in DOMAIN off : mu[g] = IF g = Blacklist THEN off[g] \cup {c} ELSE off[g]
      BY <1>9, <2>2, <2>3
    <3> QED BY <2>1, <3>1
  <2>4. CASE ~e.blacklist
    BY <1>9, <2>1, <2>4
  <2> QED BY <2>3, <2>4
<1>13. /\ DOMAIN mc = DOMAIN memory[c] /\ (~e.both => mc = memory[c])
       /\ \A g \in DOMAIN memory[c] : \A d \in memory[c][g] : d # u => d \in mc[g]
  BY <1>5, <1>10, WithoutFacts
<1>14. \A a \in Users : memory'[a] = IF a = c THEN mc ELSE IF a = u THEN mu ELSE memory[a]
  BY <1>5, <1>11
<1>15. /\ row'[u][c] = kept /\ row'[c][u] = back
       /\ \A a, b \in Users : ~Between(u, c, a, b) => row'[a][b] = row[a][b]
  BY <1>5, <1>11 DEF Between
<1>16. kept \notin Made
  BY <1>5, <1>6
<1>17. ASSUME NEW a \in Users, NEW b \in Users, row'[a][b] \in Made
       PROVE  row'[a][b] = row[a][b] /\ (HasFriend(memory[a], b) => HasFriend(memory'[a], b))
  <2>1. CASE a = u /\ b = c
    BY <1>15, <1>16, <1>17, <2>1
  <2>2. CASE a = c /\ b = u
    <3>1. ~e.both
      BY <1>5, <1>7, <1>15, <1>17, <2>2
    <3> QED BY <1>7, <1>13, <1>14, <1>15, <2>2, <3>1
  <2>3. CASE ~Between(u, c, a, b)
    <3>1. row'[a][b] = row[a][b]
      BY <1>15, <2>3
    <3>2. /\ DOMAIN memory'[a] = DOMAIN memory[a]
          /\ \A g \in DOMAIN memory[a] : b \in memory[a][g] => b \in memory'[a][g]
      BY <1>12, <1>13, <1>14, <2>3 DEF Between
    <3> QED BY <3>1, <3>2 DEF HasFriend, FriendGroups
  <2> QED BY <2>1, <2>2, <2>3 DEF Between
<1>18. RowsStay
  BY <1>17 DEF RowsStay
<1>19. PICK p : p = [type |-> "deleted", contact |-> c, blacklist |-> e.blacklist]
  OBVIOUS
<1>20. p \in Answers(u) /\ p.type = "deleted" /\ p.contact = c
  <2>1. e.blacklist \in BOOLEAN
    BY <1>1, <1>2, <1>3, HeadFacts, RequestFacts
  <2> QED BY <1>19, <2>1 DEF Answers
<1>21. /\ \A w \in Users : w # u => toClient'[w] = toClient[w]
       /\ Longer(toClient[u], toClient'[u])
       /\ \A i \in (Len(toClient[u]) + 1) .. Len(toClient'[u]) : toClient'[u][i] = p
  <2>1. Answered(toClient)
    BY <1>2 DEF Types, Wires, Answered
  <2> QED BY <1>11, <1>19, <1>20, <2>1, SentMore
<1>22. ASSUME NEW w \in Others(u)
       PROVE  groups'[w] = groups[w] /\ QuickAnswers(toClient[w], toClient'[w])
  <2>1. w \in Users /\ w # u
    BY DEF Others
  <2> QED BY <1>2, <1>5, <1>11, <1>21, <2>1, SameAnswers DEF QuickAnswers
<1>23. Answering(u, e, toClient[u], toClient'[u])
  BY <1>1, <1>3, <1>15, <1>16, <1>20, <1>21 DEF Answering, Slow
<1>24. groups[u] \subseteq groups'[u]
  BY <1>5, <1>11
<1> QED BY <1>1, <1>3, <1>18, <1>22, <1>23, <1>24, ServerStays

\* Nobody has a row of a group that is new to the database.
LEMMA HandleCreateGroupBelieves ==
  ASSUME IMContactsAssumption, IInv, Beliefs, NEW u \in Users, HandleCreateGroup(u)
  PROVE  Beliefs'
<1>1. /\ toServer[u] # <<>> /\ Head(toServer[u]).type = "create" /\ toServer' = Taken(u)
      /\ UNCHANGED <<row, online, clients, asking, renamed>>
  BY DEF HandleCreateGroup, history
<1>2. /\ Types /\ Answered(toClient) /\ groups \in [Users -> SUBSET Groups]
      /\ memory \in [Users -> GroupMaps]
      /\ \A a, b \in Users : row[a][b] # NoGroup => row[a][b] \in groups[a]
      /\ NoGroup \notin Made
  BY Numbers DEF IInv, Types, Wires, Answered, Stores, Memories
<1>3. PICK e : e = Head(toServer[u])
  OBVIOUS
<1>4. PICK unused : unused = (Friends + 1) .. MaxGroup \ DOMAIN memory[u]
  OBVIOUS
<1>5. PICK g : g = CHOOSE i \in unused : \A j \in unused : i <= j
  OBVIOUS
<1>6. \/ /\ unused # {} /\ g \notin groups[u]
         /\ groups' = [groups EXCEPT ![u] = @ \cup {g}]
         /\ memory' = [memory EXCEPT ![u] = WithGroup(@, g)]
         /\ toClient' = Sent(toClient, u, [type |-> "created", group |-> g, ok |-> TRUE])
      \/ /\ toClient' = Sent(toClient, u, [type |-> "created", group |-> 0, ok |-> FALSE])
         /\ UNCHANGED <<groups, memory>>
  BY <1>4, <1>5 DEF HandleCreateGroup
<1>7. ASSUME NEW p \in Answers(u), p.type = "created", toClient' = Sent(toClient, u, p)
      PROVE  /\ \A w \in Others(u) : QuickAnswers(toClient[w], toClient'[w])
             /\ Longer(toClient[u], toClient'[u])
             /\ \A i \in (Len(toClient[u]) + 1) .. Len(toClient'[u]) : toClient'[u][i] = p
  <2>1. /\ \A w \in Users : w # u => toClient'[w] = toClient[w]
        /\ Longer(toClient[u], toClient'[u])
        /\ \A i \in (Len(toClient[u]) + 1) .. Len(toClient'[u]) : toClient'[u][i] = p
    BY <1>2, <1>7, SentMore
  <2> QED BY <1>2, <2>1, SameAnswers DEF QuickAnswers, Others
<1>8. CASE /\ toClient' = Sent(toClient, u, [type |-> "created", group |-> 0, ok |-> FALSE])
           /\ UNCHANGED <<groups, memory>>
  <2>1. PICK p : p = [type |-> "created", group |-> 0, ok |-> FALSE]
    OBVIOUS
  <2>2. 0 \in Groups
    BY Numbers
  <2>3. p \in Answers(u) /\ p.type = "created" /\ ~p.ok
    BY <2>1, <2>2 DEF Answers
  <2>4. /\ \A w \in Others(u) : QuickAnswers(toClient[w], toClient'[w])
        /\ Longer(toClient[u], toClient'[u])
        /\ \A i \in (Len(toClient[u]) + 1) .. Len(toClient'[u]) : toClient'[u][i] = p
    BY <1>7, <1>8, <2>1, <2>3
  <2>5. Answering(u, e, toClient[u], toClient'[u])
    BY <1>1, <1>3, <2>3, <2>4 DEF Answering, Slow
  <2> QED BY <1>1, <1>3, <1>8, <2>4, <2>5, SameRows, ServerStays
<1>9. CASE /\ unused # {} /\ g \notin groups[u]
           /\ groups' = [groups EXCEPT ![u] = @ \cup {g}]
           /\ memory' = [memory EXCEPT ![u] = WithGroup(@, g)]
           /\ toClient' = Sent(toClient, u, [type |-> "created", group |-> g, ok |-> TRUE])
  <2>1. g \in unused
    <3>1. unused \in SUBSET Nat
      BY <1>4, Numbers
    <3>2. \E i \in unused : \A j \in unused : i <= j
      BY <1>9, <3>1, LeastElement
    <3> QED BY <1>5, <3>2
  <2>2. g \in Groups /\ g \in Made
    BY <1>4, <2>1, Numbers
  <2>3. PICK p : p = [type |-> "created", group |-> g, ok |-> TRUE]
    OBVIOUS
  <2>4. p \in Answers(u) /\ p.type = "created" /\ p.group = g
    BY <2>2, <2>3 DEF Answers
  <2>5. /\ \A w \in Others(u) : QuickAnswers(toClient[w], toClient'[w])
        /\ Longer(toClient[u], toClient'[u])
        /\ \A i \in (Len(toClient[u]) + 1) .. Len(toClient'[u]) : toClient'[u][i] = p
    BY <1>7, <1>9, <2>3, <2>4
  <2>6. /\ groups'[u] = groups[u] \cup {g}
        /\ \A w \in Others(u) : groups'[w] = groups[w]
    BY <1>2, <1>9 DEF Others
  <2>7. PICK m \in GroupMaps : m = memory[u]
    BY <1>2
  <2>8. PICK r : r = WithGroup(m, g)
    OBVIOUS
  <2>9. DOMAIN r = DOMAIN m \cup {g} /\ \A h \in DOMAIN m : r[h] = m[h]
    <3>1. /\ DOMAIN WithGroup(m, g) = DOMAIN m \cup {g}
          /\ \A h \in DOMAIN m : WithGroup(m, g)[h] = m[h]
      BY <2>2, WithGroupFacts
    <3> QED BY <2>8, <3>1
  <2>10. memory' = [memory EXCEPT ![u] = r]
    BY <1>9, <2>7, <2>8
  <2>11. \A a \in Users : memory'[a] = IF a = u THEN r ELSE memory[a]
    BY <1>2, <2>10
  <2>12. RowsStay
    <3>1. \A b \in Users : HasFriend(m, b) => HasFriend(r, b)
      BY <2>9 DEF HasFriend, FriendGroups
    <3> QED BY <1>1, <2>7, <2>11, <3>1 DEF RowsStay
  <2>13. ASSUME Patient(u) PROVE Answering(u, e, toClient[u], toClient'[u])
    <3>1. g \notin renamed[u]
      BY <1>9, <2>13 DEF Patient, KeepsRenamed
    <3>2. \A c \in Users : row[u][c] # g
      BY <1>2, <1>9, <2>2
    <3>3. FreshAfter(u, g)
      BY <1>1, <2>2, <2>6, <3>1, <3>2 DEF FreshAfter
    <3> QED BY <1>1, <1>3, <2>4, <2>5, <3>3 DEF Answering, Slow
  <2> QED BY <1>1, <1>3, <2>5, <2>6, <2>12, <2>13, ServerStays
<1> QED BY <1>6, <1>8, <1>9

\* Who is lost to memory by a new name of his group has a row of that group.
LEMMA HandleRenameBelieves ==
  ASSUME IMContactsAssumption, IInv, Beliefs, NEW u \in Users, HandleRename(u)
  PROVE  Beliefs'
<1>1. /\ toServer[u] # <<>> /\ Head(toServer[u]).type = "rename" /\ toServer' = Taken(u)
      /\ UNCHANGED <<groups, row, online, toClient, clients, asking>>
  BY DEF HandleRename, database
<1>2. Types /\ renamed \in [Users -> SUBSET Groups]
  BY DEF IInv, Types, Histories
<1>3. PICK e : e = Head(toServer[u])
  OBVIOUS
<1>4. PICK g \in Made : g = e.group
  BY <1>1, <1>2, <1>3, HeadFacts, RequestFacts
<1>5. CASE UNCHANGED <<memory, renamed>>
  BY <1>1, <1>2, <1>5, SameTold, SameRows, ToldStays
<1>6. CASE /\ memory' = [memory EXCEPT ![u] = WithoutGroup(@, g)]
           /\ renamed' = [renamed EXCEPT ![u] = @ \cup {g}]
  <2>1. g \notin DOMAIN DefaultGroups /\ NoGroup \notin Made
    BY Numbers
  <2>2. \A a \in Users : renamed'[a] = IF a = u THEN renamed[a] \cup {g} ELSE renamed[a]
    BY <1>2, <1>6
  <2>3. /\ \A w \in Users : w # u => toServer'[w] = toServer[w]
        /\ toServer'[u] = Tail(toServer[u]) /\ e = toServer[u][1]
    BY <1>1, <1>2, <1>3, TakenFacts DEF Types
  <2>4. UNCHANGED <<linked, mine, seen, added, hasty>>
    BY <1>1 DEF clients, asking
  <2>5. ASSUME NEW w \in Users, Patient(w) PROVE Patient(w)'
    <3>1. CASE w # u
      <4>1. renamed'[w] = renamed[w] /\ toServer'[w] = toServer[w]
        BY <2>2, <2>3, <3>1
      <4> QED BY <1>1, <1>2, <2>4, <2>5, <4>1, SamePatient
    <3>2. CASE w = u
      <4>1. RowFollows(u, e)
        BY <1>1, <1>3 DEF RowFollows, Departs
      <4>2. Answering(u, e, toClient[u], toClient'[u])
        BY <1>1, <1>2, SameAnswers DEF Answering
      <4>3. \A h \in renamed'[u] : h \in renamed[u] \/ (e.type = "rename" /\ e.group = h)
        BY <1>1, <1>3, <1>4, <2>2
      <4> QED BY <1>1, <1>2, <2>3, <2>4, <2>5, <3>2, <4>1, <4>2, <4>3, HandledKeeps
    <3> QED BY <3>1, <3>2
  <2>6. ASSUME NEW w \in Users PROVE Held(w)'
    <3>1. Held(w)
      BY DEF Beliefs
    <3>2. /\ \A a \in Users : a # u => memory'[a] = memory[a]
          /\ DOMAIN memory'[u] = DOMAIN memory[u] \ {g}
          /\ \A h \in DOMAIN memory'[u] : memory'[u][h] = memory[u][h]
      BY <1>1, <1>6, GroupGone
    <3>3. CASE w # u
      BY <1>1, <2>2, <3>1, <3>2, <3>3 DEF Held
    <3>4. CASE w = u
      <4>1. ASSUME online[u], NEW c \in Users, row[u][c] \in Made
            PROVE  HasFriend(memory'[u], c) \/ row[u][c] \in renamed'[u]
        <5>1. CASE row[u][c] \in renamed[u]
          BY <2>2, <5>1
        <5>2. CASE HasFriend(memory[u], c)
          <6>1. PICK h \in FriendGroups(memory[u]) : c \in memory[u][h]
            BY <5>2 DEF HasFriend
          <6>2. CASE h = g
            <7>1. InMadeGroups(u)
              BY <4>1 DEF IInv, Matches
            <7>2. row[u][c] \in {g, NoGroup}
              BY <2>1, <6>1, <6>2, <7>1 DEF InMadeGroups, FriendGroups
            <7> QED BY <2>1, <2>2, <4>1, <7>2
          <6>3. CASE h # g
            BY <3>2, <6>1, <6>3 DEF HasFriend, FriendGroups
          <6> QED BY <6>2, <6>3
        <5> QED BY <3>1, <3>4, <4>1, <5>1, <5>2 DEF Held
      <4> QED BY <1>1, <3>4, <4>1 DEF Held
    <3> QED BY <3>3, <3>4
  <2>7. ASSUME NEW w \in Users PROVE Settling(w)'
    BY <2>4 DEF Beliefs, Settling
  <2> QED BY <2>4, <2>5, <2>6, <2>7 DEF Beliefs
<1> QED BY <1>3, <1>4, <1>5, <1>6 DEF HandleRename, Renamed

\* A contact who is moved by his user's request is where the request wants him.
LEMMA HandleMoveBelieves ==
  ASSUME IMContactsAssumption, IInv, Beliefs, NEW u \in Users, HandleMove(u)
  PROVE  Beliefs'
<1>1. /\ toServer[u] # <<>> /\ Head(toServer[u]).type = "move"
      /\ UNCHANGED <<groups, mine, seen, asked, added, asking, renamed, hasty>>
  BY DEF HandleMove, history, asking
<1>2. Types /\ Sessions /\ Singles
  BY DEF IInv
<1>3. PICK e : e = Head(toServer[u])
  OBVIOUS
<1>4. PICK c \in Others(u) : c = e.contact
  BY <1>1, <1>2, <1>3, HeadFacts, RequestFacts
<1>5. PICK new \in Friends .. MaxGroup : new = e.new
  BY <1>1, <1>2, <1>3, HeadFacts, RequestFacts
<1>6. PICK from : from = GroupOf(memory[u], c)
  OBVIOUS
<1>7. PICK found : found = (HasFriend(memory[u], c) /\ new \in groups[u])
  OBVIOUS
<1>8. /\ row' = IF ~found \/ row[u][c] = NoGroup THEN row ELSE [row EXCEPT ![u][c] = new]
      /\ \/ /\ ~found
            /\ UNCHANGED <<online, memory, linked, toClient>>
            /\ toServer' = Taken(u)
         \/ /\ found /\ CanMove(memory[u], from, new) /\ CanMove(memory[u], e.old, new)
            /\ memory' = [memory EXCEPT
                 ![u] = Moved(Moved(memory[u], c, from, new), c, e.old, new)]
            /\ UNCHANGED <<online, linked, toClient>>
            /\ toServer' = Taken(u)
         \/ Crash
  BY <1>3, <1>4, <1>5, <1>6, <1>7 DEF HandleMove
<1>9. /\ c \in Users /\ c # u /\ NoGroup \notin Made
      /\ new # Strangers /\ new # Blacklist /\ new # NoGroup
      /\ row \in [Users -> [Users -> Groups \cup {NoGroup}]] /\ memory \in [Users -> GroupMaps]
  <2>1. NoGroup \notin Made /\ new # Strangers /\ new # Blacklist /\ new # NoGroup
    BY Numbers
  <2> QED BY <1>2, <2>1 DEF Others, Types, Stores, Memories
<1>10. \A a, b \in Users : row'[a][b] =
         IF a = u /\ b = c /\ found /\ row[a][b] # NoGroup THEN new ELSE row[a][b]
  <2>1. CASE ~found \/ row[u][c] = NoGroup
    BY <1>8, <1>9, <2>1
  <2>2. CASE found /\ row[u][c] # NoGroup
    <3>1. row' = [row EXCEPT ![u][c] = new]
      BY <1>8, <2>2
    <3> QED BY <1>9, <2>2, <3>1
  <2> QED BY <1>7, <2>1, <2>2
<1>11. \A w \in Users : Settling(w)'
  BY <1>1 DEF Beliefs, Settling
<1>12. CASE Crash
  <2>1. ASSUME NEW w \in Users, Patient(w) PROVE Patient(w)'
    <3>1. ~linked'[w] /\ toServer'[w] = <<>>
      BY <1>12 DEF Crash
    <3> QED BY <1>1, <2>1, <3>1, StoppedKeeps
  <2>2. \A w \in Users : Held(w)'
    BY <1>12 DEF Crash, Held
  <2> QED BY <1>1, <1>11, <2>1, <2>2 DEF Beliefs
<1>13. ASSUME UNCHANGED <<online, linked, toClient>>, toServer' = Taken(u),
              \A w \in Users : Held(w)'
       PROVE  Beliefs'
  <2>1. /\ \A w \in Users : w # u => toServer'[w] = toServer[w]
        /\ toServer'[u] = Tail(toServer[u]) /\ e = toServer[u][1]
    BY <1>1, <1>2, <1>3, <1>13, TakenFacts DEF Types
  <2>2. RowFollows(u, e)
    <3>1. \A d \in Users : row'[u][d] \in Made => row'[u][d] = row[u][d] \/ e.contact = d
      BY <1>4, <1>10
    <3>2. ASSUME e.new \in groups[u], NEW d \in Users, NEW g \in Made, g \notin renamed[u],
                 row'[u][d] = g
          PROVE  (row[u][d] = g /\ ~Departs(e, d, g)) \/ Arrives(e, d, g)
      <4>1. CASE d # c
        BY <1>4, <1>10, <3>2, <4>1 DEF Departs
      <4>2. CASE d = c /\ new = g
        BY <1>1, <1>3, <1>4, <1>5, <4>2 DEF Arrives
      <4>3. CASE d = c /\ new # g
        <5>1. row[u][c] = g /\ ~found
          BY <1>7, <1>9, <1>10, <3>2, <4>3
        <5>2. online[u]
          BY <1>1, <1>2 DEF Sessions
        <5>3. HasFriend(memory[u], c)
          BY <1>9, <3>2, <5>1, <5>2 DEF Beliefs, Held
        <5> QED BY <1>5, <1>7, <3>2, <5>1, <5>3
      <4> QED BY <4>1, <4>2, <4>3
    <3> QED BY <1>1, <1>3, <3>1, <3>2 DEF RowFollows
  <2>3. ASSUME NEW w \in Users, Patient(w) PROVE Patient(w)'
    <3>1. CASE w = u
      <4>1. Answering(u, e, toClient[u], toClient'[u])
        BY <1>2, <1>13, SameAnswers DEF Answering
      <4> QED BY <1>1, <1>2, <1>13, <2>1, <2>2, <2>3, <3>1, <4>1, HandledKeeps
    <3>2. CASE w # u
      <4>1. \A b \in Users : row'[w][b] \in Made => row'[w][b] = row[w][b]
        BY <1>10, <3>2
      <4>2. QuickAnswers(toClient[w], toClient'[w])
        BY <1>2, <1>13, SameAnswers DEF QuickAnswers
      <4> QED BY <1>1, <1>2, <1>13, <2>1, <2>3, <3>2, <4>1, <4>2, OutsideKeeps
    <3> QED BY <3>1, <3>2
  <2> QED BY <1>1, <1>11, <1>13, <2>3 DEF Beliefs
<1>14. CASE ~found /\ UNCHANGED <<online, memory, linked, toClient>> /\ toServer' = Taken(u)
  <2>1. UNCHANGED row
    BY <1>8, <1>14
  <2>2. \A w \in Users : Held(w)'
    BY <1>1, <1>14, <2>1 DEF Beliefs, Held
  <2> QED BY <1>13, <1>14, <2>2
<1>15. CASE /\ found /\ CanMove(memory[u], from, new) /\ CanMove(memory[u], e.old, new)
            /\ memory' = [memory EXCEPT
                 ![u] = Moved(Moved(memory[u], c, from, new), c, e.old, new)]
            /\ UNCHANGED <<online, linked, toClient>> /\ toServer' = Taken(u)
  <2>1. from \in DOMAIN memory[u] /\ new \in DOMAIN memory[u] /\ e.old \in DOMAIN memory[u]
    BY <1>15 DEF CanMove
  <2>2. PICK old \in DOMAIN memory[u] : old = e.old
    BY <2>1
  <2>3. PICK r : r = Moved(Moved(memory[u], c, from, new), c, old, new)
    OBVIOUS
  <2>4. Single(memory[u], c) /\ memory[u] \in GroupMaps
    BY <1>2, <1>9 DEF Singles
  <2>5. /\ DOMAIN r = DOMAIN memory[u] /\ c \in r[new]
        /\ \A g \in DOMAIN memory[u] : \A b \in Users : b # c => (b \in r[g] <=> b \in memory[u][g])
    <3>1. /\ r \in GroupMaps /\ DOMAIN r = DOMAIN memory[u]
          /\ \A g \in DOMAIN memory[u] : c \in r[g] <=> g = new
          /\ \A g \in DOMAIN memory[u] : \A b \in Users : b # c =>
               (b \in r[g] <=> b \in memory[u][g])
      BY <1>6, <1>9, <2>1, <2>3, <2>4, MovedTwice
    <3> QED BY <2>1, <3>1
  <2>6. memory' = [memory EXCEPT ![u] = r]
    BY <1>15, <2>2, <2>3
  <2>7. \A a \in Users : memory'[a] = IF a = u THEN r ELSE memory[a]
    BY <1>9, <2>6
  <2>8. \A a, b \in Users : HasFriend(memory[a], b) => HasFriend(memory'[a], b)
    <3>1. HasFriend(r, c)
      BY <1>9, <2>1, <2>5 DEF HasFriend, FriendGroups
    <3>2. \A b \in Users : HasFriend(memory[u], b) => HasFriend(r, b)
      BY <2>5, <3>1 DEF HasFriend, FriendGroups
    <3> QED BY <2>7, <3>2
  <2>9. ASSUME NEW w \in Users PROVE Held(w)'
    <3>1. HasFriend(memory[u], c)
      BY <1>7, <1>15
    <3> QED BY <1>1, <1>10, <1>15, <2>8, <3>1 DEF Beliefs, Held
  <2> QED BY <1>13, <1>15, <2>9
<1> QED BY <1>8, <1>12, <1>14, <1>15

\* The group is empty, and the client is told that it is gone.
LEMMA HandleDeleteGroupBelieves ==
  ASSUME IMContactsAssumption, IInv, Beliefs, NEW u \in Users, HandleDeleteGroup(u)
  PROVE  Beliefs'
<1>1. /\ toServer[u] # <<>> /\ Head(toServer[u]).type = "drop" /\ toServer' = Taken(u)
      /\ UNCHANGED <<online, linked, mine, seen, added, hasty, renamed>>
  BY DEF HandleDeleteGroup, clients, asking
<1>2. /\ Types /\ Sessions /\ Answered(toClient) /\ groups \in [Users -> SUBSET Groups]
      /\ row \in [Users -> [Users -> Groups \cup {NoGroup}]] /\ NoGroup \notin Made
  BY Numbers DEF IInv, Types, Wires, Stores, Answered
<1>3. PICK e : e = Head(toServer[u])
  OBVIOUS
<1>4. PICK g \in Made : g = e.group
  BY <1>1, <1>2, <1>3, HeadFacts, RequestFacts
<1>5. PICK ok \in BOOLEAN : ok = (g \in DOMAIN memory[u])
  <2>1. (g \in DOMAIN memory[u]) \in BOOLEAN
    OBVIOUS
  <2> QED BY <2>1, Zenon
<1>6. /\ toClient' = Sent(toClient, u, [type |-> "dropped", group |-> g, ok |-> ok])
      /\ IF ok
         THEN /\ groups' = [groups EXCEPT ![u] = @ \ {g}]
              /\ row' = [row EXCEPT ![u] =
                   [c \in Users |-> IF row[u][c] = g THEN NoGroup ELSE row[u][c]]]
              /\ memory' = [memory EXCEPT ![u] = WithoutGroup(@, g)]
         ELSE UNCHANGED <<groups, row, memory>>
  BY <1>3, <1>4, <1>5 DEF HandleDeleteGroup
<1>7. PICK p : p = [type |-> "dropped", group |-> g, ok |-> ok]
  OBVIOUS
<1>8. p \in Answers(u) /\ p.type = "dropped" /\ p.group = g /\ p.ok = ok
  BY <1>7 DEF Answers
<1>9. /\ \A w \in Users : w # u => toClient'[w] = toClient[w]
      /\ Longer(toClient[u], toClient'[u])
      /\ \A i \in (Len(toClient[u]) + 1) .. Len(toClient'[u]) : toClient'[u][i] = p
      /\ linked[u] => \E i \in 1 .. Len(toClient'[u]) : toClient'[u][i] = p
  BY <1>2, <1>6, <1>7, <1>8, SentMore
<1>10. /\ \A w \in Users : w # u => groups'[w] = groups[w]
       /\ \A h \in groups[u] : h \in groups'[u] \/ (h = g /\ ok)
  BY <1>2, <1>6
<1>11. RowsStay
  <2>1. CASE ~ok
    BY <1>6, <2>1, SameRows
  <2>2. CASE ok
    <3>1. \A a, b \in Users : row'[a][b] = IF a = u /\ row[a][b] = g THEN NoGroup ELSE row[a][b]
      BY <1>2, <1>6, <2>2
    <3>2. /\ \A a \in Users : a # u => memory'[a] = memory[a]
          /\ DOMAIN memory'[u] = DOMAIN memory[u] \ {g}
          /\ \A h \in DOMAIN memory'[u] : memory'[u][h] = memory[u][h]
      BY <1>1, <1>6, <2>2, GroupGone
    <3>3. InMadeGroups(u) /\ g \notin DOMAIN DefaultGroups
      BY <1>1, <1>2, Numbers DEF IInv, Sessions, Matches
    <3>4. ASSUME NEW b \in Users, row'[u][b] \in Made, HasFriend(memory[u], b)
          PROVE  HasFriend(memory'[u], b)
      <4>1. PICK h \in FriendGroups(memory[u]) : b \in memory[u][h]
        BY <3>4 DEF HasFriend
      <4>2. row[u][b] \notin {g, NoGroup}
        BY <1>2, <3>1, <3>4
      <4>3. h # g
        BY <3>3, <4>1, <4>2 DEF InMadeGroups, FriendGroups
      <4> QED BY <3>2, <4>1, <4>3 DEF HasFriend, FriendGroups
    <3>5. \A a, b \in Users : row'[a][b] \in Made => row'[a][b] = row[a][b]
      BY <1>2, <3>1
    <3> QED BY <3>2, <3>4, <3>5 DEF RowsStay
  <2> QED BY <2>1, <2>2
<1>12. /\ \A w \in Users : w # u => toServer'[w] = toServer[w]
       /\ toServer'[u] = Tail(toServer[u]) /\ e = toServer[u][1]
  BY <1>1, <1>2, <1>3, TakenFacts DEF Types
<1>13. \A a, b \in Users : row'[a][b] \in Made => row'[a][b] = row[a][b]
  BY <1>11 DEF RowsStay
<1>14. ASSUME NEW w \in Users, Patient(w) PROVE Patient(w)'
  <2>1. CASE w = u
    <3>1. linked[u] /\ ok => Dropped(u, g)'
      BY <1>8, <1>9 DEF Dropped
    <3>2. \A h \in groups[u] : h \in groups'[u] \/ (h = e.group /\ (linked[u] => Dropped(u, h)'))
      BY <1>4, <1>10, <3>1
    <3>3. \A i \in (Len(toClient[u]) + 1) .. Len(toClient'[u]) : toClient'[u][i].type = "dropped"
      BY <1>8, <1>9
    <3> QED BY <1>1, <1>2, <1>3, <1>9, <1>12, <1>13, <1>14, <2>1, <3>2, <3>3, DropKeeps
  <2>2. CASE w # u
    <3>1. QuickAnswers(toClient[w], toClient'[w])
      BY <1>2, <1>9, <2>2, SameAnswers DEF QuickAnswers
    <3> QED BY <1>1, <1>2, <1>10, <1>12, <1>13, <1>14, <2>2, <3>1, OutsideKeeps
  <2> QED BY <2>1, <2>2
<1>15. ASSUME NEW w \in Users PROVE Held(w)' /\ Settling(w)'
  <2>1. Held(w) /\ Settling(w)
    BY DEF Beliefs
  <2>2. Held(w)'
    BY <1>1, <1>11, <2>1, HeldStays
  <2> QED BY <1>1, <2>1, <2>2 DEF Settling
<1> QED BY <1>1, <1>14, <1>15 DEF Beliefs

\* A login starts with what the database has.
LEMMA LoginBelieves ==
  ASSUME IMContactsAssumption, IInv, Beliefs, NEW u \in Users, Login(u)
  PROVE  Beliefs'
<1>1. /\ toServer[u] = <<>>
      /\ online' = [online EXCEPT ![u] = TRUE] /\ linked' = [linked EXCEPT ![u] = TRUE]
      /\ memory' = [memory EXCEPT ![u] = Loaded(u)]
      /\ renamed' = [renamed EXCEPT ![u] = {}]
      /\ UNCHANGED <<groups, row, asked, added, toServer, hasty>>
  BY DEF Login, asking
<1>2. Types
  BY DEF IInv
<1>3. PICK m : m = Loaded(u)
  OBVIOUS
<1>4. /\ m \in GroupMaps /\ DOMAIN DefaultGroups \subseteq DOMAIN m
      /\ \A g \in DOMAIN m : \A c \in Users : c \in m[g] <=> row[u][c] = g
      /\ \A c \in Users : row[u][c] # NoGroup => row[u][c] \in DOMAIN m
  BY <1>2, <1>3, LoadedFacts DEF Types
<1>5. /\ \A a \in Users : a # u => online'[a] = online[a] /\ linked'[a] = linked[a]
      /\ \A a \in Users : memory'[a] = IF a = u THEN m ELSE memory[a]
      /\ \A a \in Users : renamed'[a] = IF a = u THEN {} ELSE renamed[a]
  BY <1>1, <1>2, <1>3 DEF Types, Memories, Programs, Histories
<1>6. PICK known : known = { c \in Users : seen[u][c] # NoGroup \/ row[u][c] # NoGroup }
  OBVIOUS
<1>7. PICK s : s = [c \in Users |-> IF c \notin known THEN NoGroup ELSE GroupOf(m, c)]
  OBVIOUS
<1>8. seen' = [seen EXCEPT ![u] = s]
  BY <1>3, <1>6, <1>7 DEF Login
<1>9. \A a \in Users : seen'[a] = IF a = u THEN s ELSE seen[a]
  BY <1>2, <1>8 DEF Types, Programs
<1>10. PICK n : n = [m EXCEPT ![Strangers] = { c \in known : Holding(m, c) = {} }]
  OBVIOUS
<1>11. mine' = [mine EXCEPT ![u] = n]
  BY <1>3, <1>6, <1>10 DEF Login
<1>12. \A a \in Users : mine'[a] = IF a = u THEN n ELSE mine[a]
  BY <1>2, <1>11 DEF Types, Programs
<1>13. /\ NoGroup \notin Groups /\ NoGroup \notin Made
       /\ Strangers \notin Made /\ Blacklist \notin Made
       /\ \A g \in Made : g \notin DOMAIN DefaultGroups
  BY Numbers
<1>14. ASSUME NEW c \in Users PROVE s[c] = NoGroup <=> c \notin known
  <2>1. GroupOf(m, c) \in Groups
    BY <1>4, GroupOfType
  <2> QED BY <1>7, <1>13, <2>1
<1>15. PICK order \in [1 .. Cardinality(News(u)) -> News(u)] :
         toClient' = [toClient EXCEPT ![u] = order]
  BY DEF Login
<1>16. \A a \in Users : toClient'[a] = IF a = u THEN order ELSE toClient[a]
  BY <1>2, <1>15 DEF Types, Wires
<1>17. \A i \in 1 .. Len(order) : order[i].type \notin SlowAnswers
  <2>1. PICK k \in Nat : k = Cardinality(News(u))
    BY <1>2, NewsFacts
  <2>2. order \in [1 .. k -> News(u)]
    BY <1>15, <2>1
  <2>3. PICK S : S = News(u)
    OBVIOUS
  <2>4. \A i \in 1 .. Len(order) : order[i] \in News(u)
    <3>1. order \in Seq(S)
      BY <2>2, <2>3, SeqDef
    <3>2. PICK q \in Seq(S) : q = order
      BY <3>1
    <3>3. \A i \in 1 .. Len(q) : q[i] \in S
      BY SMT
    <3> QED BY <2>3, <3>2, <3>3
  <2>5. \A p \in News(u) : p.type \in {"added", "refused", "request"}
    BY DEF News, Result
  <2> QED BY <2>4, <2>5 DEF SlowAnswers
<1>18. ASSUME NEW g \in Made, g \in DOMAIN n
       PROVE  g \in groups[u] /\ \A c \in Users : c \notin n[g] => row[u][c] # g
  <2>1. g \in DOMAIN m /\ n[g] = m[g]
    <3>1. m = [h \in DOMAIN m |-> m[h]]
      BY <1>4, MapFacts
    <3> QED BY <1>10, <1>13, <1>18, <3>1
  <2>2. g \in groups[u]
    BY <1>3, <1>13, <2>1 DEF Loaded
  <2> QED BY <1>4, <2>1, <2>2
<1>19. ASSUME NEW w \in Users, Patient(w) PROVE Patient(w)'
  <2>1. CASE w = u
    <3>1. toServer'[u] = <<>> /\ renamed'[u] = {} /\ groups'[u] = groups[u] /\ row'[u] = row[u]
      BY <1>1, <1>5
    <3>2. \A i \in 1 .. Len(toClient'[u]) : toClient'[u][i].type \notin SlowAnswers
      BY <1>16, <1>17
    <3>3. \A g \in Made : g \in DOMAIN mine'[u] =>
            g \in groups[u] /\ \A c \in Users : c \notin mine'[u][g] => row[u][c] # g
      BY <1>12, <1>18
    <3>4. \A c \in Users : seen'[u][c] = NoGroup => row[u][c] \notin Made
      BY <1>6, <1>9, <1>13, <1>14
    <3> QED BY <1>19, <2>1, <3>1, <3>2, <3>3, <3>4, LoggedInKeeps
  <2>2. CASE w # u
    <3>1. /\ toServer'[w] = toServer[w] /\ toClient'[w] = toClient[w] /\ linked'[w] = linked[w]
          /\ mine'[w] = mine[w] /\ seen'[w] = seen[w] /\ renamed'[w] = renamed[w]
          /\ groups'[w] = groups[w] /\ row'[w] = row[w]
      BY <1>1, <1>5, <1>9, <1>12, <1>16, <2>2
    <3> QED BY <1>2, <1>19, <3>1, SamePatient
  <2> QED BY <2>1, <2>2
<1>20. ASSUME NEW w \in Users PROVE Held(w)'
  <2>1. CASE w # u
    BY <1>1, <1>5, <2>1 DEF Beliefs, Held
  <2>2. CASE w = u
    <3>1. ASSUME NEW c \in Users, row[u][c] \in Made PROVE HasFriend(m, c)
      <4>1. row[u][c] \in DOMAIN m /\ c \in m[row[u][c]]
        BY <1>4, <1>13, <3>1
      <4> QED BY <1>13, <3>1, <4>1 DEF HasFriend, FriendGroups
    <3> QED BY <1>1, <1>5, <2>2, <3>1 DEF Held
  <2> QED BY <2>1, <2>2
<1>21. ASSUME NEW w \in Users PROVE Settling(w)'
  <2>1. Settling(w)
    BY DEF Beliefs
  <2>2. CASE w # u
    BY <1>1, <1>9, <2>1, <2>2 DEF Settling
  <2>3. CASE w = u
    <3>1. added[u] \in SUBSET Users
      BY <1>2 DEF Types, Programs
    <3> QED BY <1>1, <1>6, <1>9, <1>14, <2>1, <2>3, <3>1 DEF Settling
  <2> QED BY <2>2, <2>3
<1> QED BY <1>1, <1>19, <1>20, <1>21 DEF Beliefs

LEMMA InitBeliefs ==
  ASSUME IMContactsAssumption, Init
  PROVE  Beliefs
<1>1. ASSUME NEW u \in Users PROVE Patient(u)
  <2>1. PICK q : q = toServer[u]
    OBVIOUS
  <2>2. q = <<>> /\ Len(q) = 0 /\ ~linked[u] /\ renamed[u] = {}
    BY <2>1 DEF Init
  <2>3. Busy(u) /\ Emptied(u) /\ KeepsRenamed(u)
    BY <2>1, <2>2 DEF Busy, Emptied, KeepsRenamed
  <2> QED BY <2>2, <2>3 DEF Patient, Believed, Fresh, Unseen
<1>2. \A u \in Users : Held(u) /\ Settling(u)
  BY DEF Init, Held, Settling
<1> QED BY <1>1, <1>2 DEF Beliefs

LEMMA NextBeliefs ==
  ASSUME IMContactsAssumption, IInv, Beliefs, [Next]_vars
  PROVE  Beliefs'
<1>1. CASE UNCHANGED vars
  <2>1. UNCHANGED <<groups, row, online, memory, linked, mine, seen, added,
                    toServer, toClient, hasty, renamed>>
    BY <1>1 DEF vars, database, clients, history, asking
  <2>2. Types
    BY DEF IInv
  <2>3. \A u \in Users : Patient(u) => Patient(u)'
    BY <2>1, <2>2, SamePatient
  <2> QED BY <2>1, <2>3 DEF Beliefs, Held, Settling
<1>2. ASSUME NEW u \in Users, Login(u) PROVE Beliefs'
  BY <1>2, LoginBelieves
<1>3. ASSUME NEW u \in Users, Handle(u) PROVE Beliefs'
  BY <1>3, HandleAddBelieves, HandleResponseBelieves, HandleDeleteBelieves, HandleMoveBelieves,
     HandleCreateGroupBelieves, HandleDeleteGroupBelieves, HandleRenameBelieves,
     HandleGoneBelieves DEF Handle
<1>4. ASSUME NEW u \in Users, ClientStep(u) PROVE Beliefs'
  BY <1>4, ClientStepBelieves
<1> QED BY <1>1, <1>2, <1>3, <1>4 DEF Next, ClientStep

\* What the program of a user who waits for answers believes of its groups is true of the
\* database once all that is on its way is handled, whatever the other users do, and whenever
\* connections end (slotProcessCreateOrDeleteContactGroupResult(), deleteContactResultReceived(),
\* moveContactToAnotherGroup()).
THEOREM BeliefsHold ==
  ASSUME IMContactsAssumption
  PROVE  Spec => []Beliefs
<1>1. Init => Beliefs
  BY InitBeliefs
<1>2. IInv /\ Beliefs /\ [Next]_vars => Beliefs'
  BY NextBeliefs
<1> QED BY <1>1, <1>2, ContactsHold, PTL DEF Spec

\* Who loses a row.
DeletedBy(v) ==
  toServer[v] # <<>> /\ Head(toServer[v]).type = "delete" /\ toServer'[v] = Tail(toServer[v])

LEMMA RowsLeave ==
  ASSUME IMContactsAssumption, IInv, Beliefs, NEW w \in Users, Handle(w),
         NEW u \in Users, NEW c \in Users, row[u][c] # NoGroup, row'[u][c] = NoGroup
  PROVE  u \in hasty \/ \E v \in {u, c} : DeletedBy(v)
<1>1. Types /\ row \in [Users -> [Users -> Groups \cup {NoGroup}]]
  BY DEF IInv, Types, Stores
<1>2. CASE HandleAdd(w) \/ HandleResponse(w)
  <2>1. PICK d \in Others(w) : d = Head(toServer[w]).contact
    BY <1>1, <1>2, HeadFacts, RequestFacts DEF HandleAdd, HandleResponse
  <2>2. UNCHANGED row \/ AddContactForUser(w, d, Friends)
    BY <1>2, <2>1 DEF HandleAdd, HandleResponse
  <2>3. AddContactForUser(w, d, Friends)
    BY <2>2
  <2>4. row'[u][c] = IF Between(w, d, u, c) /\ row[u][c] = NoGroup THEN Friends ELSE row[u][c]
    BY <1>1, <2>3, AddedFacts DEF IInv
  <2> QED BY <2>4
<1>3. CASE HandleDelete(w)
  <2>1. PICK d \in Others(w) : d = Head(toServer[w]).contact
    BY <1>1, <1>3, HeadFacts, RequestFacts DEF HandleDelete
  <2>2. \E x, y : row' = [row EXCEPT ![w][d] = x, ![d][w] = y]
    <3>1. PICK e : e = Head(toServer[w])
      OBVIOUS
    <3>2. PICK x : x = IF e.blacklist /\ row[w][d] # NoGroup THEN Blacklist ELSE NoGroup
      OBVIOUS
    <3>3. PICK y : y = IF e.both THEN NoGroup ELSE row[d][w]
      OBVIOUS
    <3>4. row' = [row EXCEPT ![w][d] = x, ![d][w] = y]
      BY <1>3, <2>1, <3>1, <3>2, <3>3 DEF HandleDelete
    <3> QED BY <3>4
  <2>3. Between(w, d, u, c)
    BY <1>1, <2>1, <2>2 DEF Between, Others
  <2>4. toServer'[w] = Tail(toServer[w]) /\ toServer[w] # <<>>
    BY <1>1, <1>3, TakenFacts DEF HandleDelete, Types
  <2>5. DeletedBy(w)
    BY <1>3, <2>4 DEF HandleDelete, DeletedBy
  <2> QED BY <2>3, <2>5 DEF Between
<1>4. CASE HandleMove(w)
  <2>1. PICK d \in Others(w) : d = Head(toServer[w]).contact
    BY <1>1, <1>4, HeadFacts, RequestFacts DEF HandleMove
  <2>2. PICK new \in Friends .. MaxGroup : new = Head(toServer[w]).new
    BY <1>1, <1>4, HeadFacts, RequestFacts DEF HandleMove
  <2>3. row' = row \/ row' = [row EXCEPT ![w][d] = new]
    BY <1>4, <2>1, <2>2 DEF HandleMove
  <2>4. new # NoGroup
    BY Numbers
  <2> QED BY <1>1, <2>3, <2>4 DEF Others
<1>5. CASE HandleDeleteGroup(w)
  <2>1. PICK e : e = Head(toServer[w])
    OBVIOUS
  <2>2. toServer[w] # <<>> /\ e.type = "drop"
    BY <1>5, <2>1 DEF HandleDeleteGroup
  <2>3. row' = [row EXCEPT ![w] =
          [b \in Users |-> IF row[w][b] = e.group THEN NoGroup ELSE row[w][b]]]
    BY <1>5, <2>1 DEF HandleDeleteGroup
  <2>4. u = w /\ row[u][c] = e.group
    BY <1>1, <2>3
  <2>5. PICK q : q = toServer[u]
    OBVIOUS
  <2>6. q \in Seq(Requests(u)) /\ q # <<>> /\ q[1] = e
    BY <1>1, <2>1, <2>2, <2>4, <2>5, TakenFacts DEF Types, Wires
  <2>7. 1 \in 1 .. Len(q)
    BY <2>6
  <2>8. ASSUME u \notin hasty PROVE FALSE
    <3>1. EmptiedAt(u, 1, e.group)
      BY <2>2, <2>5, <2>6, <2>7, <2>8 DEF Beliefs, Patient, Emptied
    <3>2. Leaves(row[u][c], q, 1 - 1, c, e.group)
      BY <2>5, <3>1 DEF EmptiedAt
    <3>3. \E i \in 1 .. 1 - 1 : Departs(q[i], c, e.group)
      BY <2>4, <3>2 DEF Leaves
    <3> QED BY <3>3
  <2> QED BY <2>8
<1>6. CASE HandleCreateGroup(w) \/ HandleRename(w) \/ HandleGone(w)
  BY <1>6 DEF HandleCreateGroup, HandleRename, HandleGone, database
<1> QED BY <1>2, <1>3, <1>4, <1>5, <1>6 DEF Handle

\* No contact of a user who waits for answers leaves the database but by a request to delete a
\* contact: a group whose deletion the server carries out (deleteContactGroup(), ON DELETE
\* CASCADE) has nobody in it by then.
THEOREM OnlyDeletionsRemove ==
  ASSUME IMContactsAssumption
  PROVE  Spec => OnlyDeletionRemoves
<1>1. ASSUME IInv, Beliefs, [Next]_vars, NEW u \in Users, NEW c \in Users,
             row[u][c] # NoGroup, row'[u][c] = NoGroup
      PROVE  u \in hasty \/ \E v \in {u, c} : DeletedBy(v)
  <2>1. CASE UNCHANGED row
    BY <1>1, <2>1
  <2>2. ASSUME NEW w \in Users, Handle(w) PROVE u \in hasty \/ \E v \in {u, c} : DeletedBy(v)
    BY <1>1, <2>2, RowsLeave
  <2>3. ASSUME NEW w \in Users, ClientStep(w) PROVE UNCHANGED row
    BY <2>3, ClientKeeps DEF database
  <2>4. ASSUME NEW w \in Users, Login(w) PROVE UNCHANGED row
    BY <2>4 DEF Login
  <2>5. UNCHANGED vars => UNCHANGED row
    BY DEF vars, database
  <2> QED BY <1>1, <2>1, <2>2, <2>3, <2>4, <2>5 DEF Next, ClientStep
<1>2. IInv /\ Beliefs /\ [Next]_vars =>
        [\A u, c \in Users : row[u][c] # NoGroup /\ row'[u][c] = NoGroup =>
           \/ u \in hasty
           \/ \E v \in {u, c} : /\ toServer[v] # <<>> /\ Head(toServer[v]).type = "delete"
                                /\ toServer'[v] = Tail(toServer[v])]_vars
  BY <1>1 DEF DeletedBy
<1> QED BY <1>2, ContactsHold, BeliefsHold, PTL DEF Spec, OnlyDeletionRemoves
=============================================================================
