----------------------------- MODULE IMContacts -----------------------------
(***************************************************************************)
(* Contacts of the messenger: who is whose contact, in which group, and    *)
(* what becomes of an application for it.                                  *)
(*                                                                         *)
(* The same facts are kept four times: in the database, in the server's    *)
(* UserInfo objects (filled from the database by a login, changed together *)
(* with it afterwards), in the client's IMUser (filled from the server's   *)
(* by a login) and in its Contact objects.  The requests of a user and the *)
(* answers of the server travel in order over the user's connection, which *)
(* may end at any time; two users' requests come in any order.             *)
(***************************************************************************)
EXTENDS Integers, Sequences, FiniteSets

CONSTANTS
  Users,
  AutoAccept,  \* the users whom others may add without asking (FA_AUTO_ACCEPT)
  MaxGroup,    \* bound on the ids of groups
  MaxRequests, \* bound on the requests made, all users together
  MaxLogins    \* bound on the logins, all users together

ASSUME IMContactsAssumption ==
  /\ IsFiniteSet(Users) /\ AutoAccept \subseteq Users
  /\ MaxGroup \in Nat /\ MaxGroup >= 1
  /\ MaxRequests \in Nat /\ MaxLogins \in Nat

Strangers == -1  \* Group_Strangers_ID
Blacklist == 0   \* Group_Blacklist_ID
Friends == 1     \* Group_Friends_ID
Groups == Strangers .. MaxGroup
NoGroup == Strangers - 1

VARIABLES
  groups,   \* PersonalContactGroups: groups[u], the ids of the groups u has
  row,      \* PersonalRelationship: row[u][c], the group of contact c, or NoGroup
  apply,    \* FriendshipApply: apply[a][b], the application of a to b, or NoApply
  online,   \* the server takes the user for online
  memory,   \* UserInfo: memory[u][g], the members of a group that u has
  linked,   \* the client is logged in over a connection that works
  mine,     \* IMUser: mine[u][g], as memory, in the client
  seen,     \* Contact: seen[u][c], the group of a contact that the client knows
  asked,    \* asked[u]: users whose application is shown to u
  added,    \* added[u]: new contacts with settings still to be made
  toServer, \* toServer[u]: packets on their way to the server
  toClient, \* toClient[u]: packets on their way to the client
  requests, logins, \* how many there were
  hasty,    \* history: users who asked for more while an answer was due
  left,     \* history: <<u, c>> when u took c, or c took itself, off u's list
  fallen,   \* history: <<u, c>> when a group that u deleted took c off u's list
  waiting,  \* history: <<a, b>> when a applied to b, who has been offline since
  accepted, \* history: <<a, b>> when b accepted a's application and a was not told
  renamed   \* history: renamed[u], groups that u has renamed since the last login

asking == <<requests, hasty>>
database == <<groups, row, apply>>
clients  == <<linked, mine, seen, asked, added>>
history  == <<left, fallen, waiting, accepted, renamed>>
vars == <<database, online, memory, clients, toServer, toClient, asking, logins, history>>

-----------------------------------------------------------------------------
(* IMUserBase: groups of contacts, in the server and in the client         *)

DefaultGroups == [g \in {Strangers, Blacklist, Friends} |-> {}]

FriendGroups(m) == DOMAIN m \ {Strangers, Blacklist}
HasFriend(m, c) == \E g \in FriendGroups(m) : c \in m[g]
Holding(m, c) == { g \in DOMAIN m : c \in m[g] }
\* groupIDThatContactBelongsTo(): the first in the order of the hash.
GroupOf(m, c) == IF Holding(m, c) = {} THEN Strangers ELSE CHOOSE g \in Holding(m, c) : TRUE

\* deleteContact(): off the first group that has it.
Without(m, c) ==
  IF Holding(m, c) = {} THEN m ELSE [m EXCEPT ![GroupOf(m, c)] = @ \ {c}]

\* Mutant: the contact is not taken off the group it is in.
WithAgain(m, c, g) ==
  IF g \in DOMAIN m THEN [m EXCEPT ![g] = @ \cup {c}] ELSE m

\* addNewContact().
With(m, c, g) ==
  IF g \in DOMAIN m THEN [Without(m, c) EXCEPT ![g] = @ \cup {c}] ELSE m

\* moveContactToAnotherGroup() asserts that it knows both groups.
CanMove(m, old, new) == {old, new} \subseteq DOMAIN m
Moved(m, c, old, new) == [m EXCEPT ![old] = @ \ {c}, ![new] = @ \cup {c}]

\* addContactGroup(), deleteContactGroup().
WithGroup(m, g) == [h \in DOMAIN m \cup {g} |-> IF h \in DOMAIN m THEN m[h] ELSE {}]
WithoutGroup(m, g) == [h \in DOMAIN m \ {g} |-> m[h]]

\* renameContactGroup(): the group is taken out of the hash.
Renamed(m, g) == WithoutGroup(m, g)

-----------------------------------------------------------------------------
(* The database                                                            *)

NoApply == [result |-> "none", senderRead |-> FALSE, receiverRead |-> FALSE]
Applied(result, sr, rr) == [result |-> result, senderRead |-> sr, receiverRead |-> rr]

\* Mutant: it is asked whether the contact has the user, too.
CanAddOnce(r, u, c, g) == g \in groups[u] /\ r[u][c] = NoGroup /\ r[c][u] = NoGroup

\* sp_Contact_Add: there must be the group, and no row yet.
CanAdd(r, u, c, g) == g \in groups[u] /\ r[u][c] = NoGroup
Inserted(r, u, c, g) == IF CanAdd(r, u, c, g) THEN [r EXCEPT ![u][c] = g] ELSE r

\* sp_FriendshipApplyRequest_Add: nothing is inserted when there is a row.
SavedApply(t, a, b, new) == IF t[a][b] = NoApply THEN [t EXCEPT ![a][b] = new] ELSE t

\* Mutant: the members of the blacklist are left out.
LoadedWithoutBlacklist(u) ==
  [g \in groups[u] \cup DOMAIN DefaultGroups |->
     IF g = Blacklist THEN {} ELSE { c \in Users : row[u][c] = g }]

\* Mutant: the default groups are not ensured.
LoadedAsIs(u) ==
  [g \in groups[u] |-> { c \in Users : row[u][c] = g }]

\* sp_GetAllContactGroupsInfoForUserAsString and setContactGroupsInfoString(): the query
\* joins the relations, so that a user without any gets no groups but the default ones.
Loaded(u) ==
  IF \A c \in Users : row[u][c] = NoGroup THEN DefaultGroups
  ELSE [g \in groups[u] \cup DOMAIN DefaultGroups |-> { c \in Users : row[u][c] = g }]

-----------------------------------------------------------------------------
(* The server                                                              *)

Taken(u) == [toServer EXCEPT ![u] = Tail(@)]
Sent(q, u, p) == IF linked[u] THEN [q EXCEPT ![u] = Append(@, p)] ELSE q

Result(c, g, ok) == [type |-> "added", contact |-> c, group |-> g, ok |-> ok]

\* addContactForUser(): both become contacts of each other, whatever the database says of
\* the second insertion; the contact is told now or, from the database, by its login.
AddContactForUser(u, c, g) ==
  LET ok == CanAdd(row, u, c, g)
  IN  /\ row' = Inserted(Inserted(row, u, c, g), c, u, Friends)
      /\ memory' = [memory EXCEPT
           ![u] = IF ok THEN With(@, c, g) ELSE @,
           ![c] = With(@, u, Friends)]
      /\ toClient' = LET told == Sent(toClient, u, Result(c, g, ok))
                     IN  IF online[c] THEN Sent(told, c, Result(u, Friends, TRUE)) ELSE told
      /\ left' = left \ {<<u, c>>, <<c, u>>}
      /\ fallen' = fallen \ {<<u, c>>, <<c, u>>}

AddedApply(u, c) ==
  IF online[c] THEN apply ELSE SavedApply(apply, c, u, Applied("accepted", FALSE, TRUE))

\* CLIENT_REQUEST_ADD_CONTACT.
HandleAdd(u) ==
  /\ toServer[u] # <<>> /\ Head(toServer[u]).type = "add"
  /\ LET c == Head(toServer[u]).contact
     IN  \/ /\ HasFriend(memory[u], c)
            /\ UNCHANGED <<row, apply, memory, toClient, left, fallen, waiting>>
         \/ /\ ~HasFriend(memory[u], c) /\ c \in AutoAccept
            /\ AddContactForUser(u, c, Friends)
            /\ apply' = AddedApply(u, c)
            /\ UNCHANGED waiting
         \/ /\ ~HasFriend(memory[u], c) /\ c \notin AutoAccept /\ ~online[c]
            /\ apply' = SavedApply(apply, u, c, Applied("unknown", FALSE, FALSE))
            /\ waiting' = IF apply[u][c] = NoApply THEN waiting \cup {<<u, c>>} ELSE waiting
            /\ UNCHANGED <<row, memory, toClient, left, fallen>>
         \/ /\ ~HasFriend(memory[u], c) /\ c \notin AutoAccept /\ online[c]
            /\ toClient' = Sent(toClient, c, [type |-> "request", contact |-> u])
            /\ UNCHANGED <<row, apply, memory, left, fallen, waiting>>
  /\ toServer' = Taken(u)
  /\ UNCHANGED <<groups, online, clients, asking, logins, accepted, renamed>>

\* CLIENT_RESPONSE_ADD_CONTACT_REQUEST: what is known of the application is deleted last,
\* but not after a refusal that is saved for a contact who is offline.
HandleResponse(u) ==
  /\ toServer[u] # <<>> /\ Head(toServer[u]).type = "response"
  /\ LET e == Head(toServer[u])
         c == e.contact
         forgotten(t) == [t EXCEPT ![c][u] = NoApply]
     IN  \/ /\ e.accept
            /\ AddContactForUser(u, c, Friends)
            /\ apply' = forgotten(AddedApply(u, c))
            /\ accepted' = IF online[c] THEN accepted ELSE accepted \cup {<<c, u>>}
         \/ /\ ~e.accept /\ e.message /\ ~online[c]
            /\ apply' = SavedApply(apply, c, u, Applied("denied", FALSE, TRUE))
            /\ UNCHANGED <<row, memory, toClient, left, fallen, accepted>>
         \/ /\ ~e.accept /\ (~e.message \/ online[c])
            /\ toClient' = IF e.message THEN Sent(toClient, c, [type |-> "refused", contact |-> u])
                           ELSE toClient
            /\ apply' = forgotten(apply)
            /\ UNCHANGED <<row, memory, left, fallen, accepted>>
  /\ toServer' = Taken(u)
  /\ UNCHANGED <<groups, online, clients, asking, logins, waiting, renamed>>

\* CLIENT_REQUEST_DELETE_CONTACT, with sp_Contact_Delete and deleteContact().
HandleDelete(u) ==
  /\ toServer[u] # <<>> /\ Head(toServer[u]).type = "delete"
  /\ LET e == Head(toServer[u])
         c == e.contact
         kept == IF e.blacklist /\ row[u][c] # NoGroup THEN Blacklist ELSE NoGroup
         back == IF e.both THEN NoGroup ELSE row[c][u]
         off == Without(memory[u], c)
     IN  /\ groups' = [groups EXCEPT ![u] = IF e.blacklist THEN @ \cup {Blacklist} ELSE @]
         /\ row' = [row EXCEPT ![u][c] = kept, ![c][u] = back]
         /\ memory' = [memory EXCEPT
              ![u] = IF e.blacklist THEN [off EXCEPT ![Blacklist] = @ \cup {c}] ELSE off,
              ![c] = IF e.both THEN Without(@, u) ELSE @]
         /\ toClient' = Sent(toClient, u, [type |-> "deleted", contact |-> c,
                                           blacklist |-> e.blacklist])
         /\ left' = left \cup {<<u, c>>} \cup (IF e.both THEN {<<c, u>>} ELSE {})
  /\ toServer' = Taken(u)
  /\ UNCHANGED <<apply, online, clients, asking, logins, fallen, waiting, accepted, renamed>>

\* What is left when the server ends: the database.
Crash ==
  /\ online' = [u \in Users |-> FALSE]
  /\ memory' = [u \in Users |-> DefaultGroups]
  /\ linked' = [u \in Users |-> FALSE]
  /\ toServer' = [u \in Users |-> <<>>]
  /\ toClient' = [u \in Users |-> <<>>]

\* CLIENT_REQUEST_MOVE_CONTACT: moveContactForUserInDB() moves the contact in memory from
\* where the server has it, the handler then from where the client had it; the server
\* dies of a group that it does not have.
HandleMove(u) ==
  /\ toServer[u] # <<>> /\ Head(toServer[u]).type = "move"
  /\ LET e == Head(toServer[u])
         c == e.contact
         from == GroupOf(memory[u], c)
         once == Moved(memory[u], c, from, e.new)
         found == HasFriend(memory[u], c) /\ e.new \in groups[u]
     IN  /\ row' = IF ~found \/ row[u][c] = NoGroup THEN row ELSE [row EXCEPT ![u][c] = e.new]
         /\ \/ /\ ~found
               /\ UNCHANGED <<online, memory, linked, toClient>>
               /\ toServer' = Taken(u)
            \/ /\ found /\ CanMove(memory[u], from, e.new) /\ CanMove(memory[u], e.old, e.new)
               /\ memory' = [memory EXCEPT ![u] = Moved(once, c, e.old, e.new)]
               /\ UNCHANGED <<online, linked, toClient>>
               /\ toServer' = Taken(u)
            \/ /\ found
               /\ ~CanMove(memory[u], from, e.new) \/ ~CanMove(memory[u], e.old, e.new)
               /\ Crash
  /\ UNCHANGED <<groups, apply, mine, seen, asked, added, asking, logins, history>>

\* CREATE_OR_DELETE_CONTACT_GROUP to create one: the id is one that memory has not, which
\* the database, or the name, may have all the same.
HandleCreateGroup(u) ==
  /\ toServer[u] # <<>> /\ Head(toServer[u]).type = "create"
  /\ LET unused == (Friends + 1) .. MaxGroup \ DOMAIN memory[u]
         g == CHOOSE i \in unused : \A j \in unused : i <= j
     IN  \/ /\ unused # {} /\ g \notin groups[u]
            /\ groups' = [groups EXCEPT ![u] = @ \cup {g}]
            /\ memory' = [memory EXCEPT ![u] = WithGroup(@, g)]
            /\ toClient' = Sent(toClient, u, [type |-> "created", group |-> g, ok |-> TRUE])
         \/ /\ toClient' = Sent(toClient, u, [type |-> "created", group |-> 0, ok |-> FALSE])
            /\ UNCHANGED <<groups, memory>>
  /\ toServer' = Taken(u)
  /\ UNCHANGED <<row, apply, online, clients, asking, logins, history>>

\* The same to delete one: its relations go with it (ON DELETE CASCADE).
HandleDeleteGroup(u) ==
  /\ toServer[u] # <<>> /\ Head(toServer[u]).type = "drop"
  /\ LET g == Head(toServer[u]).group
         ok == g \in DOMAIN memory[u]
     IN  /\ toClient' = Sent(toClient, u, [type |-> "dropped", group |-> g, ok |-> ok])
         /\ IF ok
            THEN /\ groups' = [groups EXCEPT ![u] = @ \ {g}]
                 /\ row' = [row EXCEPT ![u] =
                      [c \in Users |-> IF row[u][c] = g THEN NoGroup ELSE row[u][c]]]
                 /\ memory' = [memory EXCEPT ![u] = WithoutGroup(@, g)]
                 /\ fallen' = fallen \cup ({u} \X { c \in Users : row[u][c] = g })
            ELSE UNCHANGED <<groups, row, memory, fallen>>
  /\ toServer' = Taken(u)
  /\ UNCHANGED <<apply, online, clients, asking, logins, left, waiting, accepted, renamed>>

\* RENAME_CONTACT_GROUP; the new name may be in use, which leaves all as it is.
HandleRename(u) ==
  /\ toServer[u] # <<>> /\ Head(toServer[u]).type = "rename"
  /\ LET g == Head(toServer[u]).group
     IN  \/ /\ memory' = [memory EXCEPT ![u] = Renamed(@, g)]
            /\ renamed' = [renamed EXCEPT ![u] = @ \cup {g}]
         \/ UNCHANGED <<memory, renamed>>
  /\ toServer' = Taken(u)
  /\ UNCHANGED <<database, online, clients, toClient, asking, logins, left, fallen, waiting,
                 accepted>>

\* The user is found to be gone, after all that was received is handled.
HandleGone(u) ==
  /\ toServer[u] # <<>> /\ Head(toServer[u]).type = "gone"
  /\ online' = [online EXCEPT ![u] = FALSE]
  /\ toServer' = Taken(u)
  /\ UNCHANGED <<database, memory, clients, toClient, asking, logins, history>>

\* getFriendshipApplyRequest() and what the login sends of it: verdicts on u's applications
\* that their receivers have read, and applications to u that u has not read.
News(u) ==
  { Result(c, GroupOf(Loaded(u), c), TRUE) : c \in { v \in Users :
      \/ apply[u][v].result = "accepted" /\ apply[u][v].receiverRead
      \/ apply[v][u].result = "accepted" /\ ~apply[v][u].receiverRead } } \cup
  { [type |-> "refused", contact |-> c] : c \in { v \in Users :
      apply[u][v].result = "denied" /\ apply[u][v].receiverRead } } \cup
  { [type |-> "request", contact |-> c] : c \in { v \in Users :
      apply[v][u].result = "unknown" /\ ~apply[v][u].receiverRead } }

\* Mutant: applications that either has read are deleted.
ReadByEither(u) ==
  [a \in Users |-> [b \in Users |-> IF u \in {a, b} THEN NoApply ELSE apply[a][b]]]

\* sp_FriendshipApplyRequest_ForUser_Update: applications that both have read are deleted.
ReadBy(u) ==
  [a \in Users |-> [b \in Users |->
     LET t == apply[a][b]
         sr == t.senderRead \/ a = u
         rr == t.receiverRead \/ b = u
     IN  IF t = NoApply \/ (sr /\ rr) THEN NoApply ELSE Applied(t.result, sr, rr)]]

\* A login of a user who is not online, up to the client having taken over the groups.
Login(u) ==
  /\ ~online[u] /\ toServer[u] = <<>> /\ logins < MaxLogins
  /\ logins' = logins + 1
  /\ online' = [online EXCEPT ![u] = TRUE]
  /\ linked' = [linked EXCEPT ![u] = TRUE]
  /\ memory' = [memory EXCEPT ![u] = Loaded(u)]
  /\ renamed' = [renamed EXCEPT ![u] = {}]
  /\ LET known == { c \in Users : seen[u][c] # NoGroup \/ row[u][c] # NoGroup }
     IN  /\ seen' = [seen EXCEPT ![u] =
              [c \in Users |-> IF c \notin known THEN NoGroup
                               ELSE GroupOf(Loaded(u), c)]]
         /\ mine' = [mine EXCEPT ![u] = [Loaded(u) EXCEPT ![Strangers] =
              { c \in known : Holding(Loaded(u), c) = {} }]]
  /\ \E order \in [1 .. Cardinality(News(u)) -> News(u)] :
       /\ \A p \in News(u) : \E i \in DOMAIN order : order[i] = p
       /\ toClient' = [toClient EXCEPT ![u] = order]
  /\ apply' = ReadBy(u)
  /\ waiting' = { w \in waiting : w[2] # u }
  /\ UNCHANGED <<groups, row, asked, added, toServer, asking, left, fallen, accepted>>

-----------------------------------------------------------------------------
(* The client                                                              *)

\* "Operation in progress": showProgressDialog() keeps nobody from asking for more.
InProgress(u) ==
  \/ \E i \in DOMAIN toServer[u] : toServer[u][i].type \in {"delete", "create", "drop"}
  \/ \E i \in DOMAIN toClient[u] : toClient[u][i].type \in {"deleted", "created", "dropped"}

Ask(u, packets) ==
  /\ linked[u] /\ requests < MaxRequests
  /\ requests' = requests + 1
  /\ hasty' = IF InProgress(u) THEN hasty \cup {u} ELSE hasty
  /\ toServer' = [toServer EXCEPT ![u] = @ \o packets]

IsFriend(u, c) == seen[u][c] \notin {NoGroup, Strangers, Blacklist}

DeletePacket(c, both, blacklist) ==
  [type |-> "delete", contact |-> c, both |-> both, blacklist |-> blacklist]
MovePacket(c, old, new) == [type |-> "move", contact |-> c, old |-> old, new |-> new]

\* addContact(), for a stranger or a user that was searched for; one who is blacklisted is
\* deleted first.
Add(u, c) ==
  /\ c # u /\ ~IsFriend(u, c)
  /\ LET add == <<[type |-> "add", contact |-> c]>>
     IN  Ask(u, IF seen[u][c] = Blacklist THEN <<DeletePacket(c, FALSE, FALSE)>> \o add ELSE add)
  /\ UNCHANGED <<database, online, memory, clients, toClient, logins, history>>

\* showContactRequestFromUser(): the dialog is closed, or the application answered.
Answer(u, c) ==
  /\ c \in asked[u]
  /\ asked' = [asked EXCEPT ![u] = @ \ {c}]
  /\ \/ UNCHANGED <<toServer, asking>>
     \/ \E accept, message \in BOOLEAN :
          Ask(u, <<[type |-> "response", contact |-> c, accept |-> accept,
                    message |-> message]>>)
  /\ UNCHANGED <<database, online, memory, linked, mine, seen, added, toClient, logins, history>>

\* slotRequestDeleteContact(), with what the menu and the dialog offer; the dialog's check
\* box keeps its value where it is hidden.
Delete(u, c) ==
  /\ seen[u][c] # NoGroup
  /\ \E both, blacklist \in BOOLEAN :
       /\ seen[u][c] = Strangers => blacklist
       /\ seen[u][c] = Blacklist /\ ~blacklist => ~both
       /\ Ask(u, <<DeletePacket(c, both, blacklist)>>)
  /\ UNCHANGED <<database, online, memory, clients, toClient, logins, history>>

\* slotMoveContactToGroup(): the contact moves here at once.
Move(u, c) ==
  /\ IsFriend(u, c) /\ CanMove(mine[u], seen[u][c], Friends)
  /\ \E g \in FriendGroups(mine[u]) \ {seen[u][c]} :
       /\ Ask(u, <<MovePacket(c, seen[u][c], g)>>)
       /\ mine' = [mine EXCEPT ![u] = Moved(@, c, seen[u][c], g)]
       /\ seen' = [seen EXCEPT ![u][c] = g]
  /\ UNCHANGED <<database, online, memory, linked, asked, added, toClient, logins, history>>

\* getNewContactSettings(): from where IMUser has the contact.
Settle(u, c) ==
  /\ c \in added[u]
  /\ added' = [added EXCEPT ![u] = @ \ {c}]
  /\ \E g \in FriendGroups(mine[u]) :
       LET old == GroupOf(mine[u], c)
       IN  IF old = g THEN UNCHANGED <<mine, seen, toServer, asking>>
           ELSE /\ Ask(u, <<MovePacket(c, old, g)>>)
                /\ mine' = [mine EXCEPT ![u] = Moved(@, c, old, g)]
                /\ seen' = [seen EXCEPT ![u][c] = g]
  /\ UNCHANGED <<database, online, memory, linked, asked, toClient, logins, history>>

\* handleContextMenuEventOnContactGroup().
CreateGroup(u) ==
  /\ Ask(u, <<[type |-> "create"]>>)
  /\ UNCHANGED <<database, online, memory, clients, toClient, logins, history>>

\* Mutant: the deletion of a group with members is offered.
DeleteAnyGroup(u) ==
  /\ \E g \in FriendGroups(mine[u]) \ {Friends} : Ask(u, <<[type |-> "drop", group |-> g]>>)
  /\ UNCHANGED <<database, online, memory, clients, toClient, logins, history>>

DeleteGroup(u) ==
  /\ \E g \in FriendGroups(mine[u]) \ {Friends} :
       /\ mine[u][g] = {}
       /\ Ask(u, <<[type |-> "drop", group |-> g]>>)
  /\ UNCHANGED <<database, online, memory, clients, toClient, logins, history>>

RenameGroup(u) ==
  /\ \E g \in FriendGroups(mine[u]) \ {Friends} :
       /\ Ask(u, <<[type |-> "rename", group |-> g]>>)
       /\ mine' = [mine EXCEPT ![u] = Renamed(@, g)]
  /\ UNCHANGED <<database, online, memory, linked, seen, asked, added, toClient, logins, history>>

Received(u, type) == toClient[u] # <<>> /\ Head(toClient[u]).type = type
Rest(u) == [toClient EXCEPT ![u] = Tail(@)]

\* slotProcessContactRequestFromUser().
ReceiveRequest(u) ==
  /\ Received(u, "request")
  /\ asked' = [asked EXCEPT ![u] = @ \cup {Head(toClient[u]).contact}]
  /\ toClient' = Rest(u)
  /\ UNCHANGED <<database, online, memory, linked, mine, seen, added, toServer, asking,
                 logins, history>>

\* slotProcessAddContactResult(): the contact's object is put into the group of friends
\* unless it already has the group told; IMUser learns of new objects only.
ReceiveAdded(u) ==
  /\ Received(u, "added")
  /\ LET e == Head(toClient[u])
         c == e.contact
         new == seen[u][c] = NoGroup
     IN  IF e.ok
         THEN /\ mine' = IF new THEN [mine EXCEPT ![u] = With(@, c, Friends)] ELSE mine
              /\ seen' = IF new \/ seen[u][c] # e.group THEN [seen EXCEPT ![u][c] = Friends]
                         ELSE seen
              /\ added' = [added EXCEPT ![u] = @ \cup {c}]
              /\ accepted' = accepted \ {<<u, c>>}
         ELSE UNCHANGED <<mine, seen, added, accepted>>
  /\ toClient' = Rest(u)
  /\ UNCHANGED <<database, online, memory, linked, asked, toServer, asking, logins, left,
                 fallen, waiting, renamed>>

\* The same with ERROR_RequestDenied: a message box.
ReceiveRefused(u) ==
  /\ Received(u, "refused")
  /\ toClient' = Rest(u)
  /\ UNCHANGED <<database, online, memory, clients, toServer, asking, logins, history>>

\* slotDeleteContactResultReceived().
Target(e) == IF e.blacklist THEN Blacklist ELSE Strangers
ReceiveDeleted(u) ==
  /\ Received(u, "deleted")
  /\ LET e == Head(toClient[u])
         c == e.contact
     IN  /\ CanMove(mine[u], seen[u][c], Target(e))
         /\ mine' = [mine EXCEPT ![u] = Moved(@, c, seen[u][c], Target(e))]
         /\ seen' = [seen EXCEPT ![u][c] = Target(e)]
  /\ toClient' = Rest(u)
  /\ UNCHANGED <<database, online, memory, linked, asked, added, toServer, asking, logins,
                 history>>

\* slotProcessCreateOrDeleteContactGroupResult().
ReceiveGroup(u) ==
  /\ Received(u, "created") \/ Received(u, "dropped")
  /\ LET e == Head(toClient[u])
     IN  mine' = [mine EXCEPT ![u] =
           IF ~e.ok THEN @
           ELSE IF e.type = "created" THEN WithGroup(@, e.group) ELSE WithoutGroup(@, e.group)]
  /\ toClient' = Rest(u)
  /\ UNCHANGED <<database, online, memory, linked, seen, asked, added, toServer, asking,
                 logins, history>>

\* The connection of a client that ends: the server still receives some of what was sent;
\* what the program shows is lost when it ends, too.
Ends(u, sent) ==
  /\ linked' = [linked EXCEPT ![u] = FALSE]
  /\ \E n \in 0 .. Len(sent) :
       toServer' = [toServer EXCEPT ![u] = Append(SubSeq(sent, 1, n), [type |-> "gone"])]
  /\ toClient' = [toClient EXCEPT ![u] = <<>>]
  /\ \/ asked' = [asked EXCEPT ![u] = {}] /\ added' = [added EXCEPT ![u] = {}]
     \/ UNCHANGED <<asked, added>>

Leave(u) ==
  /\ linked[u]
  /\ Ends(u, toServer[u])
  /\ UNCHANGED <<database, online, memory, mine, seen, asking, logins, history>>

\* moveContactToAnotherGroup() of a group that the client does not know: the program dies,
\* after it has sent the request to move.
DieOfMove(u) ==
  /\ linked[u]
  /\ \/ \E c \in Users, g \in FriendGroups(mine[u]) :
          /\ IsFriend(u, c) /\ g # seen[u][c]
          /\ ~CanMove(mine[u], seen[u][c], g)
          /\ Ends(u, Append(toServer[u], MovePacket(c, seen[u][c], g)))
     \/ /\ Received(u, "deleted")
        /\ ~CanMove(mine[u], seen[u][Head(toClient[u]).contact], Target(Head(toClient[u])))
        /\ Ends(u, toServer[u])
  /\ UNCHANGED <<database, online, memory, mine, seen, asking, logins, history>>

-----------------------------------------------------------------------------
Init ==
  /\ groups = [u \in Users |-> {Friends}]
  /\ row \in { [u \in Users |-> [c \in Users |-> NoGroup]],
               [u \in Users |-> [c \in Users |-> IF c = u THEN NoGroup ELSE Friends]] }
  /\ apply = [a \in Users |-> [b \in Users |-> NoApply]]
  /\ online = [u \in Users |-> FALSE]
  /\ memory = [u \in Users |-> DefaultGroups]
  /\ linked = [u \in Users |-> FALSE]
  /\ mine = [u \in Users |-> DefaultGroups]
  /\ seen = [u \in Users |-> [c \in Users |-> NoGroup]]
  /\ asked = [u \in Users |-> {}]
  /\ added = [u \in Users |-> {}]
  /\ toServer = [u \in Users |-> <<>>]
  /\ toClient = [u \in Users |-> <<>>]
  /\ requests = 0 /\ logins = 0 /\ hasty = {}
  /\ left = {} /\ fallen = {} /\ waiting = {} /\ accepted = {}
  /\ renamed = [u \in Users |-> {}]

Handle(u) ==
  \/ HandleAdd(u) \/ HandleResponse(u) \/ HandleDelete(u) \/ HandleMove(u)
  \/ HandleCreateGroup(u) \/ HandleDeleteGroup(u) \/ HandleRename(u) \/ HandleGone(u)

Receive(u) ==
  \/ ReceiveRequest(u) \/ ReceiveAdded(u) \/ ReceiveRefused(u) \/ ReceiveDeleted(u)
  \/ ReceiveGroup(u)

Next ==
  \E u \in Users :
    \/ Login(u) \/ Handle(u) \/ Receive(u) \/ Leave(u) \/ DieOfMove(u)
    \/ CreateGroup(u) \/ DeleteGroup(u) \/ RenameGroup(u)
    \/ \E c \in Users : Add(u, c) \/ Answer(u, c) \/ Delete(u, c) \/ Move(u, c) \/ Settle(u, c)

Spec == Init /\ [][Next]_vars

-----------------------------------------------------------------------------
(* Properties                                                              *)

GroupMaps == UNION { [S -> SUBSET Users] : S \in SUBSET Groups }
Packets == { "add", "response", "delete", "move", "create", "drop", "rename", "gone" }

\* The state is what the tables, UserInfo, IMUser and Contact allow; Friends, Strangers and
\* Blacklist are never missing in a UserInfo (ensureDefaultGroups()).
TypeOK ==
  /\ groups \in [Users -> SUBSET Groups]
  /\ row \in [Users -> [Users -> Groups \cup {NoGroup}]]
  /\ \A u, c \in Users : row[u][c] # NoGroup => row[u][c] \in groups[u]
  /\ \A a, b \in Users : apply[a][b].result \in {"none", "unknown", "accepted", "denied"}
  /\ online \in [Users -> BOOLEAN] /\ linked \in [Users -> BOOLEAN]
  /\ \A u \in Users : memory[u] \in GroupMaps /\ mine[u] \in GroupMaps
  /\ \A u \in Users : DOMAIN DefaultGroups \subseteq DOMAIN memory[u]
  /\ seen \in [Users -> [Users -> Groups \cup {NoGroup}]]
  /\ \A u \in Users : \A i \in DOMAIN toServer[u] : toServer[u][i].type \in Packets

\* In the server's memory a contact is in one group at most, whatever the client and the
\* server thought its old group was, and however often it was deleted, blacklisted and
\* added again by either side (addNewContact(), moveContactToAnotherGroup()).
OneGroupEach ==
  \A u, c \in Users : Cardinality(Holding(memory[u], c)) <= 1

\* What the server has in memory of a user who is online is what the database has: a friend
\* there has a row, so that the next login brings it back, unless a deleted group took the
\* row with it; and who has a row is known, unless the group is one that was renamed
\* (renameContactGroup() loses it).
MemoryMatchesDatabase ==
  \A u, c \in Users : online[u] =>
    /\ HasFriend(memory[u], c) => row[u][c] # NoGroup \/ <<u, c>> \in fallen
    /\ row[u][c] # NoGroup => Holding(memory[u], c) # {} \/ row[u][c] \in renamed[u]

\* Being contacts is mutual until one deletes the other, or a group with the other in it:
\* addContactForUser() enters both, and no crash, refusal or second application leaves one
\* side alone.
FriendshipIsMutual ==
  \A u, c \in Users :
    row[u][c] # NoGroup /\ row[c][u] = NoGroup => <<c, u>> \in left \cup fallen

\* An application to a user who is offline waits in the database until the user logs in,
\* also when the applicant logs in meanwhile, which marks it as read by the applicant.
ApplicationWaits ==
  \A a, b \in Users : <<a, b>> \in waiting =>
    apply[a][b].result = "unknown" /\ ~apply[a][b].receiverRead

\* A contact of a user who waits for answers leaves the database only by a request to delete
\* a contact: the groups whose deletion is offered because IMUser finds them empty are empty
\* in the database when the request gets there, whatever the other users do meanwhile, so
\* that ON DELETE CASCADE takes no contact with it.
OnlyDeletionRemoves ==
  [][\A u, c \in Users : row[u][c] # NoGroup /\ row'[u][c] = NoGroup =>
       \/ u \in hasty
       \/ \E v \in {u, c} : /\ toServer[v] # <<>> /\ Head(toServer[v]).type = "delete"
                            /\ toServer'[v] = Tail(toServer[v])]_vars

\* addContactForUser() saves for a contact who is offline that the application is accepted;
\* the contact is told by the next login.
AcceptedIsReported ==
  \A a, b \in Users : <<a, b>> \in accepted =>
    \/ apply[a][b].result = "accepted"
    \/ \E i \in DOMAIN toClient[a] :
         toClient[a][i].type = "added" /\ toClient[a][i].contact = b
=============================================================================
