----------------------------- MODULE BalanceFeed -----------------------------
(***************************************************************************)
(* The websocket feed: Hub and Client of internal/websocket, WSBalances of  *)
(* handlers/admin.go, and the broadcasts that TransactionService makes      *)
(* after a commit and before it answers.                                    *)
(*                                                                         *)
(* A broadcast holds the hub's read lock while it offers the update to each *)
(* client of the user, in the arbitrary order of a Go map; several may do   *)
(* so at once.  Register and Unregister take the write lock.  Each client   *)
(* has two goroutines, the pumps.  The page on the other side is external:  *)
(* it reads the balances as it connects and then shows what it is sent.     *)
(***************************************************************************)
EXTENDS TransactionService, Sequences

CONSTANTS
  Client,     \* the websocket connections
  ClientUser, \* the user whose token each of them came with
  BufferSize  \* the capacity of client.send, 10 in the code

ASSUME FeedAssumption == /\ ClientUser \in [Client -> User]
                         /\ BufferSize \in Nat \ {0}

VARIABLES
  announcing, \* the updates a request has yet to broadcast
  sending,    \* the clients its current broadcast has yet to serve
  hub,        \* the registered clients
  conn,       \* "none", "open", "lost" (the peer is gone) or "closed"
  running,    \* the pumps of a client, its goroutines, that run
  buffer,     \* the channel client.send
  shown,      \* the balances the page shows
  past,       \* every balance an account has had
  disturbed   \* the clients and accounts whose updates went astray

clientVars == <<hub, conn, running, buffer, shown>>
feedVars == <<announcing, sending, clientVars, past, disturbed>>
allVars == <<vars, feedVars>>

Pumps == {"read", "write"}

FeedInit ==
  /\ Init
  /\ announcing = [r \in Request |-> <<>>]
  /\ sending = [r \in Request |-> {}]
  /\ hub = {}
  /\ conn = [c \in Client |-> "none"]
  /\ running = [c \in Client |-> {}]
  /\ buffer = [c \in Client |-> <<>>]
  /\ shown = [c \in Client |-> NoSnapshot]
  /\ past = {<<a, OpeningBalance[a]>> : a \in Account}
  /\ disturbed = {}

----------------------------------------------------------------------------
(* The service, which announces what it has committed. *)

Update(user, account, amount) ==
  [user |-> user, account |-> account, balance |-> amount]

\* Mutant: the two balances of a transfer go to the other's owner.
UpdatesCrossed(r) ==
  LET i == req[r]
      s == snapshot[r]
      to == IF Owner[i.to] = NoUser THEN i.user ELSE Owner[i.to]
  IN  << Update(to, i.from, s[i.from] - i.amount),
         Update(i.user, i.to, s[i.to] + i.amount) >>

\* Both go to the user after an exchange, one to each owner after a transfer,
\* none to a system account.
Updates(r) ==
  LET i == req[r]
      s == snapshot[r]
      debit == Update(i.user, i.from, s[i.from] - i.amount)
  IN  IF i.kind = "exchange"
      THEN <<debit, Update(i.user, i.to, s[i.to] + Converted(i))>>
      ELSE IF Owner[i.to] = NoUser THEN <<debit>>
      ELSE <<debit, Update(Owner[i.to], i.to, s[i.to] + i.amount)>>

Announces(r, a) == \E n \in DOMAIN announcing[r] : announcing[r][n].account = a

\* The code broadcasts only when it knows that the commit succeeded.
FeedCommit(r) ==
  /\ Commit(r)
  /\ announcing' = [announcing EXCEPT ![r] =
                      IF answer'[r] = "ok" THEN Updates(r) ELSE <<>>]
  /\ past' = past \cup {<<a, balance'[a]>> : a \in Account}
  /\ disturbed' = disturbed \cup (Client \X
       {a \in Written(req[r]) : \/ answer'[r] # "ok"
                                \/ \E s \in Request : Announces(s, a)})
  /\ UNCHANGED <<sending, clientVars>>

\* Every other step of the service; a commit adds a transaction.
FeedServe(r) ==
  /\ Serve(r)
  /\ transactions' = transactions
  /\ UNCHANGED feedVars

\* Requests arrive and are cancelled, and quotes are issued and expire.
FeedClientsAct ==
  /\ \/ \E r \in Request : Arrive(r) \/ Abandon(r)
     \/ \E q \in Quote : QuoteStep(q)
  /\ UNCHANGED feedVars

----------------------------------------------------------------------------
(* Hub.BroadcastBalance. *)

Registered(user) == {c \in hub : ClientUser[c] = user}

BroadcastEnds(r) == announcing' = [announcing EXCEPT ![r] = Tail(@)]

\* RLock; no other broadcast is in the way.
StartBroadcast(r) ==
  /\ announcing[r] # <<>>
  /\ sending[r] = {}
  /\ LET clients == Registered(Head(announcing[r]).user)
     IN  /\ sending' = [sending EXCEPT ![r] = clients]
         /\ IF clients = {} THEN BroadcastEnds(r) ELSE UNCHANGED announcing
  /\ UNCHANGED <<vars, clientVars, past, disturbed>>

Full(c) == Len(buffer[c]) = BufferSize

\* Mutant: the send has no default.
SendsWithRoom(c) == ~Full(c)

\* The send to a client has a default: it never waits.
Sends(c) == TRUE

Send(r, c) ==
  /\ c \in sending[r]
  /\ Sends(c)
  /\ LET update == Head(announcing[r])
     IN  IF Full(c)
         THEN /\ disturbed' = disturbed \cup {<<c, update.account>>}
              /\ UNCHANGED buffer
         ELSE /\ buffer' = [buffer EXCEPT ![c] = Append(@, update)]
              /\ UNCHANGED disturbed
  /\ sending' = [sending EXCEPT ![r] = @ \ {c}]
  /\ IF sending[r] = {c} THEN BroadcastEnds(r) ELSE UNCHANGED announcing
  /\ UNCHANGED <<vars, hub, conn, running, shown, past>>

Broadcast(r) == StartBroadcast(r) \/ \E c \in Client : Send(r, c)

----------------------------------------------------------------------------
(* Clients.  The hub's write lock is free when no broadcast is under way. *)

HubFree == \A r \in Request : sending[r] = {}

\* WSBalances with a valid token, ServeWS.
Connect(c) ==
  /\ conn[c] = "none"
  /\ HubFree
  /\ conn' = [conn EXCEPT ![c] = "open"]
  /\ hub' = hub \cup {c}
  /\ running' = [running EXCEPT ![c] = Pumps]
  /\ shown' = [shown EXCEPT ![c] = balance]
  /\ UNCHANGED <<vars, announcing, sending, buffer, past, disturbed>>

\* The peer closes, stops answering, or takes more than ten seconds to read.
Leave(c) ==
  /\ conn[c] = "open"
  /\ conn' = [conn EXCEPT ![c] = "lost"]
  /\ shown' = [shown EXCEPT ![c] = NoSnapshot]
  /\ UNCHANGED <<vars, announcing, sending, hub, running, buffer, past, disturbed>>

\* writePump takes a message and its write succeeds; if the peer is gone, it
\* may, and nobody sees the message.
WriteMessage(c) ==
  /\ "write" \in running[c]
  /\ buffer[c] # <<>>
  /\ conn[c] \in {"open", "lost"}
  /\ buffer' = [buffer EXCEPT ![c] = Tail(@)]
  /\ shown' = IF conn[c] = "open"
              THEN [shown EXCEPT ![c][Head(buffer[c]).account] = Head(buffer[c]).balance]
              ELSE shown
  /\ UNCHANGED <<vars, announcing, sending, hub, conn, running, past, disturbed>>

\* Mutant: writePump sends no pings.
WriteFailsOnMessage(c) == conn[c] # "open" /\ buffer[c] # <<>>

\* A message or the ping of the ticker meets a broken connection.
WriteFails(c) == conn[c] # "open"

\* A read fails: the connection is broken, or no pong came for 60 seconds.
ReadFails(c) == conn[c] # "open"

\* Mutant: Unregister drops every client of the user.
RemovedUser(c) == Registered(ClientUser[c])

\* Hub.Unregister deletes the client; the second call deletes nothing.
Removed(c) == {c}

\* The pump leaves its loop: Unregister, as soon as the hub is free, and
\* conn.Close.  Until then it takes nothing from the channel, as if it were
\* slow.  The channel is never closed; it goes with the write pump.
EndPump(c, p) ==
  /\ p \in running[c]
  /\ IF p = "read" THEN ReadFails(c) ELSE WriteFails(c)
  /\ HubFree
  /\ hub' = hub \ Removed(c)
  /\ conn' = [conn EXCEPT ![c] = "closed"]
  /\ running' = [running EXCEPT ![c] = @ \ {p}]
  /\ buffer' = IF p = "write" THEN [buffer EXCEPT ![c] = <<>>] ELSE buffer
  /\ UNCHANGED <<vars, announcing, sending, shown, past, disturbed>>

FeedNext ==
  \/ FeedClientsAct
  \/ \E r \in Request : FeedServe(r) \/ FeedCommit(r) \/ Broadcast(r)
  \/ \E c \in Client : \/ Connect(c) \/ Leave(c) \/ WriteMessage(c)
                       \/ \E p \in Pumps : EndPump(c, p)

FeedSpec == FeedInit /\ [][FeedNext]_allVars

\* The server's goroutines run.  A pump notices a closed connection, and the
\* reader a lost one within a minute; nothing makes a client read its updates.
FeedFairness ==
  /\ \A r \in Request : /\ WF_allVars(FeedServe(r) \/ FeedCommit(r))
                        /\ WF_allVars(Broadcast(r))
  /\ \A c \in Client, p \in Pumps :
       WF_allVars((p = "write" => conn[c] # "lost") /\ EndPump(c, p))

----------------------------------------------------------------------------
(* Properties. *)

\* Those whose exchanges have paid into the account.
Payers(a) == {row.in.user : row \in {row \in transactions :
                row.in.kind = "exchange" /\ row.in.to = a}}

\* A client is sent balances of its own user's accounts, and of an account
\* that its user has paid into by an exchange, whoever owns it.  A balance of a
\* user's account is one the account has had: nothing of an attempt that was
\* rolled back.
FeedTruthful ==
  \A c \in Client : \A n \in DOMAIN buffer[c] :
    LET update == buffer[c][n]
    IN  /\ ClientUser[c] \in {Owner[update.account]} \cup Payers(update.account)
        /\ Owner[update.account] \in User =>
             <<update.account, update.balance>> \in past

\* Once every update is announced and written, an open page shows the current
\* balances, through lost and double unregistrations of the user's other pages,
\* unless two requests were announcing the account at once, the commit's
\* acknowledgement was lost, the client's buffer was full, or someone else's
\* exchange has paid into the account, which only that user is told.
FeedOrderly ==
  (\A r \in Request : announcing[r] = <<>>) =>
    \A c \in Client : conn[c] = "open" /\ buffer[c] = <<>> =>
      \A a \in Account : Owner[a] = ClientUser[c] =>
        \/ ~(Payers(a) \subseteq {Owner[a]})
        \/ <<c, a>> \in disturbed
        \/ shown[c][a] = balance[a]

\* "WebSocket balance updates for real-time UI refresh" (README.md:13): when no
\* request has failed and every update is announced and written, an open page
\* shows the current balances.
FeedCurrent ==
  (\A r \in Request : announcing[r] = <<>> /\ answer[r] # "failed") =>
    \A c \in Client : conn[c] = "open" /\ buffer[c] = <<>> =>
      \A a \in Account : Owner[a] = ClientUser[c] => shown[c][a] = balance[a]

\* A request is committed, announced and answered however slow or dead the
\* websocket clients are.
AnsweredAnyway ==
  \A r \in Request : pc[r] = "start" ~> pc[r] = "done" /\ announcing[r] = <<>>

\* When a client is gone, both its goroutines end and the hub forgets it.
PumpsEnd ==
  \A c \in Client : conn[c] = "lost" ~>
    c \notin hub /\ running[c] = {}

=============================================================================
