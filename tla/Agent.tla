-------------------------------- MODULE Agent -------------------------------
(***************************************************************************)
(* The ssh-agent of the command line (apps/hide-cli/src/agent.rs and       *)
(* transport.rs).  It serves one connection at a time, a request at a      *)
(* time, and asks on the terminal before it signs; clients queue, send     *)
(* ahead of the answers and hang up when they like; whoever sits at the    *)
(* terminal may type before being asked, and the terminal keeps the lines. *)
(***************************************************************************)
EXTENDS Naturals, Sequences, FiniteSets, Functions

CONSTANTS Clients,
          MAX_REQUESTS,   \* bound: requests sent, by all clients together
          MAX_AHEAD       \* bound: lines typed without being asked

ASSUME AgentAssumption == MAX_REQUESTS \in Nat /\ MAX_AHEAD \in Nat

VARIABLES agent,     \* what the program is doing, for whom, with what answer
          confirm,   \* AskOnTerminal, or ApproveEverything
          queue,     \* clients connected and not yet accepted
          conn,      \* the state of each client's connection
          sent,      \* the requests each client sent
          replies,   \* the answers it was sent back
          tty,       \* lines typed and not yet read
          gone,      \* the terminal has hung up
          ahead,     \* how many were typed without being asked
          typed,     \* how many times the answer typed was yes
          signed     \* how many signatures were made

agentVars == <<agent, confirm, queue, conn, sent, replies, tty, gone, ahead, typed, signed>>

(* Requests: for the list of keys; for a signature with our key, or with   *)
(* another; of an unknown kind or that does not parse; of a length that is *)
(* out of range; and one whose bytes never all arrive.                     *)
Requests == {"identities", "sign", "foreign", "unknown", "absurd", "partial"}

FAILURE == [kind |-> "FAILURE"]
IDENTITIES_ANSWER == [kind |-> "IDENTITIES_ANSWER"]
SIGN_RESPONSE(c, i) == [kind |-> "SIGN_RESPONSE", over |-> <<c, i>>]
Nothing == [kind |-> "nothing"]

Doing(state, c, reply) == [state |-> state, client |-> c, reply |-> reply]
Nobody == "nobody"
Accepting == Doing("accepting", Nobody, Nothing)

InitAgent ==
  /\ agent = Doing("starting", Nobody, Nothing)
  /\ confirm = TRUE
  /\ queue = <<>>
  /\ conn = [c \in Clients |-> "away"]
  /\ sent = [c \in Clients |-> <<>>]
  /\ replies = [c \in Clients |-> <<>>]
  /\ tty = <<>> /\ gone = FALSE /\ ahead = 0 /\ typed = 0 /\ signed = 0

clients == <<queue, conn, sent, replies>>
terminal == <<tty, gone, ahead, typed>>

-----------------------------------------------------------------------------
(* run_agent: --no-confirm is refused on Windows, where every local        *)
(* process reaches the pipe; without it there must be a terminal.          *)
run_agent(windows, no_confirm, has_terminal) ==
  /\ agent.state = "starting"
  /\ confirm' = ~no_confirm
  /\ agent' = IF (no_confirm /\ windows) \/ (~no_confirm /\ ~has_terminal)
              THEN Doing("stopped", Nobody, Nothing) ELSE Accepting
  /\ UNCHANGED <<clients, terminal, signed>>

(* listen: the next connection, once the one before has ended.             *)
Accept ==
  /\ agent = Accepting
  /\ queue # <<>>
  /\ agent' = Doing("reading", Head(queue), Nothing)
  /\ queue' = Tail(queue)
  /\ UNCHANGED <<confirm, conn, sent, replies, terminal, signed>>

(* An error of accept ends listen, and every connection with the program.  *)
AcceptFails ==
  /\ agent = Accepting
  /\ agent' = Doing("stopped", Nobody, Nothing)
  /\ queue' = <<>>
  /\ conn' = [c \in Clients |-> IF conn[c] = "away" THEN "away" ELSE "done"]
  /\ UNCHANGED <<confirm, sent, replies, terminal, signed>>

(* serve returns, with or without an error; listen goes on.                *)
EndConnection ==
  /\ agent' = Accepting
  /\ conn' = [conn EXCEPT ![agent.client] = "done"]
  /\ UNCHANGED <<confirm, queue, sent, replies, terminal, signed>>

Reply(reply) ==
  /\ agent' = Doing("writing", agent.client, reply)
  /\ UNCHANGED <<confirm, clients, terminal>>

(* Mutant of try_respond: the key that is asked for is not compared.       *)
try_respond_any(request, i) ==
  CASE request = "identities" -> Reply(IDENTITIES_ANSWER) /\ UNCHANGED signed
    [] request \in {"sign", "foreign"} ->
         IF confirm THEN /\ agent' = Doing("asking", agent.client, Nothing)
                         /\ UNCHANGED <<confirm, clients, terminal, signed>>
         ELSE Reply(SIGN_RESPONSE(agent.client, i)) /\ signed' = signed + 1
    [] OTHER -> Reply(FAILURE) /\ UNCHANGED signed

(* try_respond and sign: anything but the list of keys and a request for   *)
(* our own key is refused before the question is asked.                    *)
try_respond(request, i) ==
  CASE request = "identities" -> Reply(IDENTITIES_ANSWER) /\ UNCHANGED signed
    [] request = "sign" ->
         IF confirm THEN /\ agent' = Doing("asking", agent.client, Nothing)
                         /\ UNCHANGED <<confirm, clients, terminal, signed>>
         ELSE Reply(SIGN_RESPONSE(agent.client, i)) /\ signed' = signed + 1
    [] OTHER -> Reply(FAILURE) /\ UNCHANGED signed

(* Mutant of Serve: the end of the stream is not told from a quiet client. *)
Serve_retries ==
  LET c == agent.client
      i == Len(replies[c]) + 1
  IN /\ agent.state = "reading"
     /\ i <= Len(sent[c])
     /\ \/ sent[c][i] = "absurd" /\ EndConnection
        \/ sent[c][i] = "partial" /\ conn[c] = "closed" /\ EndConnection
        \/ sent[c][i] \notin {"absurd", "partial"} /\ try_respond(sent[c][i], i)

(* serve: one turn of the loop, from the length to what respond returns.   *)
(* It waits for a client that is silent.                                   *)
Serve ==
  LET c == agent.client
      i == Len(replies[c]) + 1
  IN /\ agent.state = "reading"
     /\ IF i > Len(sent[c]) THEN conn[c] = "closed" /\ EndConnection
        ELSE \/ sent[c][i] = "absurd" /\ EndConnection
             \/ sent[c][i] = "partial" /\ conn[c] = "closed" /\ EndConnection
             \/ sent[c][i] \notin {"absurd", "partial"} /\ try_respond(sent[c][i], i)

(* Mutant of approve: the answer is read and stays where it was.           *)
approve_keeps ==
  LET c == agent.client IN
  /\ agent.state = "asking"
  /\ tty # <<>>
  /\ IF Head(tty) = "yes"
     THEN /\ agent' = Doing("writing", c, SIGN_RESPONSE(c, Len(replies[c]) + 1))
          /\ signed' = signed + 1
     ELSE agent' = Doing("writing", c, FAILURE) /\ UNCHANGED signed
  /\ UNCHANGED <<confirm, clients, terminal>>

(* AskOnTerminal::approve waits for a line, for as long as it takes, and   *)
(* sign goes on; a terminal that is gone cannot be opened or reads as      *)
(* empty, and the answer is no.                                            *)
approve ==
  LET c == agent.client IN
  /\ agent.state = "asking"
  /\ \/ /\ tty # <<>> /\ Head(tty) = "yes"
        /\ agent' = Doing("writing", c, SIGN_RESPONSE(c, Len(replies[c]) + 1))
        /\ tty' = Tail(tty) /\ signed' = signed + 1
     \/ /\ tty # <<>> /\ Head(tty) # "yes"
        /\ agent' = Doing("writing", c, FAILURE)
        /\ tty' = Tail(tty) /\ UNCHANGED signed
     \/ /\ gone
        /\ agent' = Doing("writing", c, FAILURE) /\ UNCHANGED <<tty, signed>>
  /\ UNCHANGED <<confirm, clients, gone, ahead, typed>>

(* The answer is written; to a client that hung up, that fails.            *)
WriteReply ==
  /\ agent.state = "writing"
  /\ IF conn[agent.client] = "closed" THEN EndConnection
     ELSE /\ replies' = [replies EXCEPT ![agent.client] = Append(@, agent.reply)]
          /\ agent' = Doing("reading", agent.client, Nothing)
          /\ UNCHANGED <<confirm, queue, conn, sent, terminal, signed>>

-----------------------------------------------------------------------------
Connect(c) ==
  /\ agent.state \notin {"starting", "stopped"}
  /\ conn[c] = "away"
  /\ conn' = [conn EXCEPT ![c] = "open"]
  /\ queue' = Append(queue, c)
  /\ UNCHANGED <<agent, confirm, sent, replies, terminal, signed>>

Requested == FoldFunction(+, 0, [d \in Clients |-> Len(sent[d])])

Send(c, request) ==
  /\ conn[c] = "open"
  /\ Requested < MAX_REQUESTS
  /\ \A i \in DOMAIN sent[c] : sent[c][i] \notin {"absurd", "partial"}
  /\ sent' = [sent EXCEPT ![c] = Append(@, request)]
  /\ UNCHANGED <<agent, confirm, queue, conn, replies, terminal, signed>>

Hangup(c) ==
  /\ conn[c] = "open"
  /\ conn' = [conn EXCEPT ![c] = "closed"]
  /\ UNCHANGED <<agent, confirm, queue, sent, replies, terminal, signed>>

(* Nothing that c sent awaits an answer that will come.                    *)
Satisfied(c) ==
  \A i \in DOMAIN sent[c] : i <= Len(replies[c]) \/ sent[c][i] = "partial"

Type(line) ==
  /\ ~gone
  /\ tty' = Append(tty, line)
  /\ typed' = IF line = "yes" THEN typed + 1 ELSE typed
  /\ UNCHANGED <<agent, confirm, clients, gone, signed>>

TypeWhenAsked(line) == agent.state = "asking" /\ tty = <<>> /\ Type(line) /\ UNCHANGED ahead

TypeAhead(line) ==
  /\ agent.state # "starting"
  /\ ahead < MAX_AHEAD /\ ahead' = ahead + 1
  /\ Type(line)

(* The window is closed on a program that outlives it; lines not yet read  *)
(* go with it.                                                             *)
LoseTerminal ==
  /\ agent.state # "starting" /\ ~gone
  /\ gone' = TRUE /\ tty' = <<>>
  /\ UNCHANGED <<agent, confirm, clients, ahead, typed, signed>>

NextAgent ==
  \/ \E windows, no_confirm, has_terminal \in BOOLEAN :
       run_agent(windows, no_confirm, has_terminal)
  \/ Accept
  \/ AcceptFails
  \/ Serve
  \/ approve
  \/ WriteReply
  \/ \E c \in Clients : Connect(c) \/ Hangup(c) \/ \E r \in Requests : Send(c, r)
  \/ \E line \in {"yes", "no"} : TypeWhenAsked(line) \/ TypeAhead(line)
  \/ LoseTerminal

(* The program goes on where it can.  Nothing makes a client send or hang  *)
(* up, and nothing makes anybody type.                                     *)
Fairness ==
  /\ WF_agentVars(Accept) /\ WF_agentVars(Serve)
  /\ WF_agentVars(approve) /\ WF_agentVars(WriteReply)

SpecAgent == InitAgent /\ [][NextAgent]_agentVars /\ Fairness

-----------------------------------------------------------------------------
(* What each part of the agent may hold.                                   *)
TypeOKAgent ==
  /\ agent.state \in {"starting", "accepting", "reading", "asking", "writing", "stopped"}
  /\ (agent.state \in {"reading", "asking", "writing"}) <=> (agent.client \in Clients)
  /\ \A i \in DOMAIN queue : conn[queue[i]] \in {"open", "closed"} /\ queue[i] # agent.client
  /\ \A c \in Clients : Len(replies[c]) <= Len(sent[c])
  /\ {ahead, typed, signed} \subseteq Nat /\ \A i \in DOMAIN tty : tty[i] \in {"yes", "no"}

(* One yes, one signature: while signatures are confirmed, every one of    *)
(* them used up a yes typed at the terminal, however many requests are     *)
(* waiting and whatever was typed ahead or by then unread.                 *)
OneYesOneSignature ==
  confirm => signed + Cardinality({i \in DOMAIN tty : tty[i] = "yes"}) <= typed

(* Every answer a client gets is for its own request in that place: the    *)
(* list of keys, or a signature over the data of that very request, with   *)
(* our key and no other; everything else fails.                            *)
AnswersMatch ==
  \A c \in Clients : \A i \in DOMAIN replies[c] :
    \/ sent[c][i] = "identities" /\ replies[c][i] = IDENTITIES_ANSWER
    \/ sent[c][i] = "sign" /\ replies[c][i] \in {SIGN_RESPONSE(c, i), FAILURE}
    \/ sent[c][i] \in {"foreign", "unknown"} /\ replies[c][i] = FAILURE

(* The agent waits for somebody: for a line at the terminal, or for a      *)
(* client that has been answered and neither sends nor hangs up.  There is *)
(* no timeout on either (read_line in approve, read_exact in serve).       *)
Waiting ==
  \/ agent.state = "asking" /\ tty = <<>> /\ ~gone
  \/ agent.state = "reading" /\ conn[agent.client] = "open" /\ Satisfied(agent.client)

(* A client is owed something: an answer, or to be forgotten once it hung  *)
(* up.                                                                     *)
Owed(c) == conn[c] = "closed" \/ (conn[c] = "open" /\ ~Satisfied(c))

(* An unanswered prompt and a silent client are all that can hold the      *)
(* queue: unless the agent is left waiting for the one or the other for    *)
(* ever, a client that is owed an answer gets it or its connection ends,   *)
(* and one that hung up is forgotten; requests that are refused, cut short *)
(* or absurd, replies that cannot be written and a terminal that goes away *)
(* never stop the agent (listen, serve, approve).                          *)
EveryClientIsServed == []<>~Waiting => \A c \in Clients : Owed(c) ~> ~Owed(c)

=============================================================================
