----------------------------- MODULE RelayClient -----------------------------
(***************************************************************************)
(* The borrower's command line (src/borrower-cli.ts) against the relay's   *)
(* sessions, login rate limiter and chat handler (src/index.ts,            *)
(* src/auth.ts), over what PrepaidAccounts promises of the credits, which  *)
(* Relay implements.                                                       *)
(*                                                                         *)
(* A turn of the REPL makes one or two chat requests and up to two logins. *)
(* Requests and answers travel; a connection may break at any point, and   *)
(* then the relay finishes what it has begun without a client.             *)
(*                                                                         *)
(* Times count down: row is what is left of a session in the relay's       *)
(* table, copy what the client thinks is left, limiter[ip].left what is    *)
(* left until resetAt (-1 once it has passed).  Relay and client are       *)
(* assumed to read the same clock.                                         *)
(***************************************************************************)
EXTENDS Integers, Sequences, Functions

CONSTANTS
  Clients,        \* one REPL of one borrower each
  Ips,            \* what the relay sees: x-forwarded-for, or "unknown"
  IpOf(_),        \* client -> ip
  Ttl,            \* config.sessionTtlSeconds
  Margin,         \* the 60 seconds of getSession()
  Window,         \* AUTH_RATE_WINDOW_MS
  Limit,          \* AUTH_RATE_LIMIT
  Estimate,       \* estimateMaxCost()
  Costs,          \* BOUND: computeCost() of what Venice reports
  InitialCredit,  \* BOUND: credit each borrower has bought for today
  Suspendable,    \* BOUND: the borrowers the admin suspends
  MaxHistory,     \* BOUND: messages of a conversation
  MaxLosses       \* BOUND: broken connections and restarts

ASSUME ClientAssumption ==
  /\ Suspendable \subseteq Clients
  /\ \A c \in Clients : IpOf(c) \in Ips
  /\ Ttl \in Nat /\ Margin \in 0..Ttl - 1 /\ Window \in Nat /\ Limit \in Nat \ {0}
  /\ Estimate \in Nat \ {0} /\ Costs \subseteq Nat
  /\ InitialCredit \in Nat /\ MaxHistory \in Nat \ {0} /\ MaxLosses \in Nat

VARIABLES
  command,          \* client -> what it was started for, see Commands
  fixed,            \* the clients started with --session
  at,               \* client -> where its turn is, see Places
  retried,          \* client -> the turn has used its second attempt
  answer,           \* client -> [status, amount] on its way: what was charged, or
                    \* what is left of the session a login is about to give
  copy, row, age,   \* client -> Nat; age: time since getSession()
                    \* handed the session out or its login began
  active,           \* client -> borrowers.active
  history,          \* client -> roles of the conversation
  limiter, recent,  \* ip -> [count, left]; history: logins let in per time unit
  orphans,          \* client -> [this, earlier]: handlers whose client is gone,
                    \* of this turn and of earlier ones
  charges,          \* history: client -> charges for this turn
  losses,
  credit, held, spent

Accounts == INSTANCE PrepaidAccounts WITH Borrowers <- Clients, Amounts <- {}

accounts == <<credit, held, spent>>
sessionVars == <<copy, row, age, active>>
limitVars == <<limiter, recent>>
started == <<command, fixed>>
vars == <<started, at, retried, answer, sessionVars, history, limitVars, orphans, charges, losses,
          accounts>>

Places == {"prompt", "login", "verify", "granted", "ask", "venice", "answer", "quit"}
NoAnswer == [status |-> "none", amount |-> 0]

OneShots == {"auth", "balance", "models", "chat"}
Commands == OneShots \cup {"repl"}

Init ==
  /\ command \in [Clients -> Commands]
  /\ fixed \in SUBSET Clients
  /\ at = [c \in Clients |-> "prompt"]
  /\ retried = [c \in Clients |-> FALSE]
  /\ answer = [c \in Clients |-> NoAnswer]
  /\ copy = [c \in Clients |-> 0]
  /\ row = [c \in Clients |-> IF c \in fixed THEN Ttl ELSE 0]
  /\ age = [c \in Clients |-> 0]
  /\ active = [c \in Clients |-> TRUE]
  /\ history = [c \in Clients |-> <<>>]
  /\ limiter = [ip \in Ips |-> [count |-> 0, left |-> -1]]
  /\ recent = [ip \in Ips |-> [t \in 0..Window |-> 0]]
  /\ orphans = [c \in Clients |-> [this |-> 0, earlier |-> 0]]
  /\ charges = [c \in Clients |-> 0]
  /\ losses = 0
  /\ credit = [c \in Clients |-> InitialCredit]
  /\ held = [c \in Clients |-> 0] /\ spent = [c \in Clients |-> 0]
-----------------------------------------------------------------------------
(* The client.                                                             *)

\* (mutant) a session is good until its last second.
NotExpired(c) == copy[c] > 0
LongEnough(c) == copy[c] > Margin

\* getSession(): the one given, the one at hand, or a new one.
GetSession(c) ==
  IF c \in fixed \/ LongEnough(c)
  THEN at' = [at EXCEPT ![c] = "ask"] /\ age' = [age EXCEPT ![c] = 0]
  ELSE at' = [at EXCEPT ![c] = "login"] /\ UNCHANGED age

SendMessage(c) ==
  /\ at[c] = "prompt" /\ Len(history[c]) < MaxHistory
  /\ history' = [history EXCEPT ![c] = Append(@, "user")]
  /\ GetSession(c)
  /\ charges' = [charges EXCEPT ![c] = 0]
  /\ orphans' = [orphans EXCEPT ![c] = [this |-> 0, earlier |-> @.this + @.earlier]]
  /\ UNCHANGED <<retried, answer, copy, row, active, limitVars, losses,
                 accounts>>

\* A message of the REPL, or the only one of the command chat.
Say(c) == command[c] = "repl" /\ SendMessage(c)
CmdChat(c) == command[c] = "chat" /\ SendMessage(c)

\* A message is waiting for its answer; a turn without one is /balance.
Chatting(c) == Len(history[c]) % 2 = 1

\* The session is checked or renewed as for a message.
FetchBalance(c) ==
  /\ at[c] = "prompt"
  /\ GetSession(c)
  /\ UNCHANGED <<retried, answer, copy, row, active, history, limitVars, orphans, charges,
                 losses, accounts>>

AskBalance(c) == command[c] = "repl" /\ FetchBalance(c)
CmdBalance(c) == command[c] = "balance" /\ FetchBalance(c)

\* cmdModels(): one request, the session got in the same way.
CmdModels(c) == command[c] = "models" /\ FetchBalance(c)

\* cmdAuth(): a login whatever session is given or at hand.
CmdAuth(c) ==
  /\ command[c] = "auth"
  /\ at[c] = "prompt"
  /\ at' = [at EXCEPT ![c] = "login"]
  /\ UNCHANGED <<retried, answer, sessionVars, history, limitVars, orphans, charges, losses,
                 accounts>>

Clear(c) ==
  /\ command[c] = "repl"
  /\ at[c] = "prompt" /\ history[c] # <<>>
  /\ history' = [history EXCEPT ![c] = <<>>]
  /\ UNCHANGED <<at, retried, answer, sessionVars, limitVars, orphans,
                 charges, losses, accounts>>

Quit(c) ==
  /\ command[c] = "repl"
  /\ at[c] = "prompt"
  /\ at' = [at EXCEPT ![c] = "quit"]
  /\ UNCHANGED <<retried, answer, sessionVars, history, limitVars, orphans, charges,
                 losses, accounts>>

\* After a turn the REPL prompts again, and a command's process exits.
NextPlace(c) == IF command[c] = "repl" THEN "prompt" ELSE "quit"

\* The answer to the login: the session is the client's, and the chat is sent.
LoginAnswered(c) ==
  /\ at[c] = "granted"
  /\ at' = [at EXCEPT ![c] = IF command[c] = "auth" THEN "quit" ELSE "ask"]
  /\ copy' = [copy EXCEPT ![c] = answer[c].amount]
  /\ age' = [age EXCEPT ![c] = Ttl - answer[c].amount]
  /\ answer' = [answer EXCEPT ![c] = NoAnswer]
  /\ UNCHANGED <<retried, row, active, history, limitVars, orphans, charges, losses,
                 accounts>>

\* (mutant) the failed message stays in the conversation.
KeepMessage(c) == UNCHANGED history
DropMessage(c) ==
  history' = [history EXCEPT ![c] = IF Chatting(c) THEN SubSeq(@, 1, Len(@) - 1) ELSE @]

\* The catch of the turn, or of main(): the error is shown.
FailTurn(c) ==
  /\ at' = [at EXCEPT ![c] = NextPlace(c)]
  /\ DropMessage(c)
  /\ answer' = [answer EXCEPT ![c] = NoAnswer]
  /\ retried' = [retried EXCEPT ![c] = FALSE] /\ age' = [age EXCEPT ![c] = 0]
  /\ UNCHANGED <<copy, row, active>>

\* (mutant) retries for ever.
AlwaysRetry(c, status) == command[c] = "repl" /\ status = "401" /\ Chatting(c)
\* (mutant) retries a broken connection too.
RetryAnyError(c, status) ==
  command[c] = "repl" /\ ~retried[c] /\ status # "402" /\ Chatting(c)
\* One more attempt, and only where the relay did nothing for the first.
MayRetry(c, status) ==
  command[c] = "repl" /\ status = "401" /\ ~retried[c] /\ Chatting(c)

\* SESSION_EXPIRED: forget the session, get another, ask again.
Retry(c) ==
  /\ retried' = [retried EXCEPT ![c] = TRUE]
  /\ copy' = [copy EXCEPT ![c] = 0]
  /\ answer' = [answer EXCEPT ![c] = NoAnswer]
  /\ at' = [at EXCEPT ![c] = IF c \in fixed THEN "ask" ELSE "login"]
  /\ age' = [age EXCEPT ![c] = 0]
  /\ UNCHANGED <<row, active, history>>

Succeed(c) ==
  /\ history' = [history EXCEPT ![c] = IF Chatting(c) THEN Append(@, "assistant") ELSE @]
  /\ at' = [at EXCEPT ![c] = NextPlace(c)]
  /\ answer' = [answer EXCEPT ![c] = NoAnswer]
  /\ retried' = [retried EXCEPT ![c] = FALSE]
  /\ UNCHANGED sessionVars

Answered(c) ==
  /\ at[c] = "answer"
  /\ IF answer[c].status = "ok" THEN Succeed(c)
     ELSE IF MayRetry(c, answer[c].status) THEN Retry(c) ELSE FailTurn(c)
  /\ UNCHANGED <<limitVars, orphans, charges, losses, accounts>>
-----------------------------------------------------------------------------
(* The relay.                                                              *)

Reply(c, status, charged) ==
  /\ at' = [at EXCEPT ![c] = "answer"]
  /\ answer' = [answer EXCEPT ![c] = [status |-> status, amount |-> charged]]

Expired(entry) == entry.left < 0

\* checkAuthRateLimit(): the entry after one more attempt.
Counted(entry) ==
  IF Expired(entry) THEN [count |-> 1, left |-> Window]
  ELSE [entry EXCEPT !.count = IF @ > Limit THEN @ ELSE @ + 1]

LetIn(entry) == entry.count <= Limit

\* POST /auth/login up to the await of verifyMessage; the client's GET of the
\* message to sign is not limited.
Login(c) ==
  LET ip == IpOf(c)
      entry == Counted(limiter[ip])
  IN  /\ at[c] = "login"
      /\ limiter' = [limiter EXCEPT ![ip] = entry]
      /\ IF LetIn(entry)
         THEN /\ at' = [at EXCEPT ![c] = "verify"]
              /\ answer' = [answer EXCEPT ![c] = [status |-> "login", amount |-> Ttl]]
              /\ recent' = [recent EXCEPT ![ip][0] = @ + 1]
         ELSE Reply(c, "429", 0) /\ UNCHANGED recent
      /\ UNCHANGED <<retried, sessionVars, history, orphans, charges, losses, accounts>>

\* Somebody else behind the same address logs in.
OtherLogin(ip) ==
  /\ limiter' = [limiter EXCEPT ![ip] = Counted(@)]
  /\ recent' = IF LetIn(Counted(limiter[ip])) THEN [recent EXCEPT ![ip][0] = @ + 1] ELSE recent
  /\ UNCHANGED <<at, retried, answer, sessionVars, history, orphans, charges, losses,
                 accounts>>

\* The signature is verified: a session that ends Ttl after the login began.
Verified(c) ==
  /\ at[c] = "verify"
  /\ IF active[c]
     THEN /\ at' = [at EXCEPT ![c] = "granted"]
          /\ row' = [row EXCEPT ![c] = answer[c].amount]
          /\ UNCHANGED answer
     ELSE Reply(c, "error", 0) /\ UNCHANGED row
  /\ UNCHANGED <<retried, copy, age, active, history, limitVars, orphans, charges, losses,
                 accounts>>

\* requireSession(): the row is there and the borrower is not suspended.
SessionValid(c) == row[c] > 0 /\ active[c]

\* GET /v1/balance, answered at once.
Balance(c) ==
  /\ at[c] = "ask" /\ ~Chatting(c) /\ command[c] # "models"
  /\ Reply(c, IF SessionValid(c) THEN "ok" ELSE "401", 0)
  /\ age' = [age EXCEPT ![c] = 0]
  /\ UNCHANGED <<retried, copy, row, active, history, limitVars, orphans, charges, losses,
                 accounts>>

\* listModels(): what Venice answers to it.
ListModels == {"ok", "error"}

\* GET /v1/models: Venice's list, or 502; nothing is held while Venice is awaited.
Models(c) ==
  /\ at[c] = "ask" /\ command[c] = "models"
  /\ IF SessionValid(c) THEN \E status \in ListModels : Reply(c, status, 0)
     ELSE Reply(c, "401", 0)
  /\ age' = [age EXCEPT ![c] = 0]
  /\ UNCHANGED <<retried, copy, row, active, history, limitVars, orphans, charges, losses,
                 accounts>>

\* POST /v1/chat/completions up to the await of Venice, with preflightCheck().
Chat(c) ==
  /\ at[c] = "ask" /\ Chatting(c)
  /\ IF ~SessionValid(c) THEN Reply(c, "401", 0) /\ UNCHANGED accounts
     ELSE IF credit[c] < Estimate THEN Reply(c, "402", 0) /\ UNCHANGED accounts
     ELSE /\ at' = [at EXCEPT ![c] = "venice"]
          /\ Accounts!Hold(c, Estimate)
          /\ UNCHANGED answer
  /\ age' = [age EXCEPT ![c] = 0]
  /\ UNCHANGED <<retried, copy, row, active, history, limitVars, orphans, charges, losses>>

\* Venice reports usage, and the borrower is charged.
Settle(c, cost) == Accounts!Settle(c, Estimate, cost) /\ credit'[c] >= 0

VeniceAnswers(c, cost) ==
  /\ at[c] = "venice"
  /\ Settle(c, cost)
  /\ Reply(c, "ok", cost)
  /\ charges' = [charges EXCEPT ![c] = @ + 1]
  /\ UNCHANGED <<retried, sessionVars, history, limitVars, orphans, losses>>

\* No usage data, an error, or Venice's own 401 or 402, which the relay passes
\* on as if it were about the borrower.
VeniceRefuses(c, status) ==
  /\ at[c] = "venice"
  /\ Accounts!Release(c, Estimate)
  /\ Reply(c, status, 0)
  /\ UNCHANGED <<retried, sessionVars, history, limitVars, orphans, charges, losses>>

\* A handler whose client is gone ends like any other.
OrphanEnds(c, turn) ==
  /\ orphans[c][turn] > 0
  /\ orphans' = [orphans EXCEPT ![c][turn] = @ - 1]
  /\ \/ Accounts!Release(c, Estimate) /\ UNCHANGED charges
     \/ /\ \E cost \in Costs : Settle(c, cost)
        /\ charges' = IF turn = "this" THEN [charges EXCEPT ![c] = @ + 1] ELSE charges
  /\ UNCHANGED <<at, retried, answer, sessionVars, history, limitVars, losses>>
-----------------------------------------------------------------------------
(* Time, the timers, suspension and failure.                               *)

Less(n) == IF n > 0 THEN n - 1 ELSE 0

Tick ==
  /\ copy' = [c \in Clients |-> Less(copy[c])]
  /\ row' = [c \in Clients |-> Less(row[c])]
  /\ age' = [c \in Clients |-> IF at[c] = "ask" /\ age[c] <= Margin THEN age[c] + 1
                               ELSE age[c]]
  /\ answer' = [c \in Clients |-> IF at[c] \in {"verify", "granted"}
                                  THEN [answer[c] EXCEPT !.amount = Less(@)]
                                  ELSE answer[c]]
  /\ limiter' = [ip \in Ips |-> [limiter[ip] EXCEPT !.left = IF @ < 0 THEN @ ELSE @ - 1]]
  /\ recent' = [ip \in Ips |-> [t \in 0..Window |-> IF t = 0 THEN 0 ELSE recent[ip][t - 1]]]
  /\ UNCHANGED <<at, retried, active, history, orphans, charges, losses, accounts>>

\* (mutant) the timer empties the map.
AnyEntry(entry) == TRUE
Removable(entry) == Expired(entry)

CleanLimiter ==
  /\ limiter' = [ip \in Ips |-> IF Removable(limiter[ip]) THEN [count |-> 0, left |-> -1]
                                ELSE limiter[ip]]
  /\ UNCHANGED <<at, retried, answer, sessionVars, history, recent, orphans, charges,
                 losses, accounts>>

Suspend(c) ==
  /\ active[c]
  /\ active' = [active EXCEPT ![c] = FALSE]
  /\ row' = [row EXCEPT ![c] = 0]
  /\ UNCHANGED <<at, retried, answer, copy, age, history, limitVars, orphans, charges,
                 losses, accounts>>

Unsuspend(c) ==
  /\ ~active[c]
  /\ active' = [active EXCEPT ![c] = TRUE]
  /\ UNCHANGED <<at, retried, answer, copy, row, age, history, limitVars, orphans,
                 charges, losses, accounts>>

\* The connection breaks: fetch() rejects, and the turn ends or is retried.
ConnectionBreaks(c) ==
  /\ at[c] \in {"login", "verify", "granted", "ask", "venice", "answer"}
  /\ losses < MaxLosses /\ losses' = losses + 1
  /\ orphans' = IF at[c] = "venice" THEN [orphans EXCEPT ![c].this = @ + 1] ELSE orphans
  /\ IF at[c] \in {"ask", "venice", "answer"} /\ MayRetry(c, "broken")
     THEN Retry(c) ELSE FailTurn(c)
  /\ UNCHANGED <<limitVars, charges, accounts>>

\* The relay dies and is started again: every connection breaks, the handlers
\* and what they held are gone, and so is the limiter, which is in memory.
Restart ==
  /\ losses < MaxLosses /\ losses' = losses + 1
  /\ at' = [c \in Clients |-> IF at[c] \in {"prompt", "quit"} THEN at[c] ELSE NextPlace(c)]
  /\ history' = [c \in Clients |-> IF Chatting(c) THEN SubSeq(history[c], 1, Len(history[c]) - 1)
                                   ELSE history[c]]
  /\ answer' = [c \in Clients |-> NoAnswer]
  /\ limiter' = [ip \in Ips |-> [count |-> 0, left |-> -1]]
  /\ recent' = [ip \in Ips |-> [t \in 0..Window |-> 0]]
  /\ orphans' = [c \in Clients |-> [this |-> 0, earlier |-> 0]]
  /\ Accounts!Crash
  /\ retried' = [c \in Clients |-> FALSE] /\ age' = [c \in Clients |-> 0]
  /\ UNCHANGED <<copy, row, active, charges>>

RelayStep(c) ==
  \/ Login(c) \/ Verified(c) \/ Chat(c) \/ Balance(c) \/ Models(c)
  \/ \E cost \in Costs : VeniceAnswers(c, cost)
  \/ \E status \in {"ok", "401", "402", "error"} : VeniceRefuses(c, status)

ClientStep(c) == LoginAnswered(c) \/ Answered(c)

UserStep(c) ==
  \/ Say(c) \/ AskBalance(c) \/ Clear(c) \/ Quit(c)
  \/ CmdChat(c) \/ CmdBalance(c) \/ CmdModels(c) \/ CmdAuth(c)

Step ==
  \/ \E c \in Clients :
       \/ UserStep(c) \/ ClientStep(c) \/ RelayStep(c)
       \/ \E turn \in {"this", "earlier"} : OrphanEnds(c, turn)
       \/ ConnectionBreaks(c)
  \/ \E c \in Suspendable : Suspend(c) \/ Unsuspend(c)
  \/ \E ip \in Ips : OtherLogin(ip)
  \/ Tick \/ CleanLimiter \/ Restart

Next == Step /\ UNCHANGED started

Spec == Init /\ [][Next]_vars

\* The relay answers what reaches it, Venice included, and answers arrive.
FairSpec ==
  Spec /\ \A c \in Clients : WF_vars((RelayStep(c) \/ ClientStep(c)) /\ UNCHANGED started)
-----------------------------------------------------------------------------
\* A message is charged at most once, retried or not: the only error the REPL
\* retries is one for which the relay has charged nothing, whatever becomes of
\* the answers and of handlers whose client is gone.
TurnChargedOnce == \A c \in Clients : charges[c] <= 1

\* Between turns the conversation is a list of questions with their answers:
\* a turn that failed anywhere, after a retry too, leaves nothing behind.
TurnsComplete ==
  \A c \in Clients : at[c] = "prompt" =>
    /\ Len(history[c]) % 2 = 0
    /\ \A i \in DOMAIN history[c] :
         history[c][i] = IF i % 2 = 1 THEN "user" ELSE "assistant"

\* The first request of a turn is not refused for its session, unless it took
\* longer than the margin of getSession(), from the login's begin if there was
\* one, or the borrower was suspended.
\* (A session given by --session is used as long as it lasts.)
MarginHolds ==
  [][\A c \in Clients \ fixed :
       at[c] = "ask" /\ answer'[c].status = "401" /\ row[c] = 0 /\ copy[c] = 0
         => age[c] > Margin]_vars

\* However the windows lie, the cleanup runs and clients share an address: the
\* relay verifies no more than two windows' worth of logins in one window's time,
\* from one restart of its process, which forgets the attempts, to the next.
LoginsLimited == \A ip \in Ips : SumFunction(recent[ip]) <= 2 * Limit

\* Every turn and command ends: there is no endless retry, whatever Venice answers.
TurnsEnd ==
  \A c \in Clients : at[c] \notin {"prompt", "quit"} ~> at[c] \in {"prompt", "quit"}
=============================================================================
