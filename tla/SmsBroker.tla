------------------------------ MODULE SmsBroker ------------------------------
(***************************************************************************)
(* webui.Broker: the login asks for the code that was sent by SMS; the      *)
(* panel's pages and the terminal answer, first come first served, while a  *)
(* page may have the code sent again.  Each prompt is a generation of its   *)
(* own, named by its number.  One action is one critical section of         *)
(* Broker.mu, one operation on a channel, or one call over the network.     *)
(*                                                                         *)
(* gen never wraps here: 2^64 prompts are out of reach.                     *)
(***************************************************************************)
EXTENDS Integers, FiniteSets

CONSTANTS Pages,      \* requests to the web API that run at once
          Terminal,   \* the stdin reader
          MaxPrompts  \* bound: prompts

ASSUME BrokerAssumption == Terminal \notin Pages /\ MaxPrompts \in Nat

VARIABLES
  gen,      \* Broker.gen
  pending,  \* Broker.pending: the generation that is armed, or 0
  prompt,   \* smsPending of each generation
  login,    \* the goroutine of the login, in smsFlow and Prompt
  shown,    \* Hub.smsGen, 0 when no prompt is shown
  client    \* the goroutines of the pages and the terminal

vars == <<gen, pending, prompt, login, shown, client>>

Clients == Pages \cup {Terminal}
Gens    == 1..MaxPrompts

Empty   == [kind |-> "empty", by |-> Terminal, for |-> 0]
Expired == [Empty EXCEPT !.kind = "expired"]
\* A code, who entered it and the prompt it was entered for.
Code(c, g) == [kind |-> "code", by |-> c, for |-> g]

Fresh == [resolved |-> FALSE, done |-> FALSE, expired |-> FALSE,
          result   |-> Empty,     \* the channel of capacity 1
          gate     |-> Terminal,  \* the page that holds opGate, else free
          accepted |-> 0]         \* history: codes that were accepted

Free(g) == prompt[g].gate = Terminal

Login == [pc |-> "sms", gone |-> FALSE, got |-> Empty]
Idle  == [pc |-> "idle",
          gen |-> 0,  \* the prompt it speaks of
          to |-> 0]   \* the prompt it was bound to under the mutex

Init ==
  /\ gen = 0 /\ pending = 0 /\ shown = 0
  /\ prompt = [g \in Gens |-> Fresh]
  /\ login = Login
  /\ client = [c \in Clients |-> Idle]

-----------------------------------------------------------------------------
(* Prompt *)

LoginAt(l) == login.pc = l

LoginGoes(l) == login' = [login EXCEPT !.pc = l]

Arm ==
  /\ LoginAt("sms") /\ gen < MaxPrompts
  /\ gen' = gen + 1 /\ pending' = gen + 1
  /\ LoginGoes("armed")
  /\ UNCHANGED <<prompt, shown, client>>

Announce ==
  /\ LoginAt("armed")
  /\ shown' = gen
  /\ LoginGoes("wait")
  /\ UNCHANGED <<gen, pending, prompt, client>>

ContextEnds ==
  /\ ~login.gone /\ ~LoginAt("sms")
  /\ login' = [login EXCEPT !.gone = TRUE]
  /\ UNCHANGED <<gen, pending, prompt, shown, client>>

Receives(l) ==
  /\ prompt[gen].result # Empty
  /\ login' = [login EXCEPT !.pc = l, !.got = prompt[gen].result]

Woken ==
  /\ LoginAt("wait") /\ Receives("exit")
  /\ prompt' = [prompt EXCEPT ![gen].result = Empty]
  /\ UNCHANGED <<gen, pending, shown, client>>

GivenUp ==
  /\ LoginAt("wait") /\ login.gone
  /\ LoginGoes("exit")
  /\ UNCHANGED <<gen, pending, prompt, shown, client>>

\* Mutant of Exit: a cancelled prompt does not look for a winner.
ExitIgnoresWinner ==
  /\ LoginAt("exit")
  /\ pending' = 0
  /\ prompt' = [prompt EXCEPT ![gen].done = TRUE]
  /\ LoginGoes("withdraw")
  /\ UNCHANGED <<gen, shown, client>>

\* A winner that has yet to write its result is waited for.
Exit ==
  /\ LoginAt("exit")
  /\ pending' = 0
  /\ IF prompt[gen].resolved /\ login.got = Empty
       THEN /\ Receives("withdraw")
            /\ prompt' = [prompt EXCEPT ![gen].done = TRUE,
                                        ![gen].result = Empty]
       ELSE /\ LoginGoes("withdraw")
            /\ prompt' = [prompt EXCEPT ![gen].done = TRUE]
  /\ UNCHANGED <<gen, shown, client>>

Withdraw ==
  /\ LoginAt("withdraw")
  /\ shown' = 0
  /\ LoginGoes("gate")
  /\ UNCHANGED <<gen, pending, prompt, client>>

\* Mutant of PassGate: a resend on its way is not waited for.
PassGateAlways ==
  /\ LoginAt("gate")
  /\ LoginGoes("decide")
  /\ UNCHANGED <<gen, pending, prompt, shown, client>>

PassGate ==
  /\ LoginAt("gate") /\ Free(gen)
  /\ LoginGoes("decide")
  /\ UNCHANGED <<gen, pending, prompt, shown, client>>

\* Mutant of Outcome: a code that came first beats an expired login.
OutcomeCodeFirst ==
  IF login.got.kind = "code" THEN "check"
  ELSE IF prompt[gen].expired \/ login.got.kind = "expired" THEN "expired"
  ELSE "over"

\* What Prompt returns: an expired login beats a code.
Outcome ==
  IF prompt[gen].expired \/ login.got.kind = "expired" THEN "expired"
  ELSE IF login.got.kind = "code" THEN "check" ELSE "over"

Decide ==
  /\ LoginAt("decide")
  /\ LoginGoes(Outcome)
  /\ UNCHANGED <<gen, pending, prompt, shown, client>>

\* The controller takes the code, refuses it, or finds the login expired.
Checked ==
  /\ LoginAt("check")
  /\ \E l \in {"over", "expired"} : LoginGoes(l)
  /\ UNCHANGED <<gen, pending, prompt, shown, client>>

\* The login starts again, or ends with its context.
Restarts ==
  /\ LoginAt("expired")
  /\ IF login.gone THEN LoginGoes("over") ELSE login' = Login
  /\ UNCHANGED <<gen, pending, prompt, shown, client>>

\* A later acquisition.
NextLogin ==
  /\ LoginAt("over")
  /\ login' = Login
  /\ UNCHANGED <<gen, pending, prompt, shown, client>>

-----------------------------------------------------------------------------
(* Pages and the terminal *)

At(c, l) == client[c].pc = l

Goes(c, l) == client' = [client EXCEPT ![c].pc = l]

Rests(c) == client' = [client EXCEPT ![c] = Idle]

\* A page acts on the generation it was shown, perhaps long ago.
Sees(c) ==
  /\ c \in Pages /\ At(c, "idle") /\ shown # 0
  /\ client' = [client EXCEPT ![c].pc = "seen", ![c].gen = shown]
  /\ UNCHANGED <<gen, pending, prompt, login, shown>>

Open(g) == g # 0 /\ pending = g /\ ~prompt[g].done /\ ~prompt[g].resolved

\* Mutant of MayClaim: a page's code goes to whatever prompt is armed.
MayClaimAny(c) ==
  Open(pending) /\ At(c, IF c = Terminal THEN "idle" ELSE "seen")

\* The terminal always means the prompt that is armed.
MayClaim(c) ==
  /\ Open(pending)
  /\ IF c = Terminal THEN At(c, "idle")
     ELSE At(c, "seen") /\ client[c].gen = pending

\* Mutant of Claim: it does not take the prompt while it delivers.
ClaimLate(c) ==
  /\ MayClaim(c)
  /\ prompt' = [prompt EXCEPT ![pending].accepted = @ + 1]
  /\ client' = [client EXCEPT ![c].pc = "won", ![c].to = pending]
  /\ UNCHANGED <<gen, pending, login, shown>>

Claim(c) ==
  /\ MayClaim(c)
  /\ prompt' = [prompt EXCEPT ![pending].resolved = TRUE,
                              ![pending].accepted = @ + 1]
  /\ client' = [client EXCEPT ![c].pc = "won", ![c].to = pending]
  /\ UNCHANGED <<gen, pending, login, shown>>

Refused(c) ==
  /\ At(c, "seen") /\ ~(Open(pending) /\ client[c].gen = pending)
  /\ Rests(c)
  /\ UNCHANGED <<gen, pending, prompt, login, shown>>

\* The write of the result, outside the mutex.
Sends(c, v) ==
  /\ prompt[client[c].to].result = Empty
  /\ prompt' = [prompt EXCEPT ![client[c].to].result = v]
  /\ UNCHANGED <<gen, pending, login, shown>>

Delivers(c) ==
  At(c, "won") /\ Sends(c, Code(c, client[c].gen)) /\ Rests(c)

ResendBegins(c) ==
  /\ At(c, "seen") /\ Open(pending) /\ client[c].gen = pending
  /\ client' = [client EXCEPT ![c].pc = "gate", ![c].to = pending]
  /\ UNCHANGED <<gen, pending, prompt, login, shown>>

\* The page goes away while it waits for its turn.
ResendLeaves(c) ==
  /\ At(c, "gate")
  /\ Rests(c)
  /\ UNCHANGED <<gen, pending, prompt, login, shown>>

ResendGated(c) ==
  /\ At(c, "gate") /\ Free(client[c].to)
  /\ prompt' = [prompt EXCEPT ![client[c].to].gate = c]
  /\ Goes(c, "again")
  /\ UNCHANGED <<gen, pending, login, shown>>

\* opGate is given back and the request is answered.
ResendEnds(c) ==
  /\ prompt' = [prompt EXCEPT ![client[c].to].gate = Terminal]
  /\ Rests(c)
  /\ UNCHANGED <<gen, pending, login, shown>>

\* Mutant of ResendValidates: the gate is kept on the way out.
ResendKeepsGate(c) ==
  /\ At(c, "again")
  /\ IF Open(client[c].to) THEN Goes(c, "net") ELSE Rests(c)
  /\ UNCHANGED <<gen, pending, prompt, login, shown>>

ResendValidates(c) ==
  /\ At(c, "again")
  /\ IF Open(client[c].to)
       THEN Goes(c, "net") /\ UNCHANGED <<gen, pending, prompt, login, shown>>
       ELSE ResendEnds(c)

ResendAnswered(c) == At(c, "net") /\ ResendEnds(c)

\* The controller has dropped the login behind the prompt.
ResendExpired(c) ==
  LET g == client[c].to
  IN  /\ At(c, "net")
      /\ prompt' = [prompt EXCEPT ![g].expired = TRUE,
                                  ![g].resolved = @ \/ Open(g)]
      /\ Goes(c, IF Open(g) THEN "tell" ELSE "told")
      /\ UNCHANGED <<gen, pending, login, shown>>

ResendTells(c) == At(c, "tell") /\ Sends(c, Expired) /\ Goes(c, "told")

ResendTold(c) == At(c, "told") /\ ResendEnds(c)

-----------------------------------------------------------------------------

LoginStep ==
  \/ Announce \/ Woken \/ GivenUp \/ Exit \/ Withdraw \/ PassGate \/ Decide
  \/ Checked \/ Restarts

ClientStep(c) ==
  \/ Delivers(c) \/ ResendGated(c) \/ ResendValidates(c) \/ ResendAnswered(c)
  \/ ResendExpired(c) \/ ResendTells(c) \/ ResendTold(c)

Next ==
  \/ LoginStep \/ Arm \/ ContextEnds \/ NextLogin
  \/ \E c \in Clients :
       \/ ClientStep(c) \/ Sees(c) \/ Claim(c) \/ Refused(c)
       \/ ResendBegins(c) \/ ResendLeaves(c)

Spec == Init /\ [][Next]_vars

\* Goroutines run; a call over the network ends, at the latest when the
\* context of the login does.
FairSpec ==
  /\ Spec /\ WF_vars(LoginStep)
  /\ \A c \in Clients : WF_vars(ClientStep(c))

-----------------------------------------------------------------------------
(* Properties *)

\* Every variable has its type.
TypeOK ==
  /\ gen \in 0..MaxPrompts /\ pending \in {0, gen} /\ shown \in {0, gen}
  /\ \A g \in Gens :
       /\ DOMAIN prompt[g] = DOMAIN Fresh
       /\ prompt[g].gate \in Clients
       /\ prompt[g].accepted \in {0, 1}
       /\ prompt[g].done => prompt[g].result = Empty
  /\ login.pc \in {"sms", "armed", "wait", "exit", "withdraw", "gate",
                   "decide", "check", "expired", "over"}
  /\ \A c \in Clients : client[c].gen \in 0..gen /\ client[c].to \in 0..gen

\* A code that was accepted, over the web with 202, is the one that is
\* checked, unless the login it was for has expired: a cancelled prompt, a
\* second code or the teardown never loses it.
AcceptedIsUsed ==
  gen # 0 /\ (LoginAt("gate") \/ LoginAt("decide"))
    => /\ prompt[gen].accepted = 1 => login.got.kind = "code"
       /\ prompt[gen].accepted = 0 => login.got.kind # "code"

\* A code typed into a page is only checked for the prompt the page showed.
CodeOfItsPrompt ==
  LoginAt("check") /\ login.got.by # Terminal => login.got.for = gen

\* The code is never checked while a resend of its prompt is at the
\* controller, nor once a resend has found that login expired.
NoOverlap ==
  LoginAt("check") =>
    /\ \A c \in Pages : ~(At(c, "net") /\ client[c].to = gen)
    /\ ~prompt[gen].expired

\* The code that is checked is the one for the prompt, and checked alone.
CheckedCode == TypeOK /\ CodeOfItsPrompt /\ NoOverlap

\* A prompt whose context has ended returns, also while a resend is under way
\* or a code is being delivered.
PromptReturns == login.gone ~> ~login.gone \/ LoginAt("over")

=============================================================================
