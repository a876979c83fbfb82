--------------------------- MODULE WebPanelProofs ---------------------------
(***************************************************************************)
(* The safety properties of the two components behind the web panel: first  *)
(* SmsBroker, which takes the code a login waits for, for any number of     *)
(* pages and prompts; then SessionEvents, which tells the panel and the     *)
(* Runtime what became of the login, for queues and streams of any length   *)
(* and any number of acquisitions.                                          *)
(***************************************************************************)
EXTENDS SmsBroker, SessionEvents, SequenceTheorems, TLAPS

-----------------------------------------------------------------------------
(* SmsBroker: the state *)

Values  == [kind : {"empty", "code", "expired"}, by : Clients, for : Nat]
Prompts == [resolved : BOOLEAN, done : BOOLEAN, expired : BOOLEAN,
            result : Values, gate : Clients, accepted : {0, 1}]

Logins  == [pc : {"sms", "armed", "wait", "exit", "withdraw", "gate",
                  "decide", "check", "expired", "over"},
            gone : BOOLEAN, got : Values]
States  == [pc : {"idle", "seen", "won", "gate", "again", "net", "tell", "told"},
            gen : Nat, to : Nat]

Types ==
  /\ gen \in 0..MaxPrompts /\ pending \in {0, gen} /\ shown \in {0, gen}
  /\ prompt \in [Gens -> Prompts]
  /\ login \in Logins
  /\ client \in [Clients -> States]
  /\ \A c \in Clients : client[c].gen <= gen /\ client[c].to <= gen

\* The prompt is still armed: the login waits or has yet to withdraw it.
Asking == login.pc \in {"armed", "wait", "exit"}

\* Only the prompt that is asked for is open, and nothing is shown before it is
\* announced or after it was withdrawn.
OnePrompt ==
  /\ \A g \in Gens : /\ g > gen => prompt[g] = Fresh
                     /\ g < gen \/ ~Asking => g > gen \/ prompt[g].done
  /\ ~LoginAt("sms") => gen # 0
  /\ Asking => ~prompt[gen].done
  /\ shown # 0 => LoginAt("wait") \/ LoginAt("exit") \/ LoginAt("withdraw")

\* A prompt that is resolved has one answer on its way: with a client, in the
\* channel, or taken by the login.
Delivering(c) == At(c, "won") \/ At(c, "tell")

\* A client delivers to the prompt that is being asked, which has no answer yet.
OneAnswer ==
  /\ \A c \in Clients : Delivering(c) =>
       /\ Asking /\ client[c].to = gen /\ login.got = Empty
       /\ prompt[gen].resolved /\ prompt[gen].result = Empty
       /\ prompt[gen].accepted = IF At(c, "won") THEN 1 ELSE 0
       /\ \A d \in Clients : Delivering(d) => d = c
       /\ At(c, "won") /\ c \in Pages => client[c].gen = gen
  /\ \A g \in Gens : prompt[g].result # Empty =>
       Asking /\ g = gen /\ login.got = Empty
  /\ login.got # Empty => gen # 0 /\ prompt[gen].resolved /\ ~LoginAt("sms")

\* What an answer is tells whether a code was accepted.
Faithful(v, g) ==
  v # Empty =>
    /\ v.kind = IF prompt[g].accepted = 1 THEN "code" ELSE "expired"
    /\ v.kind = "code" /\ v.by # Terminal => v.for = g

Answers ==
  /\ \A g \in Gens : /\ Faithful(prompt[g].result, g)
                     /\ prompt[g].result # Empty \/ prompt[g].accepted = 1
                          => prompt[g].resolved
  /\ gen # 0 => Faithful(login.got, gen)
  /\ gen # 0 /\ ~Asking /\ ~LoginAt("sms") /\ prompt[gen].accepted = 1 =>
       login.got # Empty

\* A resend holds the gate of its prompt; the terminal never resends.
GateHeld ==
  \A c \in Clients :
    /\ c = Terminal => At(c, "idle") \/ At(c, "won")
    /\ client[c].pc \in {"won", "gate", "again", "net", "tell", "told"} =>
         client[c].to # 0
    /\ client[c].pc \in {"again", "net", "tell", "told"} =>
         prompt[client[c].to].gate = c

\* Once the login is past the gate no resend of its prompt is under way.
GatePassed ==
  /\ LoginAt("decide") \/ LoginAt("check") =>
       \A c \in Clients : ~(At(c, "net") /\ client[c].to = gen)
  /\ LoginAt("check") => gen # 0 /\ ~prompt[gen].expired /\ login.got.kind = "code"

BrokerInv ==
  Types /\ OnePrompt /\ OneAnswer /\ Answers /\ GateHeld /\ GatePassed


-----------------------------------------------------------------------------

\* What travels as an answer, and what a fresh prompt is.
LEMMA AnswerFacts ==
  /\ Empty \in Values /\ Expired \in Values
  /\ Expired # Empty /\ Expired.kind = "expired" /\ Empty.kind = "empty"
  /\ \A c \in Clients, g \in Nat :
       /\ Code(c, g) \in Values /\ Code(c, g) # Empty
       /\ Code(c, g).kind = "code" /\ Code(c, g).by = c /\ Code(c, g).for = g
  /\ Fresh \in Prompts /\ Fresh.result = Empty /\ ~Fresh.resolved
  /\ ~Fresh.done /\ Fresh.accepted = 0
  /\ Login \in Logins /\ Login.pc = "sms" /\ Login.got = Empty
  /\ Idle \in States /\ Idle.pc = "idle" /\ Idle.gen = 0 /\ Idle.to = 0
BY DEF Empty, Expired, Code, Values, Fresh, Prompts, Clients, Login, Logins, Idle, States

\* A prompt keeps its type whichever of its fields changes.
LEMMA PromptUpdates ==
  ASSUME prompt \in [Gens -> Prompts], NEW g \in Gens
  PROVE  /\ \A v \in Values : [prompt EXCEPT ![g].result = v] \in [Gens -> Prompts]
         /\ \A c \in Clients : [prompt EXCEPT ![g].gate = c] \in [Gens -> Prompts]
         /\ [prompt EXCEPT ![g].done = TRUE] \in [Gens -> Prompts]
         /\ [prompt EXCEPT ![g].done = TRUE, ![g].result = Empty] \in [Gens -> Prompts]
         /\ ~prompt[g].resolved /\ prompt[g].accepted = 0 =>
              [prompt EXCEPT ![g].resolved = TRUE, ![g].accepted = @ + 1] \in [Gens -> Prompts]
         /\ \A b \in BOOLEAN :
              [prompt EXCEPT ![g].expired = TRUE, ![g].resolved = b] \in [Gens -> Prompts]
<1>1. prompt[g] \in Prompts
  OBVIOUS
<1>2. \A P \in Prompts : [prompt EXCEPT ![g] = P] \in [Gens -> Prompts]
  OBVIOUS
<1>3. /\ \A v \in Values : [prompt[g] EXCEPT !.result = v] \in Prompts
      /\ \A c \in Clients : [prompt[g] EXCEPT !.gate = c] \in Prompts
      /\ [prompt[g] EXCEPT !.done = TRUE] \in Prompts
      /\ [prompt[g] EXCEPT !.done = TRUE, !.result = Empty] \in Prompts
  BY <1>1, AnswerFacts DEF Prompts
<1>4. prompt[g].accepted = 0 =>
        [prompt[g] EXCEPT !.resolved = TRUE, !.accepted = @ + 1] \in Prompts
  <2>1. SUFFICES ASSUME prompt[g].accepted = 0
                 PROVE  [prompt[g] EXCEPT !.resolved = TRUE, !.accepted = @ + 1] \in Prompts
    OBVIOUS
  <2>2. prompt[g].accepted + 1 = 1
    BY <2>1
  <2>3. [prompt[g] EXCEPT !.resolved = TRUE, !.accepted = 1] \in Prompts
    BY <1>1 DEF Prompts
  <2> QED
    BY <2>2, <2>3
<1>5. \A b \in BOOLEAN : [prompt[g] EXCEPT !.expired = TRUE, !.resolved = b] \in Prompts
  BY <1>1 DEF Prompts
<1> QED
  BY <1>2, <1>3, <1>4, <1>5

\* So do the login and a client.
LEMMA LoginUpdates ==
  ASSUME login \in Logins
  PROVE  /\ \A l \in {"armed", "wait", "exit", "withdraw", "gate", "decide", "check",
                      "expired", "over"} :
              /\ [login EXCEPT !.pc = l] \in Logins
              /\ \A v \in Values : [login EXCEPT !.pc = l, !.got = v] \in Logins
         /\ [login EXCEPT !.gone = TRUE] \in Logins
BY DEF Logins

LEMMA ClientUpdates ==
  ASSUME client \in [Clients -> States], NEW c \in Clients, NEW g \in Nat
  PROVE  /\ [client EXCEPT ![c] = Idle] \in [Clients -> States]
         /\ \A l \in {"won", "seen", "gate", "again", "net", "tell", "told"} :
              /\ [client EXCEPT ![c].pc = l] \in [Clients -> States]
              /\ [client EXCEPT ![c].pc = l, ![c].gen = g] \in [Clients -> States]
              /\ [client EXCEPT ![c].pc = l, ![c].to = g] \in [Clients -> States]
<1>1. client[c] \in States
  OBVIOUS
<1>2. \A S \in States : [client EXCEPT ![c] = S] \in [Clients -> States]
  OBVIOUS
<1>3. \A l \in {"won", "seen", "gate", "again", "net", "tell", "told"} :
        /\ [client[c] EXCEPT !.pc = l] \in States
        /\ [client[c] EXCEPT !.pc = l, !.gen = g] \in States
        /\ [client[c] EXCEPT !.pc = l, !.to = g] \in States
  BY <1>1 DEF States
<1> QED
  BY <1>2, <1>3, AnswerFacts

\* Which prompts the login and the clients speak of.
LEMMA Bounds ==
  ASSUME BrokerInv
  PROVE  /\ gen \in Nat /\ (gen # 0 => gen \in Gens) /\ (~LoginAt("sms") => gen \in Gens)
         /\ \A c \in Clients :
              /\ client[c].gen \in 0..gen /\ client[c].to \in 0..gen
              /\ client[c].to # 0 => client[c].to \in Gens
              /\ client[c].pc \in {"won", "gate", "again", "net", "tell", "told"} =>
                   client[c].to \in Gens
         /\ \A g \in Gens : /\ prompt[g] \in Prompts /\ prompt[g].result \in Values
                            /\ prompt[g].gate \in Clients
                            /\ ~prompt[g].resolved =>
                                 prompt[g].accepted = 0 /\ prompt[g].result = Empty
         /\ \A g \in Nat : Open(g) => g = gen /\ gen \in Gens /\ Asking
<1> USE BrokerAssumption DEF BrokerInv, Types
<1>1. gen \in Nat /\ (gen # 0 => gen \in Gens) /\ (~LoginAt("sms") => gen \in Gens)
  BY DEF OnePrompt, Gens
<1>2. ASSUME NEW c \in Clients
      PROVE  /\ client[c].gen \in 0..gen /\ client[c].to \in 0..gen
             /\ client[c].to # 0 => client[c].to \in Gens
  <2>1. client[c] \in States
    OBVIOUS
  <2> QED
    BY <2>1 DEF States, Gens
<1>3. ASSUME NEW c \in Clients,
             client[c].pc \in {"won", "gate", "again", "net", "tell", "told"}
      PROVE  client[c].to \in Gens
  BY <1>2, <1>3 DEF GateHeld
<1>4. ASSUME NEW g \in Gens
      PROVE  /\ prompt[g] \in Prompts /\ prompt[g].result \in Values
             /\ prompt[g].gate \in Clients
             /\ ~prompt[g].resolved => prompt[g].accepted = 0 /\ prompt[g].result = Empty
  <2>1. prompt[g] \in Prompts
    OBVIOUS
  <2> QED
    BY <2>1 DEF Prompts, Answers
<1>5. ASSUME NEW g \in Nat, Open(g) PROVE g = gen /\ gen \in Gens /\ Asking
  BY <1>1, <1>5 DEF OnePrompt, Open
<1> QED
  BY <1>1, <1>2, <1>3, <1>4, <1>5

\* The broker starts in the invariant.
LEMMA BrokerInit == Init => BrokerInv
<1> SUFFICES ASSUME Init PROVE BrokerInv
  OBVIOUS
<1> USE BrokerAssumption, AnswerFacts DEF Init
<1>1. Types
  BY DEF Types, Clients, Gens
<1>2. OnePrompt /\ OneAnswer /\ Answers
  BY DEF OnePrompt, OneAnswer, Answers, Asking, Delivering, Faithful, At,
         LoginAt, Gens
<1>3. GateHeld /\ GatePassed
  BY DEF GateHeld, GatePassed, At, LoginAt
<1> QED
  BY <1>1, <1>2, <1>3 DEF BrokerInv

\* Every step of the login keeps the invariant.
LEMMA LoginSteps ==
  ASSUME BrokerInv,
         Arm \/ Announce \/ ContextEnds \/ Woken \/ GivenUp \/ Exit \/ Withdraw
         \/ PassGate \/ Decide \/ Checked \/ Restarts \/ NextLogin
  PROVE  BrokerInv'
<1> USE BrokerAssumption, AnswerFacts, Bounds DEF BrokerInv, Types, LoginAt, At
<1>1. CASE Arm
  <2>1. Types'
    <3>1. prompt' \in [Gens -> Prompts]
      BY <1>1, PromptUpdates DEF Arm, LoginGoes
    <3>2. login' \in Logins
      BY <1>1, LoginUpdates DEF Arm, LoginGoes
    <3> QED
      BY <1>1, <3>1, <3>2 DEF Arm, LoginGoes, States, OnePrompt
  <2>2. OnePrompt'
    BY <1>1 DEF Arm, LoginGoes, OnePrompt, Asking, Prompts, Logins, States,
       Clients, Gens
  <2>3. OneAnswer'
    BY <1>1 DEF Arm, LoginGoes, OnePrompt, OneAnswer, Asking, Delivering,
       Prompts, Logins, States, Clients, Gens
  <2>4. Answers'
    BY <1>1 DEF Arm, LoginGoes, OnePrompt, OneAnswer, Answers, Faithful, Asking,
       Delivering, Prompts, Logins, States, Clients, Gens
  <2>5. GateHeld'
    BY <1>1 DEF Arm, LoginGoes, GateHeld, Prompts, Logins, States, Clients, Gens
  <2>6. GatePassed'
    BY <1>1 DEF Arm, LoginGoes, GateHeld, GatePassed, Answers, Faithful,
       OnePrompt, Asking, Prompts, Logins, States, Clients, Gens
  <2> QED
    BY <2>1, <2>2, <2>3, <2>4, <2>5, <2>6
<1>2. CASE Announce
  <2>1. Types'
    BY <1>2, LoginUpdates DEF Announce, LoginGoes, OnePrompt
  <2>2. OnePrompt'
    BY <1>2 DEF Announce, LoginGoes, OnePrompt, Asking, Prompts, Logins, States,
       Clients, Gens
  <2>3. OneAnswer'
    BY <1>2 DEF Announce, LoginGoes, OnePrompt, OneAnswer, Asking, Delivering,
       Prompts, Logins, States, Clients, Gens
  <2>4. Answers'
    BY <1>2 DEF Announce, LoginGoes, OnePrompt, OneAnswer, Answers, Faithful,
       Asking, Delivering, Prompts, Logins, States, Clients, Gens
  <2>5. GateHeld'
    BY <1>2 DEF Announce, LoginGoes, GateHeld, Prompts, Logins, States, Clients,
       Gens
  <2>6. GatePassed'
    BY <1>2 DEF Announce, LoginGoes, GateHeld, GatePassed, Answers, Faithful,
       OnePrompt, Asking, Prompts, Logins, States, Clients, Gens
  <2> QED
    BY <2>1, <2>2, <2>3, <2>4, <2>5, <2>6
<1>3. CASE ContextEnds
  <2>1. Types'
    BY <1>3, LoginUpdates DEF ContextEnds, OnePrompt
  <2>2. OnePrompt'
    BY <1>3 DEF ContextEnds, OnePrompt, Asking, Prompts, Logins, States,
       Clients, Gens
  <2>3. OneAnswer'
    BY <1>3 DEF ContextEnds, OnePrompt, OneAnswer, Asking, Delivering, Prompts,
       Logins, States, Clients, Gens
  <2>4. Answers'
    BY <1>3 DEF ContextEnds, OnePrompt, OneAnswer, Answers, Faithful, Asking,
       Delivering, Prompts, Logins, States, Clients, Gens
  <2>5. GateHeld'
    BY <1>3 DEF ContextEnds, GateHeld, Prompts, Logins, States, Clients, Gens
  <2>6. GatePassed'
    BY <1>3 DEF ContextEnds, GateHeld, GatePassed, Answers, Faithful, OnePrompt,
       Asking, Prompts, Logins, States, Clients, Gens
  <2> QED
    BY <2>1, <2>2, <2>3, <2>4, <2>5, <2>6
<1>4. CASE Woken
  <2>1. Types'
    <3>1. prompt' \in [Gens -> Prompts]
      BY <1>4, PromptUpdates DEF Woken, Receives
    <3>2. login' \in Logins
      BY <1>4, LoginUpdates DEF Woken, Receives
    <3> QED
      BY <1>4, <3>1, <3>2 DEF Woken, Receives, States, OnePrompt
  <2>2. OnePrompt'
    BY <1>4 DEF Woken, Receives, OnePrompt, Asking, Prompts, Logins, States,
       Clients, Gens
  <2>3. OneAnswer'
    BY <1>4 DEF Woken, Receives, OnePrompt, OneAnswer, Asking, Delivering,
       Prompts, Logins, States, Clients, Gens
  <2>4. Answers'
    BY <1>4 DEF Woken, Receives, OnePrompt, OneAnswer, Answers, Faithful,
       Asking, Delivering, Prompts, Logins, States, Clients, Gens
  <2>5. GateHeld'
    BY <1>4 DEF Woken, Receives, GateHeld, Prompts, Logins, States, Clients,
       Gens
  <2>6. GatePassed'
    BY <1>4 DEF Woken, Receives, GateHeld, GatePassed, Answers, Faithful,
       OnePrompt, Asking, Prompts, Logins, States, Clients, Gens
  <2> QED
    BY <2>1, <2>2, <2>3, <2>4, <2>5, <2>6
<1>5. CASE GivenUp
  <2>1. Types'
    BY <1>5, LoginUpdates DEF GivenUp, LoginGoes, OnePrompt
  <2>2. OnePrompt'
    BY <1>5 DEF GivenUp, LoginGoes, OnePrompt, Asking, Prompts, Logins, States,
       Clients, Gens
  <2>3. OneAnswer'
    BY <1>5 DEF GivenUp, LoginGoes, OnePrompt, OneAnswer, Asking, Delivering,
       Prompts, Logins, States, Clients, Gens
  <2>4. Answers'
    BY <1>5 DEF GivenUp, LoginGoes, OnePrompt, OneAnswer, Answers, Faithful,
       Asking, Delivering, Prompts, Logins, States, Clients, Gens
  <2>5. GateHeld'
    BY <1>5 DEF GivenUp, LoginGoes, GateHeld, Prompts, Logins, States, Clients,
       Gens
  <2>6. GatePassed'
    BY <1>5 DEF GivenUp, LoginGoes, GateHeld, GatePassed, Answers, Faithful,
       OnePrompt, Asking, Prompts, Logins, States, Clients, Gens
  <2> QED
    BY <2>1, <2>2, <2>3, <2>4, <2>5, <2>6
<1>6. CASE Exit
  <2>0. gen \in Gens /\ prompt[gen].result \in Values
    BY <1>6 DEF Exit
  <2>1. CASE prompt[gen].resolved /\ login.got = Empty
    <3>0. /\ prompt' = [prompt EXCEPT ![gen].done = TRUE, ![gen].result = Empty]
          /\ login' = [login EXCEPT !.pc = "withdraw", !.got = prompt[gen].result]
          /\ prompt[gen].result # Empty /\ pending' = 0 /\ login.pc = "exit"
          /\ UNCHANGED <<gen, shown, client>>
      BY <1>6, <2>1 DEF Exit, Receives, LoginGoes
    <3>1. Types'
      <4>1. prompt' \in [Gens -> Prompts]
        BY <2>0, <2>1, <3>0, PromptUpdates
      <4>2. login' \in Logins
        BY <2>0, <2>1, <3>0, LoginUpdates
      <4> QED
        BY <2>0, <2>1, <3>0, <4>1, <4>2 DEF States, OnePrompt
    <3>2. OnePrompt'
      BY <2>0, <2>1, <3>0 DEF OnePrompt, Asking, Prompts, Logins, States,
         Clients, Gens
    <3>3. OneAnswer'
      BY <2>0, <2>1, <3>0 DEF OnePrompt, OneAnswer, Asking, Delivering,
         Prompts, Logins, States, Clients, Gens
    <3>4. Answers'
      BY <2>0, <2>1, <3>0 DEF OnePrompt, OneAnswer, Answers, Faithful,
         Asking, Delivering, Prompts, Logins, States, Clients, Gens
    <3>5. GateHeld'
      BY <2>0, <2>1, <3>0 DEF GateHeld, Prompts, Logins, States, Clients,
         Gens
    <3>6. GatePassed'
      BY <2>0, <2>1, <3>0 DEF GateHeld, GatePassed, Answers, Faithful,
         OnePrompt, Asking, Prompts, Logins, States, Clients, Gens
    <3> QED
      BY <3>1, <3>2, <3>3, <3>4, <3>5, <3>6
  <2>2. CASE ~(prompt[gen].resolved /\ login.got = Empty)
    <3>0. /\ prompt' = [prompt EXCEPT ![gen].done = TRUE]
          /\ login' = [login EXCEPT !.pc = "withdraw"]
          /\ pending' = 0 /\ login.pc = "exit" /\ UNCHANGED <<gen, shown, client>>
      BY <1>6, <2>2 DEF Exit, Receives, LoginGoes
    <3>1. Types'
      <4>1. prompt' \in [Gens -> Prompts]
        BY <2>0, <2>2, <3>0, PromptUpdates
      <4>2. login' \in Logins
        BY <2>0, <2>2, <3>0, LoginUpdates
      <4> QED
        BY <2>0, <2>2, <3>0, <4>1, <4>2 DEF States, OnePrompt
    <3>2. OnePrompt'
      BY <2>0, <2>2, <3>0 DEF OnePrompt, Asking, Prompts, Logins, States,
         Clients, Gens
    <3>3. OneAnswer'
      BY <2>0, <2>2, <3>0 DEF OnePrompt, OneAnswer, Asking, Delivering,
         Prompts, Logins, States, Clients, Gens
    <3>4. Answers'
      BY <2>0, <2>2, <3>0 DEF OnePrompt, OneAnswer, Answers, Faithful,
         Asking, Delivering, Prompts, Logins, States, Clients, Gens
    <3>5. GateHeld'
      BY <2>0, <2>2, <3>0 DEF GateHeld, Prompts, Logins, States, Clients,
         Gens
    <3>6. GatePassed'
      BY <2>0, <2>2, <3>0 DEF GateHeld, GatePassed, Answers, Faithful,
         OnePrompt, Asking, Prompts, Logins, States, Clients, Gens
    <3> QED
      BY <3>1, <3>2, <3>3, <3>4, <3>5, <3>6
  <2> QED
    BY <2>1, <2>2
<1>7. CASE Withdraw
  <2>1. Types'
    BY <1>7, LoginUpdates DEF Withdraw, LoginGoes, OnePrompt
  <2>2. OnePrompt'
    BY <1>7 DEF Withdraw, LoginGoes, OnePrompt, Asking, Prompts, Logins, States,
       Clients, Gens
  <2>3. OneAnswer'
    BY <1>7 DEF Withdraw, LoginGoes, OnePrompt, OneAnswer, Asking, Delivering,
       Prompts, Logins, States, Clients, Gens
  <2>4. Answers'
    BY <1>7 DEF Withdraw, LoginGoes, OnePrompt, OneAnswer, Answers, Faithful,
       Asking, Delivering, Prompts, Logins, States, Clients, Gens
  <2>5. GateHeld'
    BY <1>7 DEF Withdraw, LoginGoes, GateHeld, Prompts, Logins, States, Clients,
       Gens
  <2>6. GatePassed'
    BY <1>7 DEF Withdraw, LoginGoes, GateHeld, GatePassed, Answers, Faithful,
       OnePrompt, Asking, Prompts, Logins, States, Clients, Gens
  <2> QED
    BY <2>1, <2>2, <2>3, <2>4, <2>5, <2>6
<1>8. CASE PassGate
  <2>1. Types'
    BY <1>8, LoginUpdates DEF PassGate, Free, LoginGoes, OnePrompt
  <2>2. OnePrompt'
    BY <1>8 DEF PassGate, Free, LoginGoes, OnePrompt, Asking, Prompts, Logins,
       States, Clients, Gens
  <2>3. OneAnswer'
    BY <1>8 DEF PassGate, Free, LoginGoes, OnePrompt, OneAnswer, Asking,
       Delivering, Prompts, Logins, States, Clients, Gens
  <2>4. Answers'
    BY <1>8 DEF PassGate, Free, LoginGoes, OnePrompt, OneAnswer, Answers,
       Faithful, Asking, Delivering, Prompts, Logins, States, Clients, Gens
  <2>5. GateHeld'
    BY <1>8 DEF PassGate, Free, LoginGoes, GateHeld, Prompts, Logins, States,
       Clients, Gens
  <2>6. GatePassed'
    BY <1>8 DEF PassGate, Free, LoginGoes, GateHeld, GatePassed, Answers,
       Faithful, OnePrompt, Asking, Prompts, Logins, States, Clients, Gens
  <2> QED
    BY <2>1, <2>2, <2>3, <2>4, <2>5, <2>6
<1>9. CASE Decide
  <2>1. Types'
    BY <1>9, LoginUpdates DEF Decide, Outcome, LoginGoes, OnePrompt
  <2>2. OnePrompt'
    BY <1>9 DEF Decide, Outcome, LoginGoes, OnePrompt, Asking, Prompts, Logins,
       States, Clients, Gens
  <2>3. OneAnswer'
    BY <1>9 DEF Decide, Outcome, LoginGoes, OnePrompt, OneAnswer, Asking,
       Delivering, Prompts, Logins, States, Clients, Gens
  <2>4. Answers'
    BY <1>9 DEF Decide, Outcome, LoginGoes, OnePrompt, OneAnswer, Answers,
       Faithful, Asking, Delivering, Prompts, Logins, States, Clients, Gens
  <2>5. GateHeld'
    BY <1>9 DEF Decide, Outcome, LoginGoes, GateHeld, Prompts, Logins, States,
       Clients, Gens
  <2>6. GatePassed'
    BY <1>9 DEF Decide, Outcome, LoginGoes, GateHeld, GatePassed, Answers,
       Faithful, OnePrompt, Asking, Prompts, Logins, States, Clients, Gens
  <2> QED
    BY <2>1, <2>2, <2>3, <2>4, <2>5, <2>6
<1>10. CASE Checked
  <2>1. Types'
    <3>1. prompt' \in [Gens -> Prompts]
      BY <1>10, PromptUpdates DEF Checked, LoginGoes
    <3>2. login' \in Logins
      <4>1. PICK l \in {"over", "expired"} : login' = [login EXCEPT !.pc = l]
      BY <1>10 DEF Checked, LoginGoes
    <4> QED
      BY <4>1, LoginUpdates
    <3> QED
      BY <1>10, <3>1, <3>2 DEF Checked, LoginGoes, States, OnePrompt
  <2>2. OnePrompt'
    BY <1>10 DEF Checked, LoginGoes, OnePrompt, Asking, Prompts, Logins, States,
       Clients, Gens
  <2>3. OneAnswer'
    BY <1>10 DEF Checked, LoginGoes, OnePrompt, OneAnswer, Asking, Delivering,
       Prompts, Logins, States, Clients, Gens
  <2>4. Answers'
    BY <1>10 DEF Checked, LoginGoes, OnePrompt, OneAnswer, Answers, Faithful,
       Asking, Delivering, Prompts, Logins, States, Clients, Gens
  <2>5. GateHeld'
    BY <1>10 DEF Checked, LoginGoes, GateHeld, Prompts, Logins, States, Clients,
       Gens
  <2>6. GatePassed'
    BY <1>10 DEF Checked, LoginGoes, GateHeld, GatePassed, Answers, Faithful,
       OnePrompt, Asking, Prompts, Logins, States, Clients, Gens
  <2> QED
    BY <2>1, <2>2, <2>3, <2>4, <2>5, <2>6
<1>11. CASE Restarts
  <2>1. Types'
    BY <1>11, LoginUpdates DEF Restarts, LoginGoes, OnePrompt
  <2>2. OnePrompt'
    BY <1>11 DEF Restarts, LoginGoes, OnePrompt, Asking, Prompts, Logins,
       States, Clients, Gens
  <2>3. OneAnswer'
    BY <1>11 DEF Restarts, LoginGoes, OnePrompt, OneAnswer, Asking, Delivering,
       Prompts, Logins, States, Clients, Gens
  <2>4. Answers'
    BY <1>11 DEF Restarts, LoginGoes, OnePrompt, OneAnswer, Answers, Faithful,
       Asking, Delivering, Prompts, Logins, States, Clients, Gens
  <2>5. GateHeld'
    BY <1>11 DEF Restarts, LoginGoes, GateHeld, Prompts, Logins, States,
       Clients, Gens
  <2>6. GatePassed'
    BY <1>11 DEF Restarts, LoginGoes, GateHeld, GatePassed, Answers, Faithful,
       OnePrompt, Asking, Prompts, Logins, States, Clients, Gens
  <2> QED
    BY <2>1, <2>2, <2>3, <2>4, <2>5, <2>6
<1>12. CASE NextLogin
  <2>1. Types'
    BY <1>12, LoginUpdates DEF NextLogin, OnePrompt
  <2>2. OnePrompt'
    BY <1>12 DEF NextLogin, OnePrompt, Asking, Prompts, Logins, States, Clients,
       Gens
  <2>3. OneAnswer'
    BY <1>12 DEF NextLogin, OnePrompt, OneAnswer, Asking, Delivering, Prompts,
       Logins, States, Clients, Gens
  <2>4. Answers'
    BY <1>12 DEF NextLogin, OnePrompt, OneAnswer, Answers, Faithful, Asking,
       Delivering, Prompts, Logins, States, Clients, Gens
  <2>5. GateHeld'
    BY <1>12 DEF NextLogin, GateHeld, Prompts, Logins, States, Clients, Gens
  <2>6. GatePassed'
    BY <1>12 DEF NextLogin, GateHeld, GatePassed, Answers, Faithful, OnePrompt,
       Asking, Prompts, Logins, States, Clients, Gens
  <2> QED
    BY <2>1, <2>2, <2>3, <2>4, <2>5, <2>6
<1> QED
  BY <1>1, <1>2, <1>3, <1>4, <1>5, <1>6, <1>7, <1>8, <1>9, <1>10, <1>11, <1>12

\* A step that opens, answers and accepts nothing keeps what is said of the
\* answers, if the clients that deliver are the ones that did.
LEMMA AnswersKept ==
  ASSUME BrokerInv, UNCHANGED <<gen, login>>,
         \A g \in Gens : /\ prompt'[g].result = prompt[g].result
                         /\ prompt'[g].resolved = prompt[g].resolved
                         /\ prompt'[g].accepted = prompt[g].accepted,
         \A d \in Clients : Delivering(d)' => client'[d] = client[d]
  PROVE  OneAnswer' /\ Answers'
<1> USE DEF LoginAt, At, Asking
<1>1. gen # 0 => gen \in Gens
  BY BrokerAssumption DEF BrokerInv, Types, Gens
<1>2. \A d \in Clients : Delivering(d)' => Delivering(d) /\ gen # 0
  BY DEF Delivering, BrokerInv, OneAnswer, GateHeld
<1>3. OneAnswer'
  <2>1. \A d \in Clients : Delivering(d)' =>
          /\ Asking' /\ client'[d].to = gen' /\ login'.got = Empty
          /\ prompt'[gen'].resolved /\ prompt'[gen'].result = Empty
          /\ prompt'[gen'].accepted = IF At(d, "won")' THEN 1 ELSE 0
          /\ \A e \in Clients : Delivering(e)' => e = d
          /\ At(d, "won")' /\ d \in Pages => client'[d].gen = gen'
    BY <1>1, <1>2 DEF BrokerInv, OneAnswer
  <2>2. \A g \in Gens : prompt'[g].result # Empty =>
          Asking' /\ g = gen' /\ login'.got = Empty
    BY DEF BrokerInv, OneAnswer
  <2>3. login'.got # Empty =>
          gen' # 0 /\ prompt'[gen'].resolved /\ ~LoginAt("sms")'
    BY <1>1 DEF BrokerInv, OneAnswer
  <2> QED
    BY <2>1, <2>2, <2>3 DEF OneAnswer
<1>4. Answers'
  BY <1>1 DEF BrokerInv, Answers, Faithful
<1> QED
  BY <1>3, <1>4

\* The client that won puts its answer into the empty channel, and is done.
LEMMA AnswerSent ==
  ASSUME BrokerInv, NEW c \in Clients, NEW v \in Values, Delivering(c),
         Sends(c, v), Faithful(v, gen), v # Empty,
         \A d \in Clients \ {c} : client'[d] = client[d], ~Delivering(c)'
  PROVE  OneAnswer' /\ Answers'
<1> USE DEF LoginAt, At, Asking
<1>1. /\ gen \in Gens /\ client[c].to = gen /\ UNCHANGED <<gen, login>>
      /\ prompt[gen].resolved /\ login.got = Empty /\ Asking
      /\ \A d \in Clients : ~Delivering(d)'
  <2>1. client[c].to = gen /\ gen # 0
    BY DEF Delivering, BrokerInv, OneAnswer, GateHeld
  <2>2. gen \in Gens
    BY <2>1, BrokerAssumption DEF BrokerInv, Types, Gens
  <2>3. \A d \in Clients : ~Delivering(d)'
    BY DEF Delivering, BrokerInv, OneAnswer
  <2> QED
    BY <2>1, <2>2, <2>3 DEF Sends, BrokerInv, OneAnswer
<1>2. /\ prompt'[gen].result = v /\ prompt'[gen].resolved = prompt[gen].resolved
      /\ prompt'[gen].accepted = prompt[gen].accepted
      /\ \A g \in Gens \ {gen} : prompt'[g] = prompt[g]
  BY <1>1 DEF Sends, BrokerInv, Types, Prompts
<1>3. OneAnswer'
  BY <1>1, <1>2 DEF BrokerInv, OneAnswer
<1>4. Answers'
  <2>1. \A g \in Gens : /\ Faithful(prompt[g].result, g)'
                        /\ prompt'[g].result # Empty \/ prompt'[g].accepted = 1
                             => prompt'[g].resolved
    <3> SUFFICES ASSUME NEW g \in Gens
                 PROVE  /\ Faithful(prompt[g].result, g)'
                        /\ prompt'[g].result # Empty \/ prompt'[g].accepted = 1
                             => prompt'[g].resolved
      OBVIOUS
    <3>1. CASE g = gen
      BY <1>1, <1>2, <3>1 DEF Faithful
    <3>2. CASE g # gen
      BY <1>2, <3>2 DEF BrokerInv, Answers, Faithful
    <3> QED
      BY <3>1, <3>2
  <2>2. gen' # 0 => Faithful(login.got, gen)'
    BY <1>1 DEF Faithful
  <2> QED
    BY <1>1, <2>1, <2>2 DEF Answers
<1> QED
  BY <1>3, <1>4

\* The service says that a prompt has expired whose answer is already there.
LEMMA ExpiresLate ==
  ASSUME BrokerInv, NEW c \in Clients, ResendExpired(c), ~Open(client[c].to)
  PROVE  BrokerInv'
<1> DEFINE k == client[c].to
<1>1. /\ k \in Gens /\ k <= gen /\ gen \in Nat /\ client[c].pc = "net"
      /\ prompt \in [Gens -> Prompts] /\ client \in [Clients -> States]
      /\ prompt[k].gate = c /\ c # Terminal /\ prompt[k].resolved \in BOOLEAN
      /\ UNCHANGED <<gen, pending, login, shown>>
  <2>1. /\ client[c].pc = "net" /\ client[c] \in States /\ k <= gen
        /\ gen \in 0..MaxPrompts
        /\ prompt \in [Gens -> Prompts] /\ client \in [Clients -> States]
        /\ UNCHANGED <<gen, pending, login, shown>>
    BY DEF ResendExpired, At, BrokerInv, Types
  <2>2. k # 0 /\ prompt[k].gate = c /\ c # Terminal
    BY <2>1 DEF BrokerInv, GateHeld, At
  <2>3. k \in Gens
    BY <2>1, <2>2, BrokerAssumption DEF States, Gens
  <2>4. prompt[k].resolved \in BOOLEAN
    BY <2>1, <2>3 DEF Prompts
  <2> QED
    BY <2>1, <2>2, <2>3, <2>4, BrokerAssumption
<1>2. /\ prompt' = [prompt EXCEPT ![k] =
                       [prompt[k] EXCEPT !.expired = TRUE,
                                         !.resolved = prompt[k].resolved]]
      /\ client' = [client EXCEPT ![c] = [client[c] EXCEPT !.pc = "told"]]
  BY <1>1 DEF ResendExpired, Goes
<1>4. /\ prompt' \in [Gens -> Prompts]
      /\ \A g \in Gens : /\ prompt'[g].result = prompt[g].result
                         /\ prompt'[g].resolved = prompt[g].resolved
                         /\ prompt'[g].accepted = prompt[g].accepted
                         /\ prompt'[g].gate = prompt[g].gate
                         /\ prompt'[g].done = prompt[g].done
                         /\ g # k => prompt'[g] = prompt[g]
  <2> DEFINE Q == [prompt[k] EXCEPT !.expired = TRUE,
                                    !.resolved = prompt[k].resolved]
  <2>1. /\ Q \in Prompts /\ Q.result = prompt[k].result
        /\ Q.resolved = prompt[k].resolved /\ Q.done = prompt[k].done
        /\ Q.accepted = prompt[k].accepted /\ Q.gate = prompt[k].gate
    <3>1. prompt[k] \in Prompts
      BY <1>1
    <3> QED
      BY <1>1, <3>1 DEF Prompts
  <2>2. prompt' = [prompt EXCEPT ![k] = Q]
    BY <1>2
  <2> HIDE DEF Q, k
  <2> QED
    BY <1>1, <2>1, <2>2
<1>5. /\ client' \in [Clients -> States]
      /\ client'[c].pc = "told" /\ client'[c].to = k
      /\ client'[c].gen = client[c].gen
      /\ \A d \in Clients \ {c} : client'[d] = client[d]
  <2>1. \A S \in States :
          LET R == [S EXCEPT !.pc = "told"]
          IN  R \in States /\ R.pc = "told" /\ R.to = S.to /\ R.gen = S.gen
    BY DEF States
  <2> QED
    BY <1>1, <1>2, <2>1
<1> HIDE DEF k
<1>6. Types'
  <2>1. \A d \in Clients : client'[d].gen <= gen /\ client'[d].to <= gen
    BY <1>1, <1>5 DEF BrokerInv, Types, k
  <2> QED
    BY <1>1, <1>4, <1>5, <2>1 DEF BrokerInv, Types
<1>7. OnePrompt'
  <2>1. \A g \in Gens : g > gen => prompt'[g] = Fresh
    <3>1. \A g \in Gens : g > gen => g # k
      BY <1>1 DEF Gens
    <3> QED
      BY <1>4, <3>1 DEF BrokerInv, OnePrompt
  <2>2. gen # 0 => gen \in Gens
    BY BrokerAssumption DEF BrokerInv, Types, Gens
  <2>3. Asking' = Asking /\ (Asking => gen # 0)
    BY <1>1 DEF BrokerInv, OnePrompt, Asking, LoginAt
  <2>4. \A g \in Gens :
          g < gen \/ ~Asking => g > gen \/ prompt'[g].done
    BY <1>4 DEF BrokerInv, OnePrompt
  <2>5. Asking => ~prompt'[gen].done
    BY <1>4, <2>2, <2>3 DEF BrokerInv, OnePrompt
  <2>6. /\ ~LoginAt("sms")' => gen' # 0
        /\ shown' # 0 =>
             LoginAt("wait")' \/ LoginAt("exit")' \/ LoginAt("withdraw")'
    BY <1>1 DEF BrokerInv, OnePrompt, LoginAt
  <2> QED
    BY <1>1, <2>1, <2>3, <2>4, <2>5, <2>6 DEF OnePrompt
<1>8. OneAnswer' /\ Answers'
  <2>1. \A d \in Clients : Delivering(d)' => client'[d] = client[d]
    BY <1>5 DEF Delivering, At
  <2> QED
    BY <1>1, <1>4, <2>1, AnswersKept
<1>9. GateHeld'
  <2>1. \A d \in Clients \ {c} :
          client[d].pc \in {"again", "net", "tell", "told"} => client[d].to \in Gens
    <3> SUFFICES ASSUME NEW d \in Clients,
                        client[d].pc \in {"again", "net", "tell", "told"}
                 PROVE  client[d].to \in Gens
      OBVIOUS
    <3>1. client[d].to # 0 /\ client[d].to <= gen /\ gen \in 0..MaxPrompts
      BY DEF BrokerInv, GateHeld, Types
    <3>2. client[d] \in States
      BY <1>1
    <3> QED
      BY <3>1, <3>2, BrokerAssumption DEF States, Gens
  <2> QED
    BY <1>1, <1>4, <1>5, <2>1 DEF BrokerInv, GateHeld, At, Gens
<1>10. GatePassed'
  <2>1. LoginAt("check") => k # gen
    BY <1>1 DEF BrokerInv, GatePassed, At, k
  <2>2. gen # 0 => gen \in Gens
    BY BrokerAssumption DEF BrokerInv, Types, Gens
  <2>3. \A d \in Clients : At(d, "net")' => client'[d] = client[d]
    BY <1>5 DEF At
  <2> QED
    BY <1>1, <1>4, <2>1, <2>2, <2>3 DEF BrokerInv, GatePassed, LoginAt, At
<1> QED
  BY <1>6, <1>7, <1>8, <1>9, <1>10 DEF BrokerInv

\* A resend that gives the gate back, from wherever it may.
LEMMA ResendReturns ==
  ASSUME BrokerInv, NEW c \in Clients, client[c].pc \in {"again", "net", "told"},
         ResendEnds(c)
  PROVE  BrokerInv'
<1> USE BrokerAssumption, AnswerFacts, Bounds DEF BrokerInv, Types, LoginAt, At
<1>0. /\ client[c].to \in Gens /\ prompt[client[c].to] \in Prompts
      /\ Code(c, client[c].gen) \in Values /\ Terminal \in Clients
  BY DEF Clients
<1>1. Types'
  <2>1. prompt' \in [Gens -> Prompts]
    BY <1>0, PromptUpdates DEF ResendEnds, Rests
  <2>2. client' \in [Clients -> States]
    BY <1>0, ClientUpdates DEF ResendEnds, Rests
  <2> QED
    BY <1>0, <2>1, <2>2 DEF ResendEnds, Rests, States, OnePrompt
<1>2. OnePrompt'
  BY <1>0 DEF ResendEnds, Rests, OnePrompt, Asking, Prompts, Logins, States, Clients,
     Gens
<1>3. OneAnswer' /\ Answers'
  <2>1. \A g \in Gens : /\ prompt'[g].result = prompt[g].result
                        /\ prompt'[g].resolved = prompt[g].resolved
                        /\ prompt'[g].accepted = prompt[g].accepted
    BY <1>0 DEF ResendEnds, Prompts
  <2>2. \A d \in Clients : Delivering(d)' => client'[d] = client[d]
    BY DEF ResendEnds, Rests, Delivering
  <2> QED
    BY <2>1, <2>2, AnswersKept DEF ResendEnds
<1>5. GateHeld'
  BY <1>0 DEF ResendEnds, Rests, GateHeld, Prompts, Logins, States, Clients, Gens
<1>6. GatePassed'
  BY <1>0 DEF ResendEnds, Rests, GateHeld, GatePassed, Answers, Faithful, OnePrompt,
     Asking, Prompts, Logins, States, Clients, Gens
<1> QED
  BY <1>1, <1>2, <1>3, <1>5, <1>6

\* So does every step of a page or of the terminal.
LEMMA ClientSteps ==
  ASSUME BrokerInv, NEW c \in Clients,
         Sees(c) \/ Claim(c) \/ Refused(c) \/ Delivers(c) \/ ResendBegins(c) \/
         ResendLeaves(c) \/ ResendGated(c) \/ ResendValidates(c) \/
         ResendAnswered(c) \/ ResendExpired(c) \/ ResendTells(c) \/
         ResendTold(c)
  PROVE  BrokerInv'
<1> USE BrokerAssumption, AnswerFacts, Bounds DEF BrokerInv, Types, LoginAt, At
<1>1. CASE Sees(c)
  <2>1. Types'
    <3>1. prompt' \in [Gens -> Prompts]
      BY <1>1, PromptUpdates DEF Sees
    <3>2. client' \in [Clients -> States]
      BY <1>1, ClientUpdates DEF Sees
    <3> QED
      BY <1>1, <3>1, <3>2 DEF Sees, States, OnePrompt
  <2>2. OnePrompt'
    BY <1>1 DEF Sees, OnePrompt, Asking, Prompts, Logins, States, Clients, Gens
  <2>3. OneAnswer'
    BY <1>1 DEF Sees, OnePrompt, OneAnswer, Asking, Delivering, Prompts, Logins,
       States, Clients, Gens
  <2>4. Answers'
    BY <1>1 DEF Sees, OnePrompt, OneAnswer, Answers, Faithful, Asking,
       Delivering, Prompts, Logins, States, Clients, Gens
  <2>5. GateHeld'
    BY <1>1 DEF Sees, GateHeld, Prompts, Logins, States, Clients, Gens
  <2>6. GatePassed'
    BY <1>1 DEF Sees, GateHeld, GatePassed, Answers, Faithful, OnePrompt,
       Asking, Prompts, Logins, States, Clients, Gens
  <2> QED
    BY <2>1, <2>2, <2>3, <2>4, <2>5, <2>6
<1>2. CASE Claim(c)
  <2>0. pending = gen /\ gen \in Gens /\ Asking /\ ~prompt[gen].resolved
    BY <1>2 DEF Claim, MayClaim, Open
  <2>1. Types'
    <3>1. prompt' \in [Gens -> Prompts]
      BY <1>2, <2>0, PromptUpdates DEF Claim, MayClaim
    <3>2. client' \in [Clients -> States]
      BY <1>2, <2>0, ClientUpdates DEF Claim, MayClaim
    <3> QED
      BY <1>2, <2>0, <3>1, <3>2 DEF Claim, MayClaim, States, OnePrompt
  <2>2. OnePrompt'
    BY <1>2, <2>0 DEF Claim, MayClaim, OnePrompt, Asking, Prompts, Logins,
       States, Clients, Gens
  <2>3. OneAnswer'
    BY <1>2, <2>0 DEF Claim, MayClaim, OnePrompt, OneAnswer, Asking, Delivering,
       Prompts, Logins, States, Clients, Gens
  <2>4. Answers'
    BY <1>2, <2>0 DEF Claim, MayClaim, OnePrompt, OneAnswer, Answers, Faithful,
       Asking, Delivering, Prompts, Logins, States, Clients, Gens
  <2>5. GateHeld'
    BY <1>2, <2>0 DEF Claim, MayClaim, GateHeld, Prompts, Logins, States,
       Clients, Gens
  <2>6. GatePassed'
    BY <1>2, <2>0 DEF Claim, MayClaim, GateHeld, GatePassed, Answers, Faithful,
       OnePrompt, Asking, Prompts, Logins, States, Clients, Gens
  <2> QED
    BY <2>1, <2>2, <2>3, <2>4, <2>5, <2>6
<1>3. CASE Refused(c)
  <2>1. Types'
    <3>1. prompt' \in [Gens -> Prompts]
      BY <1>3, PromptUpdates DEF Refused, Rests
    <3>2. client' \in [Clients -> States]
      BY <1>3, ClientUpdates DEF Refused, Rests
    <3> QED
      BY <1>3, <3>1, <3>2 DEF Refused, Rests, States, OnePrompt
  <2>2. OnePrompt'
    BY <1>3 DEF Refused, Rests, OnePrompt, Asking, Prompts, Logins, States,
       Clients, Gens
  <2>3. OneAnswer'
    BY <1>3 DEF Refused, Rests, OnePrompt, OneAnswer, Asking, Delivering,
       Prompts, Logins, States, Clients, Gens
  <2>4. Answers'
    BY <1>3 DEF Refused, Rests, OnePrompt, OneAnswer, Answers, Faithful, Asking,
       Delivering, Prompts, Logins, States, Clients, Gens
  <2>5. GateHeld'
    BY <1>3 DEF Refused, Rests, GateHeld, Prompts, Logins, States, Clients, Gens
  <2>6. GatePassed'
    BY <1>3 DEF Refused, Rests, GateHeld, GatePassed, Answers, Faithful,
       OnePrompt, Asking, Prompts, Logins, States, Clients, Gens
  <2> QED
    BY <2>1, <2>2, <2>3, <2>4, <2>5, <2>6
<1>4. CASE Delivers(c)
  <2>0. /\ client[c].to \in Gens /\ prompt[client[c].to] \in Prompts
        /\ Code(c, client[c].gen) \in Values /\ Terminal \in Clients
    BY <1>4 DEF Delivers, Clients
  <2>1. Types'
    <3>1. prompt' \in [Gens -> Prompts]
      BY <1>4, <2>0, PromptUpdates DEF Delivers, Sends, Rests
    <3>2. client' \in [Clients -> States]
      BY <1>4, <2>0, ClientUpdates DEF Delivers, Sends, Rests
    <3> QED
      BY <1>4, <2>0, <3>1, <3>2 DEF Delivers, Sends, Rests, States, OnePrompt
  <2>2. OnePrompt'
    BY <1>4, <2>0 DEF Delivers, Sends, Rests, OnePrompt, Asking, Prompts,
       Logins, States, Clients, Gens
  <2>3. OneAnswer' /\ Answers'
    <3>1. Delivering(c) /\ Faithful(Code(c, client[c].gen), gen)
      BY <1>4, <2>0 DEF Delivers, Delivering, OneAnswer, Faithful, Clients,
         States
    <3>2. /\ \A d \in Clients \ {c} : client'[d] = client[d]
          /\ ~Delivering(c)'
      BY <1>4 DEF Delivers, Rests, Delivering
    <3> QED
      BY <1>4, <2>0, <3>1, <3>2, AnswerSent DEF Delivers, States
  <2>5. GateHeld'
    BY <1>4, <2>0 DEF Delivers, Sends, Rests, GateHeld, Prompts, Logins, States,
       Clients, Gens
  <2>6. GatePassed'
    BY <1>4, <2>0 DEF Delivers, Sends, Rests, GateHeld, GatePassed, Answers,
       Faithful, OnePrompt, Asking, Prompts, Logins, States, Clients, Gens
  <2> QED
    BY <2>1, <2>2, <2>3, <2>5, <2>6
<1>5. CASE ResendBegins(c)
  <2>1. Types'
    <3>1. prompt' \in [Gens -> Prompts]
      BY <1>5, PromptUpdates DEF ResendBegins
    <3>2. client' \in [Clients -> States]
      <4>1. /\ pending \in Nat /\ client \in [Clients -> States]
            /\ client' = [client EXCEPT ![c].pc = "gate", ![c].to = pending]
        BY <1>5 DEF ResendBegins
      <4> HIDE DEF Types, TypeOK
      <4> QED
        BY <4>1, ClientUpdates
    <3> QED
      BY <1>5, <3>1, <3>2 DEF ResendBegins, States, OnePrompt
  <2>2. OnePrompt'
    BY <1>5 DEF ResendBegins, OnePrompt, Asking, Prompts, Logins, States,
       Clients, Gens
  <2>3. OneAnswer'
    BY <1>5 DEF ResendBegins, OnePrompt, OneAnswer, Asking, Delivering, Prompts,
       Logins, States, Clients, Gens
  <2>4. Answers'
    BY <1>5 DEF ResendBegins, OnePrompt, OneAnswer, Answers, Faithful, Asking,
       Delivering, Prompts, Logins, States, Clients, Gens
  <2>5. GateHeld'
    BY <1>5 DEF ResendBegins, GateHeld, Prompts, Logins, States, Clients, Gens
  <2>6. GatePassed'
    BY <1>5 DEF ResendBegins, GateHeld, GatePassed, Answers, Faithful,
       OnePrompt, Asking, Prompts, Logins, States, Clients, Gens
  <2> QED
    BY <2>1, <2>2, <2>3, <2>4, <2>5, <2>6
<1>6. CASE ResendLeaves(c)
  <2>1. Types'
    <3>1. prompt' \in [Gens -> Prompts]
      BY <1>6, PromptUpdates DEF ResendLeaves, Rests
    <3>2. client' \in [Clients -> States]
      BY <1>6, ClientUpdates DEF ResendLeaves, Rests
    <3> QED
      BY <1>6, <3>1, <3>2 DEF ResendLeaves, Rests, States, OnePrompt
  <2>2. OnePrompt'
    BY <1>6 DEF ResendLeaves, Rests, OnePrompt, Asking, Prompts, Logins, States,
       Clients, Gens
  <2>3. OneAnswer'
    <3>1. \A d \in Clients : d # c => client'[d] = client[d]
      BY <1>6 DEF ResendLeaves, Rests
    <3>2. \A d \in Clients : Delivering(d)' => d # c
      BY <1>6 DEF ResendLeaves, Rests, Delivering
    <3> QED
      BY <1>6, <3>1, <3>2 DEF ResendLeaves, OneAnswer, Asking, Delivering
  <2>4. Answers'
    BY <1>6 DEF ResendLeaves, Rests, OnePrompt, OneAnswer, Answers, Faithful,
       Asking, Delivering, Prompts, Logins, States, Clients, Gens
  <2>5. GateHeld'
    BY <1>6 DEF ResendLeaves, Rests, GateHeld, Prompts, Logins, States, Clients,
       Gens
  <2>6. GatePassed'
    BY <1>6 DEF ResendLeaves, Rests, GateHeld, GatePassed, Answers, Faithful,
       OnePrompt, Asking, Prompts, Logins, States, Clients, Gens
  <2> QED
    BY <2>1, <2>2, <2>3, <2>4, <2>5, <2>6
<1>7. CASE ResendGated(c)
  <2>0. /\ client[c].to \in Gens /\ prompt[client[c].to] \in Prompts
        /\ Code(c, client[c].gen) \in Values /\ Terminal \in Clients
    BY <1>7 DEF ResendGated, Clients
  <2>1. Types'
    <3>1. prompt' \in [Gens -> Prompts]
      BY <1>7, <2>0, PromptUpdates DEF ResendGated, Free, Goes
    <3>2. client' \in [Clients -> States]
      BY <1>7, <2>0, ClientUpdates DEF ResendGated, Free, Goes
    <3> QED
      BY <1>7, <2>0, <3>1, <3>2 DEF ResendGated, Free, Goes, States, OnePrompt
  <2>2. OnePrompt'
    BY <1>7, <2>0 DEF ResendGated, Free, Goes, OnePrompt, Asking, Prompts,
       Logins, States, Clients, Gens
  <2>3. OneAnswer' /\ Answers'
    <3>1. \A g \in Gens : /\ prompt'[g].result = prompt[g].result
                          /\ prompt'[g].resolved = prompt[g].resolved
                          /\ prompt'[g].accepted = prompt[g].accepted
      BY <1>7, <2>0 DEF ResendGated, Prompts
    <3>2. \A d \in Clients : Delivering(d)' => client'[d] = client[d]
      BY <1>7 DEF ResendGated, Goes, Delivering, States
    <3> QED
      BY <1>7, <3>1, <3>2, AnswersKept DEF ResendGated
  <2>5. GateHeld'
    BY <1>7, <2>0 DEF ResendGated, Free, Goes, GateHeld, Prompts, Logins,
       States, Clients, Gens
  <2>6. GatePassed'
    BY <1>7, <2>0 DEF ResendGated, Free, Goes, GateHeld, GatePassed, Answers,
       Faithful, OnePrompt, Asking, Prompts, Logins, States, Clients, Gens
  <2> QED
    BY <2>1, <2>2, <2>3, <2>5, <2>6
<1>8. CASE ResendValidates(c)
  <2>0. /\ client[c].to \in Gens /\ prompt[client[c].to] \in Prompts
        /\ Code(c, client[c].gen) \in Values /\ Terminal \in Clients
    BY <1>8 DEF ResendValidates, Clients
  <2>1. CASE Open(client[c].to)
    <3>0. /\ UNCHANGED <<gen, pending, prompt, login, shown>> /\ client[c].to = gen
          /\ client' = [client EXCEPT ![c].pc = "net"] /\ client[c].pc = "again" /\ Asking
      BY <1>8, <2>0, <2>1 DEF ResendValidates, Goes, Open
    <3>1. Types'
      <4>1. prompt' \in [Gens -> Prompts]
        BY <2>0, <3>0, PromptUpdates
      <4>2. client' \in [Clients -> States]
        BY <2>0, <3>0, ClientUpdates
      <4> QED
        BY <2>0, <3>0, <4>1, <4>2 DEF States, OnePrompt
    <3>2. OnePrompt'
      BY <2>0, <3>0 DEF OnePrompt, Asking, Prompts, Logins, States, Clients,
         Gens
    <3>3. OneAnswer'
      BY <2>0, <3>0 DEF OnePrompt, OneAnswer, Asking, Delivering, Prompts,
         Logins, States, Clients, Gens
    <3>4. Answers'
      BY <2>0, <3>0 DEF OnePrompt, OneAnswer, Answers, Faithful, Asking,
         Delivering, Prompts, Logins, States, Clients, Gens
    <3>5. GateHeld'
      BY <2>0, <3>0 DEF GateHeld, Prompts, Logins, States, Clients, Gens
    <3>6. GatePassed'
      BY <2>0, <3>0 DEF GateHeld, GatePassed, Answers, Faithful, OnePrompt,
         Asking, Prompts, Logins, States, Clients, Gens
    <3> QED
      BY <3>1, <3>2, <3>3, <3>4, <3>5, <3>6
  <2>2. CASE ~Open(client[c].to)
    BY <1>8, <2>2, ResendReturns DEF ResendValidates
  <2> QED
    BY <2>1, <2>2
<1>9. CASE ResendAnswered(c)
  BY <1>9, ResendReturns DEF ResendAnswered
<1>10. CASE ResendExpired(c)
  <2>0. /\ client[c].to \in Gens /\ prompt[client[c].to] \in Prompts
        /\ Code(c, client[c].gen) \in Values /\ Terminal \in Clients
    BY <1>10 DEF ResendExpired, Clients
  <2>1. CASE Open(client[c].to)
    <3>0. /\ prompt' = [prompt EXCEPT ![gen].expired = TRUE, ![gen].resolved = TRUE]
          /\ client' = [client EXCEPT ![c].pc = "tell"]
          /\ client[c].pc = "net" /\ client[c].to = gen /\ Asking /\ c # Terminal
          /\ ~prompt[gen].resolved /\ UNCHANGED <<gen, pending, login, shown>>
      BY <1>10, <2>0, <2>1 DEF ResendExpired, Goes, Open, GateHeld, Prompts
    <3>1. Types'
      <4>1. prompt' \in [Gens -> Prompts]
        BY <2>0, <2>1, <3>0, PromptUpdates
      <4>2. client' \in [Clients -> States]
        BY <2>0, <2>1, <3>0, ClientUpdates
      <4> QED
        BY <2>0, <2>1, <3>0, <4>1, <4>2 DEF States, OnePrompt
    <3>2. OnePrompt'
      BY <2>0, <2>1, <3>0 DEF OnePrompt, Asking, Prompts, Logins, States,
         Clients, Gens
    <3>3. OneAnswer'
      <4>1. \A d \in Clients : ~Delivering(d)
        BY <3>0 DEF OneAnswer
      <4>2. \A d \in Clients : Delivering(d)' => d = c
        BY <3>0, <4>1 DEF Delivering
      <4>3. prompt[gen].result = Empty /\ login.got = Empty /\ prompt[gen].accepted = 0
        BY <2>0, <3>0 DEF OneAnswer
      <4>4. \A g \in Gens : prompt'[g].result = prompt[g].result
        BY <3>0
      <4> QED
        BY <2>0, <3>0, <4>2, <4>3, <4>4 DEF OneAnswer, Asking, Delivering, Prompts, States,
           OnePrompt
    <3>4. Answers'
      BY <2>0, <2>1, <3>0 DEF OnePrompt, OneAnswer, Answers, Faithful,
         Asking, Delivering, Prompts, Logins, States, Clients, Gens
    <3>5. GateHeld'
      BY <2>0, <2>1, <3>0 DEF GateHeld, Prompts, Logins, States, Clients,
         Gens
    <3>6. GatePassed'
      BY <2>0, <2>1, <3>0 DEF GateHeld, GatePassed, Answers, Faithful,
         OnePrompt, Asking, Prompts, Logins, States, Clients, Gens
    <3> QED
      BY <3>1, <3>2, <3>3, <3>4, <3>5, <3>6
  <2>2. CASE ~Open(client[c].to)
    BY <1>10, <2>2, ExpiresLate
  <2> QED
    BY <2>1, <2>2
<1>11. CASE ResendTells(c)
  <2>0. /\ client[c].to \in Gens /\ prompt[client[c].to] \in Prompts
        /\ Code(c, client[c].gen) \in Values /\ Terminal \in Clients
    BY <1>11 DEF ResendTells, Clients
  <2>1. Types'
    <3>1. prompt' \in [Gens -> Prompts]
      BY <1>11, <2>0, PromptUpdates DEF ResendTells, Sends, Goes
    <3>2. client' \in [Clients -> States]
      BY <1>11, <2>0, ClientUpdates DEF ResendTells, Sends, Goes
    <3> QED
      BY <1>11, <2>0, <3>1, <3>2 DEF ResendTells, Sends, Goes, States, OnePrompt
  <2>2. OnePrompt'
    BY <1>11, <2>0 DEF ResendTells, Sends, Goes, OnePrompt, Asking, Prompts,
       Logins, States, Clients, Gens
  <2>3. OneAnswer' /\ Answers'
    <3>1. Delivering(c) /\ Faithful(Expired, gen)
      BY <1>11, <2>0 DEF ResendTells, Delivering, OneAnswer, Faithful
    <3>2. /\ \A d \in Clients \ {c} : client'[d] = client[d]
          /\ ~Delivering(c)'
      BY <1>11 DEF ResendTells, Goes, Delivering, States
    <3> QED
      BY <1>11, <3>1, <3>2, AnswerSent DEF ResendTells
  <2>5. GateHeld'
    BY <1>11, <2>0 DEF ResendTells, Sends, Goes, GateHeld, Prompts, Logins,
       States, Clients, Gens
  <2>6. GatePassed'
    <3>1. \A d \in Clients : At(d, "net")' => client'[d] = client[d]
      BY <1>11 DEF ResendTells, Goes, States
    <3>2. \A g \in Gens : prompt'[g].expired = prompt[g].expired
      BY <1>11, <2>0 DEF ResendTells, Sends, Prompts
    <3>3. gen # 0 => gen \in Gens
      BY DEF Gens
    <3> QED
      BY <1>11, <3>1, <3>2, <3>3 DEF ResendTells, Sends, GatePassed
  <2> QED
    BY <2>1, <2>2, <2>3, <2>5, <2>6
<1>12. CASE ResendTold(c)
  BY <1>12, ResendReturns DEF ResendTold
<1> QED
  BY <1>1, <1>2, <1>3, <1>4, <1>5, <1>6, <1>7, <1>8, <1>9, <1>10, <1>11, <1>12

\* Nothing happens.
LEMMA BrokerStutters == BrokerInv /\ UNCHANGED vars => BrokerInv'
BY DEF BrokerInv, Types, OnePrompt, OneAnswer, Answers, Faithful, GateHeld, GatePassed,
       Asking, Delivering, At, LoginAt, vars

\* The invariant is inductive.
LEMMA BrokerStep == BrokerInv /\ [Next]_vars => BrokerInv'
BY LoginSteps, ClientSteps, BrokerStutters DEF Next, LoginStep, ClientStep

\* Each prompt has one answer, with whom it belongs, and one resend at a time, for
\* any number of pages (Broker.mu, smsPending.resolved and opGate).
THEOREM BrokerInvariant == Spec => []BrokerInv
BY BrokerInit, BrokerStep, PTL DEF Spec

-----------------------------------------------------------------------------

\* Every code that was accepted is the one the login has when it is past the
\* wait, whatever cancellations, resends and second codes raced it (Broker.Submit
\* and Broker.Prompt).
THEOREM AcceptedCodeIsUsed == Spec => []AcceptedIsUsed
<1>1. BrokerInv => AcceptedIsUsed
  BY AnswerFacts, Bounds DEF BrokerInv, Types, Answers, Faithful, OneAnswer, AcceptedIsUsed,
     Asking, LoginAt, Prompts
<1> QED
  BY <1>1, BrokerInvariant, PTL

\* The code that is checked was typed for that very prompt, and no resend is at
\* the controller meanwhile (Broker.opGate).
THEOREM CodeCheckedAlone == Spec => []CheckedCode
<1>1. BrokerInv => TypeOK
  <2> SUFFICES ASSUME BrokerInv PROVE TypeOK
    OBVIOUS
  <2>1. ASSUME NEW g \in Gens
        PROVE  /\ DOMAIN prompt[g] = DOMAIN Fresh /\ prompt[g].gate \in Clients
               /\ prompt[g].accepted \in {0, 1}
               /\ prompt[g].done => prompt[g].result = Empty
    BY BrokerAssumption, Bounds DEF BrokerInv, Prompts, Fresh, OnePrompt, OneAnswer
  <2>2. login.pc \in {"sms", "armed", "wait", "exit", "withdraw", "gate", "decide",
                      "check", "expired", "over"}
    BY DEF BrokerInv, Types, Logins
  <2> QED
    BY <2>1, <2>2, Bounds DEF BrokerInv, Types, TypeOK
<1>2. BrokerInv => CodeOfItsPrompt
  <2> SUFFICES ASSUME BrokerInv, LoginAt("check"), login.got.by # Terminal
               PROVE  login.got.for = gen
    BY DEF CodeOfItsPrompt
  <2>1. gen # 0 /\ login.got.kind = "code" /\ Faithful(login.got, gen)
    BY DEF BrokerInv, GatePassed, Answers
  <2> QED
    BY <2>1, AnswerFacts DEF Faithful
<1>3. BrokerInv => NoOverlap
  BY DEF BrokerInv, NoOverlap, GatePassed, Clients
<1> QED
  BY <1>1, <1>2, <1>3, BrokerInvariant, PTL DEF CheckedCode

-----------------------------------------------------------------------------
(* SessionEvents: the state and its invariant *)

Kinds    == {"start", "success", "failed", "invalidated"}
Events   == [kind : Kinds, gen : Nat]
Turns    == [at : {"rest", "hub", "runtime"}, kind : Kinds \cup {"none"}, gen : Nat]
Acqs     == [phase : {"none", "begun", "login", "ended"}, rev : Nat,
             forced : BOOLEAN, gone : BOOLEAN, good : BOOLEAN]
Panels   == [acquiring : BOOLEAN, active : BOOLEAN, error : BOOLEAN,
             gen : Nat, user : Nat, count : Nat]
Statuses == [state : {"idle", "authenticating", "ready", "failed", "closed"},
             session : Nat, rev : Nat]
Holders  == [by : {"nobody", "observer", "connect"}, saw : Nat]
Readers  == [open : BOOLEAN, buf : Seq(Nat), seen : Nat]

EventTypes ==
  /\ mode \in {"panel", "library"} /\ closed \in BOOLEAN /\ shut \in BOOLEAN
  /\ issued \in Nat /\ cur \in {0, issued} /\ rev \in Nat
  /\ acq \in Acqs
  /\ queue \in Seq(Events) /\ turn \in Turns
  /\ hub \in Panels /\ stream \in Readers
  /\ status \in Statuses /\ lock \in Holders /\ conn \in Nat /\ feed \in Readers

\* Nothing refers to a session or a revision that does not exist yet, and no
\* queue is longer than its limit.
EventsBounded ==
  /\ acq.rev <= rev /\ conn <= issued /\ lock.saw <= issued
  /\ turn.gen <= issued /\ hub.gen <= issued /\ status.session <= issued
  /\ \A i \in 1..Len(queue) : queue[i].gen <= issued
  /\ Len(queue) <= MaxQueue
  /\ Len(stream.buf) <= StreamSize /\ Len(feed.buf) <= 1

\* Nothing is served while an acquisition is under way, and no other call of the
\* panel overtakes one.
AcquisitionInv ==
  /\ acq # NoAcq => cur = 0 /\ acq.phase # "none"
  /\ mode = "panel" /\ ~closed /\ acq # NoAcq => acq.rev = rev
  /\ closed => shut

\* The newest event the observers have yet to be told.
Pending == queue # <<>> \/ turn.at # "rest"
Newest  == IF queue # <<>> THEN queue[Len(queue)] ELSE turn

\* Whatever the queue has lost, the newest event tells the truth.
NewestInv ==
  ~closed /\ Pending =>
    /\ Newest.kind = "success" <=> cur # 0
    /\ Newest.kind = "success" => Newest.gen = cur

\* What the holder of the mutex has read is true, or an event is on its way
\* that says otherwise.
HolderInv ==
  /\ turn.at = "rest" => turn = Rest
  /\ turn.at # "rest" => turn.kind \in Kinds
  /\ lock.by = "nobody" => lock = Unlocked
  /\ lock.by = "observer" => turn.at = "runtime"
  /\ lock.by = "connect" => lock.saw # 0
  /\ shut => lock = Unlocked
  /\ ~closed /\ lock.by = "observer" /\ queue = <<>> => lock.saw = cur
  /\ ~closed /\ lock.by = "connect" /\ lock.saw # cur => Pending

\* When no event is on its way the status is the truth.
StatusInv ==
  ~closed /\ ~shut /\ ~Pending =>
    /\ status.state = "ready" <=> cur # 0
    /\ cur # 0 => status.session = cur

\* The Hub shows somebody exactly while it shows a session.
HubInv ==
  /\ hub.active = (hub.user # 0) /\ hub.user \in {0, hub.gen}
  /\ \A i \in 1..Len(queue) : queue[i].kind = "success" => queue[i].gen # 0
  /\ turn.kind = "success" => turn.gen # 0

\* Between acquisitions the newest event is the end of one or an invalidation,
\* which follows the success it takes back: from these the Hub can tell that the
\* acquisition is over.
HubTold ==
  mode = "panel" /\ ~closed /\ acq = NoAcq =>
    IF queue = <<>> /\ turn.at # "hub"
    THEN hub.user = cur /\ ~hub.acquiring
    ELSE /\ Newest.kind # "start"
         /\ Newest.kind = "invalidated" =>
              IF Len(queue) > 1 THEN queue[Len(queue) - 1].kind = "success"
              ELSE IF queue # <<>> /\ turn.at = "hub" THEN turn.kind = "success"
              ELSE ~hub.acquiring

\* A subscriber that is not cut off has every snapshot.
StreamInv ==
  stream.open =>
    /\ stream.seen + Len(stream.buf) = hub.count
    /\ \A i \in 1..Len(stream.buf) : stream.buf[i] = stream.seen + i

EventsInv ==
  /\ EventTypes /\ EventsBounded /\ AcquisitionInv /\ NewestInv /\ HolderInv
  /\ StatusInv /\ HubInv /\ (MaxQueue > 1 => HubTold) /\ StreamInv /\ FeedCurrent

-----------------------------------------------------------------------------
(* Facts about the queue *)

\* An event that is emitted is the newest, and whatever the queue loses for it,
\* the one before stays where there is room for two.
LEMMA EmitAppends ==
  ASSUME EventTypes, Len(queue) <= MaxQueue, ~closed,
         NEW kind \in Kinds, NEW g \in Nat, Emit(kind, g)
  PROVE  /\ queue' \in Seq(Events) /\ queue' # <<>> /\ Len(queue') <= MaxQueue
         /\ Len(queue') \in Nat \ {0}
         /\ queue'[Len(queue')] = Event(kind, g)
         /\ \A i \in 1..Len(queue') :
              queue'[i] = Event(kind, g) \/ \E j \in 1..Len(queue) : queue'[i] = queue[j]
         /\ queue = <<>> => Len(queue') = 1
         /\ MaxQueue > 1 /\ queue # <<>> =>
              Len(queue') > 1 /\ queue'[Len(queue') - 1] = queue[Len(queue)]
<1>1. queue \in Seq(Events) /\ Event(kind, g) \in Events
  BY DEF EventTypes, Events, Event
<1>2. Len(queue) \in Nat /\ (queue = <<>> <=> Len(queue) = 0)
  BY <1>1, EmptySeq, LenProperties
<1>3. MaxQueue \in Nat \ {0}
  BY EventsAssumption
<1>4. CASE Len(queue) = MaxQueue
  <2>1. queue' = Append(Tail(queue), Event(kind, g)) /\ queue # <<>>
    BY <1>2, <1>3, <1>4 DEF Emit
  <2>2. /\ Tail(queue) \in Seq(Events) /\ Len(Tail(queue)) = Len(queue) - 1
        /\ \A i \in 1..Len(Tail(queue)) : Tail(queue)[i] = queue[i + 1]
    BY <1>1, <2>1, HeadTailProperties
  <2>3. /\ queue' \in Seq(Events) /\ Len(queue') = Len(queue)
        /\ queue'[Len(queue)] = Event(kind, g)
        /\ \A i \in 1..(Len(queue) - 1) : queue'[i] = queue[i + 1]
    <3>1. /\ queue' \in Seq(Events) /\ Len(queue') = Len(Tail(queue)) + 1
          /\ queue'[Len(Tail(queue)) + 1] = Event(kind, g)
          /\ \A i \in 1..Len(Tail(queue)) : queue'[i] = Tail(queue)[i]
      BY <1>1, <2>1, <2>2, AppendProperties
    <3> QED
      BY <1>2, <2>2, <3>1
  <2>4. queue' # <<>>
    BY <1>2, <1>3, <1>4, <2>3, EmptySeq
  <2>5. ASSUME NEW i \in 1..Len(queue')
        PROVE  queue'[i] = Event(kind, g) \/ \E j \in 1..Len(queue) : queue'[i] = queue[j]
    <3>1. CASE i = Len(queue)
      BY <2>3, <3>1
    <3>2. CASE i # Len(queue)
      <4>1. i \in 1..(Len(queue) - 1) /\ i + 1 \in 1..Len(queue)
        BY <1>2, <2>3, <3>2
      <4> QED
        BY <2>3, <4>1
    <3> QED
      BY <3>1, <3>2
  <2>6. ASSUME MaxQueue > 1
        PROVE  Len(queue') > 1 /\ queue'[Len(queue') - 1] = queue[Len(queue)]
    <3>1. Len(queue) - 1 \in 1..(Len(queue) - 1)
      BY <1>2, <1>3, <1>4, <2>6
    <3>2. queue'[Len(queue) - 1] = queue[Len(queue) - 1 + 1]
      BY <2>3, <3>1
    <3> QED
      BY <1>2, <1>3, <1>4, <2>3, <2>6, <3>2
  <2> QED
    BY <1>2, <1>3, <1>4, <2>1, <2>3, <2>4, <2>5, <2>6
<1>5. CASE Len(queue) # MaxQueue
  <2>1. queue' = Append(queue, Event(kind, g))
    BY <1>5 DEF Emit
  <2>2. /\ queue' \in Seq(Events) /\ Len(queue') = Len(queue) + 1
        /\ queue'[Len(queue) + 1] = Event(kind, g)
        /\ \A i \in 1..Len(queue) : queue'[i] = queue[i]
    BY <1>1, <2>1, AppendProperties
  <2>3. queue' # <<>>
    BY <1>2, <2>2, EmptySeq
  <2>4. ASSUME NEW i \in 1..Len(queue')
        PROVE  queue'[i] = Event(kind, g) \/ \E j \in 1..Len(queue) : queue'[i] = queue[j]
    BY <1>2, <2>2
  <2>5. queue # <<>> => Len(queue') > 1 /\ queue'[Len(queue') - 1] = queue[Len(queue)]
    BY <1>2, <2>2
  <2> QED
    BY <1>2, <1>3, <1>5, <2>2, <2>3, <2>4, <2>5
<1> QED
  BY <1>4, <1>5

\* The drainer takes the oldest event and leaves the others in their order.
LEMMA DequeueShifts ==
  ASSUME queue \in Seq(Events), queue # <<>>, queue' = Tail(queue)
  PROVE  /\ Head(queue) = queue[1] /\ queue[1] \in Events
         /\ Len(queue) \in Nat \ {0} /\ 1 \in 1..Len(queue)
         /\ queue' \in Seq(Events) /\ Len(queue') = Len(queue) - 1
         /\ \A i \in 1..Len(queue') : i + 1 \in 1..Len(queue) /\ queue'[i] = queue[i + 1]
         /\ queue' = <<>> <=> Len(queue) = 1
         /\ queue' # <<>> => queue'[Len(queue')] = queue[Len(queue)]
<1>1. Len(queue) \in Nat \ {0}
  BY EmptySeq
<1>2. /\ queue' \in Seq(Events) /\ Len(queue') = Len(queue) - 1
      /\ \A i \in 1..Len(queue') : queue'[i] = queue[i + 1]
  BY HeadTailProperties
<1>3. Head(queue) = queue[1] /\ queue[1] \in Events
  BY <1>1, ElementOfSeq
<1>4. queue' = <<>> <=> Len(queue') = 0
  BY <1>2, EmptySeq
<1>5. ASSUME queue' # <<>>
      PROVE  queue'[Len(queue')] = queue[Len(queue)]
  <2>1. Len(queue') \in 1..Len(queue')
    BY <1>1, <1>2, <1>4, <1>5
  <2> QED
    BY <1>1, <1>2, <2>1
<1> QED
  BY <1>1, <1>2, <1>3, <1>4, <1>5

\* What stays in the queue was there, so what holds of every event still does.
LEMMA EmitKeeps ==
  ASSUME EventTypes, EventsBounded, HubInv, NEW kind \in Kinds, NEW g \in Nat,
         issued' \in Nat, issued <= issued', g <= issued', kind = "success" => g # 0,
         Emit(kind, g)
  PROVE  /\ queue' \in Seq(Events) /\ Len(queue') <= MaxQueue
         /\ \A i \in 1..Len(queue') : queue'[i].gen <= issued'
         /\ \A i \in 1..Len(queue') : queue'[i].kind = "success" => queue'[i].gen # 0
<1>1. issued \in Nat /\ queue \in Seq(Events)
  BY DEF EventTypes
<1>2. \A j \in 1..Len(queue) : queue[j].gen \in Nat
  <2> SUFFICES ASSUME NEW j \in 1..Len(queue) PROVE queue[j].gen \in Nat
    OBVIOUS
  <2>1. queue[j] \in Events
    BY <1>1, ElementOfSeq
  <2> QED
    BY <2>1 DEF Events
<1>3. CASE closed
  BY <1>1, <1>2, <1>3 DEF Emit, EventsBounded, HubInv
<1>4. CASE ~closed
  <2>1. /\ queue' \in Seq(Events) /\ Len(queue') <= MaxQueue
        /\ \A i \in 1..Len(queue') :
             queue'[i] = Event(kind, g) \/ \E j \in 1..Len(queue) : queue'[i] = queue[j]
    BY <1>4, EmitAppends DEF EventsBounded
  <2>2. ASSUME NEW i \in 1..Len(queue')
        PROVE  queue'[i].gen <= issued' /\ (queue'[i].kind = "success" => queue'[i].gen # 0)
    <3>1. CASE queue'[i] = Event(kind, g)
      BY <3>1 DEF Event
    <3>2. ASSUME NEW j \in 1..Len(queue), queue'[i] = queue[j]
          PROVE  queue'[i].gen <= issued' /\ (queue'[i].kind = "success" => queue'[i].gen # 0)
      BY <1>1, <1>2, <3>2 DEF EventsBounded, HubInv
    <3> QED
      BY <2>1, <3>1, <3>2
  <2> QED
    BY <2>1, <2>2
<1> QED
  BY <1>3, <1>4

-----------------------------------------------------------------------------
(* Types and bounds *)

QueueKept == /\ queue' \in Seq(Events) /\ Len(queue') <= MaxQueue
             /\ \A i \in 1..Len(queue') : queue'[i].gen <= issued'

\* A step of the provider keeps them if its own variables do.
LEMMA ProviderTyped ==
  ASSUME EventTypes, EventsBounded, ProviderOnly, mode' = mode,
         closed' \in BOOLEAN, issued' \in Nat, issued <= issued',
         cur' \in {0, issued'}, rev' \in Nat, acq' \in Acqs, acq'.rev <= rev', QueueKept
  PROVE  EventTypes' /\ EventsBounded'
<1>1. UNCHANGED <<mode, turn, hub, stream, status, shut, lock, conn, feed>>
  BY DEF ProviderOnly, hubs, runtime
<1>2. EventTypes'
  BY <1>1 DEF EventTypes, QueueKept
<1>3. turn.gen \in Nat /\ hub.gen \in Nat /\ status.session \in Nat /\ lock.saw \in Nat
      /\ conn \in Nat /\ issued \in Nat
  BY DEF EventTypes, Turns, Panels, Statuses, Holders
<1>4. EventsBounded'
  BY <1>1, <1>3 DEF EventsBounded, QueueKept
<1> QED
  BY <1>2, <1>4

\* A step of an observer leaves the provider and the queue alone.
LEMMA RuntimeTyped ==
  ASSUME EventTypes, EventsBounded, RuntimeOnly, mode' = mode,
         turn' \in Turns, turn'.gen <= issued, shut' \in BOOLEAN,
         status' \in Statuses, status'.session <= issued,
         lock' \in Holders, lock'.saw <= issued, conn' \in Nat, conn' <= issued,
         feed' \in Readers, Len(feed'.buf) <= 1
  PROVE  EventTypes' /\ EventsBounded'
<1>1. UNCHANGED <<mode, cur, issued, rev, closed, acq, queue, hub, stream>>
  BY DEF RuntimeOnly, provider, hubs
<1> QED
  BY <1>1 DEF EventTypes, EventsBounded

\* What is published is a status, and one snapshot of it waits at most.
LEMMA PublishTyped ==
  ASSUME EventTypes, EventsBounded, NEW st \in Statuses, st.session <= issued, Publish(st)
  PROVE  /\ status' \in Statuses /\ status'.session <= issued
         /\ status'.state = st.state /\ status'.session = st.session
         /\ feed' \in Readers /\ Len(feed'.buf) <= 1
<1>1. status.rev + 1 \in Nat /\ feed \in Readers
  BY DEF EventTypes, Statuses
<1>2. /\ status' = [st EXCEPT !.rev = status.rev + 1] /\ status'.rev = status.rev + 1
      /\ status' \in Statuses /\ status'.state = st.state /\ status'.session = st.session
  BY <1>1 DEF Publish, Statuses
<1>3. feed' = IF feed.open THEN [feed EXCEPT !.buf = <<status.rev + 1>>] ELSE feed
  BY <1>1, <1>2 DEF Publish, Statuses
<1>4. <<status.rev + 1>> \in Seq(Nat) /\ Len(<<status.rev + 1>>) = 1
  BY <1>1
<1>5. feed' \in Readers /\ Len(feed'.buf) <= 1
  <2>1. CASE feed.open
    <3>1. feed' = [feed EXCEPT !.buf = <<status.rev + 1>>]
      BY <1>3, <2>1
    <3>2. feed'.buf = <<status.rev + 1>> /\ feed' \in Readers
      BY <1>1, <1>4, <3>1 DEF Readers
    <3> QED
      BY <1>4, <3>2
  <2>2. CASE ~feed.open
    BY <1>1, <1>3, <2>2 DEF EventsBounded
  <2> QED
    BY <2>1, <2>2
<1> QED
  BY <1>2, <1>5

\* Every step keeps types and bounds.
LEMMA TypedStep ==
  ASSUME EventTypes, EventsBounded, HubInv, HolderInv, EventsNext
  PROVE  EventTypes' /\ EventsBounded'
<1>0. /\ mode' = mode /\ issued \in Nat /\ rev \in Nat /\ cur \in {0, issued}
      /\ acq \in Acqs /\ acq.rev \in Nat /\ acq.rev <= rev /\ closed \in BOOLEAN
      /\ NoAcq \in Acqs /\ NoAcq.rev = 0
      /\ queue \in Seq(Events) /\ conn \in Nat
  BY DEF EventTypes, EventsBounded, Acqs, NoAcq, EventsNext
<1>00. /\ turn \in Turns /\ turn.gen <= issued /\ shut \in BOOLEAN
       /\ status \in Statuses /\ status.session <= issued
       /\ lock \in Holders /\ lock.saw <= issued /\ conn <= issued
       /\ feed \in Readers /\ Len(feed.buf) <= 1
       /\ Rest \in Turns /\ Rest.gen = 0 /\ Unlocked \in Holders /\ Unlocked.saw = 0
  BY DEF EventTypes, EventsBounded, Rest, Turns, Unlocked, Holders
<1>q. ASSUME queue' = queue, issued' = issued PROVE QueueKept
  BY <1>q DEF QueueKept, EventsBounded, EventTypes
<1>e. ASSUME NEW kind \in Kinds, NEW g \in Nat, issued' \in Nat, issued <= issued',
             g <= issued', kind = "success" => g # 0, Emit(kind, g)
      PROVE  QueueKept
  BY <1>e, EmitKeeps DEF QueueKept
<1>l. ASSUME rev' \in Nat, Leads(FALSE) \/ Leads(TRUE)
      PROVE  acq' \in Acqs /\ acq'.rev <= rev'
  <2>1. PICK forced \in {FALSE, TRUE} : Leads(forced)
    BY <1>l
  <2>2. acq' = [phase |-> "begun", rev |-> rev', forced |-> forced, gone |-> FALSE, good |-> FALSE]
    BY <2>1 DEF Leads, NoAcq
  <2>3. acq'.rev = rev'
    BY <2>2
  <2>4. acq' \in Acqs
    BY <1>l, <2>2 DEF Acqs
  <2> QED
    BY <1>l, <2>3, <2>4
<1>c. ASSUME Clears, issued' = issued
      PROVE  /\ cur' \in {0, issued'} /\ rev' = rev + 1 /\ rev' \in Nat /\ acq.rev <= rev' /\ QueueKept
  BY <1>0, <1>c, <1>e DEF Clears, Kinds
<1>1. CASE CredentialLeads
  BY <1>0, <1>1, <1>q, <1>l, ProviderTyped DEF CredentialLeads
<1>2. CASE ForcedLeads
  BY <1>0, <1>2, <1>c, <1>l, ProviderTyped DEF ForcedLeads
<1>3. CASE Forget
  BY <1>0, <1>3, <1>c, ProviderTyped DEF Forget
<1>4. CASE InvalidateIfCurrent
  BY <1>0, <1>4, <1>c, ProviderTyped DEF InvalidateIfCurrent
<1>5. CASE LeaderLeaves
  <2>1. acq' \in Acqs /\ acq'.rev = acq.rev
    BY <1>0, <1>5 DEF LeaderLeaves, Acqs
  <2> QED
    BY <1>0, <1>5, <1>q, <2>1, ProviderTyped DEF LeaderLeaves
<1>6. ASSUME NEW good \in BOOLEAN, AcqEnds(good)
      PROVE  EventTypes' /\ EventsBounded'
  <2>1. acq' \in Acqs /\ acq'.rev = acq.rev
    BY <1>0, <1>6 DEF AcqEnds, Acqs
  <2> QED
    BY <1>0, <1>6, <1>q, <2>1, ProviderTyped DEF AcqEnds
<1>7. CASE Restores \/ BeginFails \/ LoginEnds
  BY <1>6, <1>7 DEF Restores, BeginFails, LoginEnds
<1>8. CASE LoginStarts
  <2>1. acq' \in Acqs /\ acq'.rev = acq.rev
    BY <1>0, <1>8 DEF LoginStarts, Acqs
  <2> QED
    BY <1>0, <1>8, <1>e, <2>1, ProviderTyped DEF LoginStarts, Kinds
<1>9. CASE LoginRestarts
  BY <1>0, <1>9, <1>e, ProviderTyped DEF LoginRestarts, Kinds
<1>10. CASE FinishPublishes
  BY <1>0, <1>10, <1>e, ProviderTyped DEF FinishPublishes, Kinds
<1>11. CASE FinishFails
  BY <1>0, <1>11, <1>e, ProviderTyped DEF FinishFails, Kinds
<1>12. CASE FinishSilently
  BY <1>0, <1>12, <1>q, ProviderTyped DEF FinishSilently
<1>13. CASE ProviderClose
  <2>1. QueueKept
    <3>1. queue' = <<>>
      BY <1>13 DEF ProviderClose
    <3>2. <<>> \in Seq(Events) /\ Len(<<>>) = 0
      BY EmptySeq
    <3> QED
      BY <3>1, <3>2, EventsAssumption DEF QueueKept
  <2> QED
    BY <1>0, <1>13, <2>1, ProviderTyped DEF ProviderClose
<1>14. CASE Dequeue
  <2>1. /\ queue # <<>> /\ queue' = Tail(queue)
        /\ UNCHANGED <<cur, issued, rev, closed, acq, hub, stream, status, shut, lock, conn, feed>>
    BY <1>14 DEF Dequeue, provider, hubs, runtime
  <2>2. /\ Head(queue) = queue[1] /\ queue[1] \in Events /\ Len(queue) \in Nat
        /\ 1 \in 1..Len(queue) /\ queue' \in Seq(Events) /\ Len(queue') = Len(queue) - 1
        /\ \A i \in 1..Len(queue') : i + 1 \in 1..Len(queue) /\ queue'[i] = queue[i + 1]
    BY <1>0, <2>1, DequeueShifts
  <2>3. turn' \in Turns /\ turn'.gen <= issued
    BY <1>14, <2>2 DEF Dequeue, Events, Turns, EventsBounded
  <2>4. EventTypes'
    BY <1>0, <2>1, <2>2, <2>3 DEF EventTypes
  <2>5. Len(queue') <= MaxQueue /\ \A i \in 1..Len(queue') : queue'[i].gen <= issued
    BY <2>2, EventsAssumption DEF EventsBounded
  <2>6. EventsBounded'
    BY <2>1, <2>3, <2>5 DEF EventsBounded
  <2> QED
    BY <2>4, <2>6
<1>15. CASE HubObserves \/ StreamOpens \/ StreamReads
  <2>1. /\ UNCHANGED <<mode, cur, issued, rev, closed, acq, queue>>
        /\ UNCHANGED <<status, shut, lock, conn, feed>>
    BY <1>0, <1>15 DEF HubObserves, StreamOpens, StreamReads, provider, runtime
  <2>2. stream \in Readers /\ hub \in Panels /\ hub.count \in Nat /\ Len(stream.buf) \in Nat
        /\ Len(stream.buf) <= StreamSize /\ stream.buf \in Seq(Nat) /\ StreamSize \in Nat
    <3>1. stream \in Readers /\ hub \in Panels
      BY DEF EventTypes
    <3> QED
      BY <3>1, EventsAssumption, LenProperties DEF Readers, Panels, EventsBounded
  <2>3. stream' \in Readers /\ Len(stream'.buf) <= StreamSize
    <3>1. CASE HubObserves
      <4>1. Append(stream.buf, hub.count + 1) \in Seq(Nat)
            /\ Len(Append(stream.buf, hub.count + 1)) = Len(stream.buf) + 1
        BY <2>2, AppendProperties
      <4>2. CASE stream.open /\ Len(stream.buf) < StreamSize
        <5>1. stream' = [stream EXCEPT !.buf = Append(stream.buf, hub.count + 1)]
          BY <3>1, <4>2 DEF HubObserves, Broadcast
        <5>2. stream'.buf = Append(stream.buf, hub.count + 1) /\ stream' \in Readers
          BY <2>2, <4>1, <5>1 DEF Readers
        <5> QED
          BY <2>2, <4>1, <4>2, <5>2
      <4>3. CASE ~(stream.open /\ Len(stream.buf) < StreamSize)
        <5>1. stream' = stream \/ stream' = [stream EXCEPT !.open = FALSE]
          BY <3>1, <4>3 DEF HubObserves, Broadcast
        <5>2. stream' \in Readers /\ stream'.buf = stream.buf
          BY <2>2, <5>1 DEF Readers
        <5> QED
          BY <2>2, <5>2
      <4> QED
        BY <4>2, <4>3
    <3>2. CASE StreamOpens
      <4>1. <<>> \in Seq(Nat) /\ Len(<<>>) = 0
        BY EmptySeq
      <4> QED
        BY <2>2, <3>2, <4>1 DEF StreamOpens, Readers
    <3>3. CASE StreamReads
      <4>1. stream.buf # <<>> /\ stream' = [stream EXCEPT !.buf = Tail(stream.buf), !.seen = Head(stream.buf)]
        BY <3>3 DEF StreamReads
      <4>2. Head(stream.buf) \in Nat /\ Tail(stream.buf) \in Seq(Nat)
            /\ Len(Tail(stream.buf)) = Len(stream.buf) - 1
        BY <2>2, <4>1, HeadTailProperties
      <4>3. stream' \in Readers /\ stream'.buf = Tail(stream.buf)
        BY <2>2, <4>1, <4>2 DEF Readers
      <4> QED
        BY <2>2, <4>2, <4>3
    <3> QED
      BY <1>15, <3>1, <3>2, <3>3
  <2>4. /\ hub' \in Panels /\ hub'.gen <= issued
        /\ turn' \in Turns /\ turn'.gen <= issued
    <3>1. CASE HubObserves
      <4>1. turn.kind \in Kinds
        BY <3>1 DEF HubObserves, HolderInv
      <4>2. HubShows(turn) \in Panels /\ HubShows(turn).gen <= issued
        BY <1>00, <2>2, <4>1 DEF HubShows, Panels, Kinds, Turns, EventsBounded
      <4>3. hub' = [HubShows(turn) EXCEPT !.count = @ + 1] /\ HubShows(turn).count \in Nat
        BY <3>1, <4>2 DEF HubObserves, Panels
      <4>4. hub' \in Panels /\ hub'.gen = HubShows(turn).gen
        BY <4>2, <4>3 DEF Panels
      <4>5. turn' \in Turns /\ turn'.gen = turn.gen
        BY <1>00, <3>1 DEF HubObserves, Turns
      <4> QED
        BY <1>00, <4>2, <4>4, <4>5
    <3>2. CASE StreamOpens \/ StreamReads
      BY <1>00, <2>2, <3>2 DEF StreamOpens, StreamReads, EventsBounded
    <3> QED
      BY <1>15, <3>1, <3>2
  <2>5. EventTypes'
    BY <2>1, <2>3, <2>4 DEF EventTypes
  <2>6. EventsBounded'
    BY <2>1, <2>3, <2>4 DEF EventsBounded
  <2> QED
    BY <2>5, <2>6
<1>16. CASE RuntimeLooks
  <2>1. lock' \in Holders /\ lock'.saw <= issued
    BY <1>0, <1>16 DEF RuntimeLooks, Holders
  <2> QED
    BY <1>0, <1>00, <1>16, <2>1, RuntimeTyped DEF RuntimeLooks
<1>17. CASE RuntimeObserves
  <2>1. status' \in Statuses /\ status'.session <= issued /\ feed' \in Readers /\ Len(feed'.buf) <= 1
    <3>1. CASE Stale
      BY <1>00, <1>17, <3>1 DEF RuntimeObserves
    <3>2. CASE ~Stale
      <4>1. turn.kind \in Kinds
        BY <1>17 DEF RuntimeObserves, HolderInv
      <4>2. Shows(status) \in Statuses /\ Shows(status).session <= issued
        <5>1. lock.saw \in Nat /\ status.session \in Nat /\ status.rev \in Nat
          BY <1>00 DEF Holders, Statuses
        <5>2. Shows(status) \in Statuses
          BY <1>00, <4>1, <5>1 DEF Shows, Statuses, Kinds
        <5>3. Shows(status).session \in {status.session, lock.saw, 0}
          BY <1>00, <4>1 DEF Shows, Statuses, Kinds
        <5> QED
          BY <1>0, <1>00, <5>2, <5>3
      <4>3. Publish(Shows(status))
        BY <1>17, <3>2 DEF RuntimeObserves
      <4> QED
        BY <4>2, <4>3, PublishTyped
    <3> QED
      BY <3>1, <3>2
  <2> QED
    BY <1>0, <1>00, <1>17, <2>1, RuntimeTyped DEF RuntimeObserves
<1>18. CASE RuntimeIgnores
  <2>1. UNCHANGED <<status, shut, lock, conn, feed>> /\ turn' = Rest
    BY <1>18 DEF RuntimeIgnores, runtime
  <2> QED
    BY <1>0, <1>00, <1>18, <2>1, RuntimeTyped DEF RuntimeIgnores
<1>19. CASE ConnectGiven
  BY <1>0, <1>00, <1>19, RuntimeTyped DEF ConnectGiven
<1>20. CASE ConnectLooks
  <2>1. lock' \in Holders /\ lock'.saw <= issued /\ conn' \in Nat /\ conn' <= issued
    BY <1>0, <1>00, <1>20 DEF ConnectLooks, Holders
  <2> QED
    BY <1>0, <1>00, <1>20, <2>1, RuntimeTyped DEF ConnectLooks
<1>21. CASE ConnectReady
  <2>1. [status EXCEPT !.state = "ready", !.session = lock.saw] \in Statuses
        /\ [status EXCEPT !.state = "ready", !.session = lock.saw].session <= issued
    BY <1>00 DEF Statuses, Holders
  <2>2. status' \in Statuses /\ status'.session <= issued /\ feed' \in Readers /\ Len(feed'.buf) <= 1
    BY <1>21, <2>1, PublishTyped DEF ConnectReady
  <2> QED
    BY <1>0, <1>00, <1>21, <2>2, RuntimeTyped DEF ConnectReady
<1>22. CASE RuntimeClose
  <2>1. [status EXCEPT !.state = "closed"] \in Statuses
        /\ [status EXCEPT !.state = "closed"].session <= issued
    BY <1>00 DEF Statuses
  <2>2. status' \in Statuses /\ status'.session <= issued /\ feed' \in Readers /\ Len(feed'.buf) <= 1
    BY <1>22, <2>1, PublishTyped DEF RuntimeClose
  <2> QED
    BY <1>0, <1>00, <1>22, <2>2, RuntimeTyped DEF RuntimeClose
<1>23. CASE Subscribe \/ FeedReads
  <2>1. feed' \in Readers /\ Len(feed'.buf) <= 1
    <3>1. status.rev \in Nat /\ <<status.rev>> \in Seq(Nat) /\ Len(<<status.rev>>) = 1
      BY <1>00 DEF Statuses
    <3>2. <<>> \in Seq(Nat) /\ Len(<<>>) = 0
      BY EmptySeq
    <3>3. CASE Subscribe
      BY <3>1, <3>3 DEF Subscribe, Readers
    <3>4. CASE FeedReads
      <4>1. Head(feed.buf) \in Nat
        BY <1>00, <3>4, HeadTailProperties DEF FeedReads, Readers
      <4>2. feed' = [feed EXCEPT !.buf = <<>>, !.seen = Head(feed.buf)]
        BY <3>4 DEF FeedReads
      <4>3. feed' \in Readers /\ feed'.buf = <<>>
        BY <1>00, <3>2, <4>1, <4>2 DEF Readers
      <4> QED
        BY <3>2, <4>3
    <3> QED
      BY <1>23, <3>3, <3>4
  <2> QED
    BY <1>0, <1>00, <1>23, <2>1, RuntimeTyped DEF Subscribe, FeedReads
<1> QED
  BY <1>1, <1>2, <1>3, <1>4, <1>5, <1>7, <1>8, <1>9, <1>10, <1>11, <1>12, <1>13, <1>14,
     <1>15, <1>16, <1>17, <1>18, <1>19, <1>20, <1>21, <1>22, <1>23
  DEF EventsNext, Steps, Acquisition, Drainer, Connecting

-----------------------------------------------------------------------------
(* The acquisition, the newest event, the mutex and the status *)

LEMMA AcquisitionStep ==
  ASSUME EventTypes, AcquisitionInv, EventsNext
  PROVE  AcquisitionInv'
<1>0. mode' = mode /\ NoAcq.phase = "none"
  BY DEF EventsNext, NoAcq
<1>l. ASSUME Leads(FALSE) \/ Leads(TRUE)
      PROVE  acq'.phase = "begun" /\ acq'.rev = rev'
  <2>1. PICK forced \in {FALSE, TRUE} : Leads(forced)
    BY <1>l
  <2>2. acq' = [phase |-> "begun", rev |-> rev', forced |-> forced, gone |-> FALSE, good |-> FALSE]
    BY <2>1 DEF Leads, NoAcq
  <2> QED
    BY <2>2
<1>1. CASE CredentialLeads \/ ForcedLeads
  <2>1. cur' = 0 /\ closed' = FALSE /\ acq'.phase = "begun" /\ acq'.rev = rev'
    BY <1>l, <1>1 DEF CredentialLeads, ForcedLeads, Clears, EventTypes
  <2> QED
    BY <1>0, <2>1 DEF AcquisitionInv
<1>2. CASE Forget
  BY <1>0, <1>2 DEF Forget, Clears, AcquisitionInv, ProviderOnly, runtime
<1>3. CASE InvalidateIfCurrent
  BY <1>0, <1>3 DEF InvalidateIfCurrent, Clears, AcquisitionInv, ProviderOnly, runtime
<1>4. CASE LeaderLeaves \/ Restores \/ BeginFails \/ LoginEnds \/ LoginStarts
  <2>1. /\ acq.phase # "none" /\ acq'.phase # "none" /\ acq'.rev = acq.rev
        /\ UNCHANGED <<cur, rev, closed, shut>>
    BY <1>4 DEF LeaderLeaves, Restores, BeginFails, LoginEnds, LoginStarts, AcqEnds,
                ProviderOnly, runtime, EventTypes, Acqs
  <2> QED
    BY <1>0, <2>1 DEF AcquisitionInv
<1>5. CASE LoginRestarts
  BY <1>0, <1>5 DEF LoginRestarts, AcquisitionInv, ProviderOnly, runtime
<1>6. CASE FinishPublishes \/ FinishFails \/ FinishSilently
  BY <1>0, <1>6 DEF FinishPublishes, FinishFails, FinishSilently, AcquisitionInv, ProviderOnly, runtime
<1>7. CASE ProviderClose
  BY <1>0, <1>7 DEF ProviderClose, AcquisitionInv, ProviderOnly, runtime
<1>8. CASE RuntimeClose
  BY <1>0, <1>8 DEF RuntimeClose, RuntimeOnly, AcquisitionInv, provider
<1>9. CASE Drainer \/ StreamOpens \/ StreamReads \/ ConnectGiven \/ Connecting \/ Subscribe \/ FeedReads
  <2>1. UNCHANGED provider /\ shut' = shut
    BY <1>9 DEF Drainer, Dequeue, HubObserves, RuntimeLooks, RuntimeObserves, RuntimeIgnores,
                StreamOpens, StreamReads, ConnectGiven, Connecting, ConnectLooks, ConnectReady,
                Subscribe, FeedReads, RuntimeOnly, runtime
  <2> QED
    BY <1>0, <2>1 DEF AcquisitionInv, provider
<1> QED
  BY <1>1, <1>2, <1>3, <1>4, <1>5, <1>6, <1>7, <1>8, <1>9 DEF EventsNext, Steps, Acquisition

\* An event that is emitted is the newest.
LEMMA EmitIsNewest ==
  ASSUME EventTypes, EventsBounded, ~closed, NEW kind \in Kinds, NEW g \in Nat, Emit(kind, g)
  PROVE  queue' # <<>> /\ Pending' /\ Newest'.kind = kind /\ Newest'.gen = g
<1>1. queue' # <<>> /\ queue'[Len(queue')] = Event(kind, g)
  BY EmitAppends DEF EventsBounded
<1> QED
  BY <1>1 DEF Pending, Newest, Event

\* The steps that emit nothing and leave what the observers have to be told.
Quiet ==
  \/ CredentialLeads \/ LeaderLeaves \/ Restores \/ BeginFails \/ LoginEnds \/ FinishSilently
  \/ HubObserves \/ StreamOpens \/ StreamReads \/ RuntimeLooks \/ ConnectGiven \/ ConnectLooks
  \/ ConnectReady \/ RuntimeClose \/ Subscribe \/ FeedReads

LEMMA QuietKeeps ==
  ASSUME EventTypes, Quiet
  PROVE  /\ UNCHANGED <<cur, closed, queue>>
         /\ turn'.kind = turn.kind /\ turn'.gen = turn.gen
         /\ turn'.at = "rest" <=> turn.at = "rest"
         /\ Pending' = Pending /\ Newest'.kind = Newest.kind /\ Newest'.gen = Newest.gen
<1>1. /\ UNCHANGED <<cur, closed, queue>>
      /\ turn' = turn \/ (turn.at = "hub" /\ turn' = [turn EXCEPT !.at = "runtime"])
  BY DEF Quiet, CredentialLeads, LeaderLeaves, Restores, BeginFails, LoginEnds, AcqEnds,
         FinishSilently, HubObserves, StreamOpens, StreamReads, RuntimeLooks, ConnectGiven,
         ConnectLooks, ConnectReady, RuntimeClose, Subscribe, FeedReads, RuntimeOnly,
         ProviderOnly, provider
<1>2. /\ turn'.kind = turn.kind /\ turn'.gen = turn.gen
      /\ turn'.at = "rest" <=> turn.at = "rest"
  BY <1>1 DEF EventTypes, Turns
<1> QED
  BY <1>1, <1>2 DEF Pending, Newest

\* The steps that emit an event.
Emits ==
  \/ ForcedLeads \/ Forget \/ InvalidateIfCurrent \/ LoginStarts \/ LoginRestarts
  \/ FinishPublishes \/ FinishFails

\* What a step that emits does to what is served, and what it says of it.
LEMMA EmitsTruth ==
  ASSUME EventTypes, EventsBounded, AcquisitionInv, ~closed, Emits
  PROVE  /\ queue' # <<>> /\ Pending' /\ closed' = closed /\ UNCHANGED <<turn, hubs, runtime>>
         /\ Newest'.kind = "success" <=> cur' # 0
         /\ Newest'.kind = "success" => Newest'.gen = cur'
<1>0. issued \in Nat /\ cur \in {0, issued}
  BY DEF EventTypes
<1>1. CASE ForcedLeads \/ Forget \/ InvalidateIfCurrent
  <2>1. cur' = 0 /\ Emit("invalidated", 0)
    BY <1>1 DEF ForcedLeads, Forget, InvalidateIfCurrent, Clears
  <2>2. queue' # <<>> /\ Pending' /\ Newest'.kind = "invalidated"
    BY <2>1, EmitIsNewest DEF Kinds
  <2> QED
    BY <1>1, <2>1, <2>2 DEF ForcedLeads, Forget, InvalidateIfCurrent, ProviderOnly
<1>2. CASE LoginStarts \/ LoginRestarts
  <2>1. cur' = cur /\ acq.phase # "none" /\ Emit("start", 0)
    BY <1>2 DEF LoginStarts, LoginRestarts
  <2>2. queue' # <<>> /\ Pending' /\ Newest'.kind = "start"
    BY <2>1, EmitIsNewest DEF Kinds
  <2>3. cur = 0
    BY <2>1 DEF AcquisitionInv, NoAcq
  <2> QED
    BY <1>2, <2>1, <2>2, <2>3 DEF LoginStarts, LoginRestarts, ProviderOnly
<1>3. CASE FinishPublishes
  <2>1. cur' = issued + 1 /\ Emit("success", issued + 1)
    BY <1>3 DEF FinishPublishes
  <2>2. queue' # <<>> /\ Pending' /\ Newest'.kind = "success" /\ Newest'.gen = issued + 1
    BY <1>0, <2>1, EmitIsNewest DEF Kinds
  <2> QED
    BY <1>0, <1>3, <2>1, <2>2 DEF FinishPublishes, ProviderOnly
<1>4. CASE FinishFails
  <2>1. cur' = cur /\ acq.phase # "none" /\ Emit("failed", 0)
    BY <1>4 DEF FinishFails
  <2>2. queue' # <<>> /\ Pending' /\ Newest'.kind = "failed"
    BY <2>1, EmitIsNewest DEF Kinds
  <2>3. cur = 0
    BY <2>1 DEF AcquisitionInv, NoAcq
  <2> QED
    BY <1>4, <2>1, <2>2, <2>3 DEF FinishFails, ProviderOnly
<1> QED
  BY <1>1, <1>2, <1>3, <1>4 DEF Emits

LEMMA StepKinds ==
  ASSUME EventsNext
  PROVE  Quiet \/ Emits \/ Dequeue \/ RuntimeObserves \/ RuntimeIgnores \/ ProviderClose
BY DEF EventsNext, Steps, Acquisition, Drainer, Connecting, Quiet, Emits

\* Dequeuing takes the newest event into the drainer's hands or leaves it behind.
LEMMA DequeueKeeps ==
  ASSUME EventTypes, Dequeue
  PROVE  /\ turn.at = "rest" /\ turn'.at # "rest" /\ Pending /\ Pending'
         /\ UNCHANGED <<provider, hubs, runtime>>
         /\ turn'.kind \in Kinds
         /\ Newest'.kind = Newest.kind /\ Newest'.gen = Newest.gen
<1>1. /\ turn.at = "rest" /\ queue # <<>> /\ queue' = Tail(queue) /\ queue \in Seq(Events)
      /\ UNCHANGED <<provider, hubs, runtime>>
  BY DEF Dequeue, EventTypes
<1>2. /\ Head(queue) = queue[1] /\ queue[1] \in Events
      /\ queue' = <<>> <=> Len(queue) = 1
      /\ queue' # <<>> => queue'[Len(queue')] = queue[Len(queue)]
  BY <1>1, DequeueShifts
<1>3. turn'.at # "rest" /\ turn'.kind = queue[1].kind /\ turn'.gen = queue[1].gen
  BY <1>2 DEF Dequeue
<1>4. turn'.kind \in Kinds
  BY <1>2, <1>3 DEF Events
<1>5. Newest = queue[Len(queue)]
  BY <1>1 DEF Newest
<1>6. Newest'.kind = Newest.kind /\ Newest'.gen = Newest.gen
  BY <1>2, <1>3, <1>5 DEF Newest
<1> QED
  BY <1>1, <1>3, <1>4, <1>6 DEF Pending

\* A turn that ends leaves nothing pending or the newest event where it is.
LEMMA TurnEnds ==
  ASSUME EventTypes, HolderInv, RuntimeObserves \/ RuntimeIgnores
  PROVE  /\ turn.at = "runtime" /\ turn' = Rest /\ lock' = Unlocked
         /\ UNCHANGED <<provider, queue, hubs, shut, conn>>
         /\ Pending' <=> queue # <<>>
         /\ queue # <<>> => Newest' = Newest
<1>1. /\ turn.at = "runtime" /\ turn' = Rest /\ lock' = Unlocked
      /\ UNCHANGED <<provider, queue, hubs, shut, conn>>
  BY DEF RuntimeObserves, RuntimeIgnores, RuntimeOnly, runtime, HolderInv
<1> QED
  BY <1>1 DEF Pending, Newest, Rest

LEMMA NewestStep ==
  ASSUME EventTypes, EventsBounded, AcquisitionInv, HolderInv, NewestInv, EventsNext
  PROVE  NewestInv'
<1>1. CASE Quiet
  BY <1>1, QuietKeeps DEF NewestInv
<1>2. CASE Emits
  <2>1. CASE closed
    <3>1. closed' = closed
      BY <1>2, <2>1 DEF Emits, ForcedLeads, Forget, InvalidateIfCurrent, LoginStarts,
                        LoginRestarts, FinishPublishes, FinishFails
    <3> QED
      BY <2>1, <3>1 DEF NewestInv
  <2>2. CASE ~closed
    BY <1>2, <2>2, EmitsTruth DEF NewestInv
  <2> QED
    BY <2>1, <2>2
<1>3. CASE Dequeue
  BY <1>3, DequeueKeeps DEF NewestInv, provider
<1>4. CASE RuntimeObserves \/ RuntimeIgnores
  BY <1>4, TurnEnds DEF NewestInv, provider, Pending
<1>5. CASE ProviderClose
  BY <1>5 DEF ProviderClose, NewestInv
<1> QED
  BY <1>1, <1>2, <1>3, <1>4, <1>5, StepKinds

\* The mutex: who holds it, and that the session he read is still true or an
\* event is on its way.
LEMMA HolderStep ==
  ASSUME EventTypes, EventsBounded, AcquisitionInv, HolderInv, EventsNext
  PROVE  HolderInv'
<1>0. lock \in Holders /\ Unlocked.by = "nobody" /\ Rest.at = "rest"
  BY DEF EventTypes, Unlocked, Rest
<1>1. CASE Quiet
  <2>1. /\ UNCHANGED <<cur, closed, queue>> /\ turn'.kind = turn.kind
        /\ turn'.at = "rest" <=> turn.at = "rest"
        /\ Pending' = Pending
    BY <1>1, QuietKeeps
  <2>2. CASE RuntimeLooks
    <3>1. /\ turn.at = "runtime" /\ UNCHANGED <<turn, shut>> /\ ~shut
          /\ lock'.by = "observer" /\ lock'.saw = cur
      BY <2>2 DEF RuntimeLooks
    <3> QED
      BY <2>1, <3>1 DEF HolderInv
  <2>3. CASE ConnectLooks
    <3>1. /\ lock = Unlocked /\ UNCHANGED <<turn, shut>>
          /\ lock' = lock \/ (~shut /\ lock'.by = "connect" /\ lock'.saw = cur /\ cur # 0)
      BY <2>3 DEF ConnectLooks
    <3> QED
      BY <1>0, <2>1, <3>1 DEF HolderInv
  <2>4. CASE ConnectReady \/ RuntimeClose
    <3>1. lock' = Unlocked /\ UNCHANGED turn
      BY <2>4 DEF ConnectReady, RuntimeClose
    <3> QED
      BY <1>0, <2>1, <3>1 DEF HolderInv
  <2>5. CASE HubObserves
    <3>1. /\ turn.at = "hub" /\ turn' = [turn EXCEPT !.at = "runtime"] /\ UNCHANGED <<lock, shut>>
      BY <2>5 DEF HubObserves, runtime
    <3>2. turn'.at = "runtime"
      BY <3>1 DEF EventTypes, Turns
    <3> QED
      BY <2>1, <3>1, <3>2 DEF HolderInv
  <2>6. CASE \/ CredentialLeads \/ LeaderLeaves \/ Restores \/ BeginFails \/ LoginEnds
             \/ FinishSilently \/ StreamOpens \/ StreamReads \/ ConnectGiven \/ Subscribe \/ FeedReads
    <3>1. UNCHANGED <<turn, lock, shut>>
      BY <2>6 DEF CredentialLeads, LeaderLeaves, Restores, BeginFails, LoginEnds, AcqEnds,
           FinishSilently, StreamOpens, StreamReads, ConnectGiven, Subscribe, FeedReads,
           ProviderOnly, runtime
    <3> QED
      BY <2>1, <3>1 DEF HolderInv
  <2> QED
    BY <1>1, <2>2, <2>3, <2>4, <2>5, <2>6 DEF Quiet
<1>2. CASE Emits
  <2>1. UNCHANGED <<closed, turn, lock, shut>>
    BY <1>2 DEF Emits, ForcedLeads, Forget, InvalidateIfCurrent, LoginStarts, LoginRestarts,
                FinishPublishes, FinishFails, ProviderOnly, runtime
  <2>2. ~closed => queue' # <<>> /\ Pending'
    BY <1>2, EmitsTruth
  <2> QED
    BY <2>1, <2>2 DEF HolderInv
<1>3. CASE Dequeue
  <2>1. /\ turn.at = "rest" /\ turn'.at # "rest" /\ Pending' /\ turn'.kind \in Kinds
        /\ UNCHANGED <<cur, closed, lock, shut>>
    BY <1>3, DequeueKeeps DEF provider, runtime
  <2> QED
    BY <2>1 DEF HolderInv
<1>4. CASE RuntimeObserves \/ RuntimeIgnores
  <2>1. turn' = Rest /\ lock' = Unlocked
    BY <1>4, TurnEnds
  <2> QED
    BY <1>0, <2>1 DEF HolderInv
<1>5. CASE ProviderClose
  BY <1>5 DEF ProviderClose, HolderInv, ProviderOnly, runtime
<1> QED
  BY <1>1, <1>2, <1>3, <1>4, <1>5, StepKinds

\* What the observer makes of the newest event is the truth.
LEMMA StatusStep ==
  ASSUME EventTypes, EventsBounded, AcquisitionInv, HolderInv, NewestInv, StatusInv, EventsNext
  PROVE  StatusInv'
<1>0. status \in Statuses /\ lock \in Holders /\ lock.saw \in Nat
  BY DEF EventTypes, Holders
<1>p. ASSUME NEW st \in Statuses, Publish(st)
      PROVE  status'.state = st.state /\ status'.session = st.session
  BY <1>p DEF Publish, Statuses
<1>1. CASE Quiet
  <2>1. UNCHANGED <<cur, closed, queue>> /\ Pending' = Pending
    BY <1>1, QuietKeeps
  <2>2. CASE ConnectReady
    <3>1. /\ lock.by = "connect" /\ shut' = shut
          /\ Publish([status EXCEPT !.state = "ready", !.session = lock.saw])
      BY <2>2 DEF ConnectReady
    <3>2. [status EXCEPT !.state = "ready", !.session = lock.saw] \in Statuses
      BY <1>0 DEF Statuses
    <3>3. status'.state = "ready" /\ status'.session = lock.saw
      BY <1>0, <1>p, <3>1, <3>2 DEF Statuses
    <3> QED
      BY <2>1, <3>1, <3>3 DEF StatusInv, HolderInv
  <2>3. CASE RuntimeClose
    BY <2>3 DEF RuntimeClose, StatusInv
  <2>4. CASE ~ConnectReady /\ ~RuntimeClose
    <3>1. UNCHANGED <<status, shut>>
      BY <1>1, <2>4 DEF Quiet, CredentialLeads, LeaderLeaves, Restores, BeginFails, LoginEnds, AcqEnds,
           FinishSilently, HubObserves, StreamOpens, StreamReads, RuntimeLooks, ConnectGiven,
           ConnectLooks, Subscribe, FeedReads, ProviderOnly, runtime
    <3> QED
      BY <2>1, <3>1 DEF StatusInv
  <2> QED
    BY <2>2, <2>3, <2>4
<1>2. CASE Emits
  <2>1. closed' = closed
    BY <1>2 DEF Emits, ForcedLeads, Forget, InvalidateIfCurrent, LoginStarts, LoginRestarts,
                FinishPublishes, FinishFails
  <2>2. ~closed => Pending'
    BY <1>2, EmitsTruth
  <2> QED
    BY <2>1, <2>2 DEF StatusInv
<1>3. CASE Dequeue
  BY <1>3, DequeueKeeps DEF StatusInv
<1>4. CASE RuntimeObserves
  <2>1. /\ turn.at = "runtime" /\ UNCHANGED <<cur, closed, queue, shut>>
        /\ Pending' <=> queue # <<>>
    BY <1>4, TurnEnds DEF provider
  <2>2. CASE ~closed /\ ~shut /\ queue = <<>>
    <3>1. Newest = turn /\ Pending
      BY <2>1, <2>2 DEF Newest, Pending
    <3>2. /\ lock.saw = cur /\ turn.kind \in Kinds
          /\ turn.kind = "success" <=> cur # 0
          /\ turn.kind = "success" => turn.gen = cur
      BY <1>4, <2>1, <2>2, <3>1 DEF RuntimeObserves, HolderInv, NewestInv
    <3>3. CASE Stale
      <4>1. status' = status
        BY <1>4, <3>3 DEF RuntimeObserves
      <4>2. status.state = "ready" /\ status.session = cur /\ cur # 0
        BY <3>2, <3>3 DEF Stale
      <4> QED
        BY <2>1, <4>1, <4>2 DEF StatusInv
    <3>4. CASE ~Stale
      <4>1. Publish(Shows(status))
        BY <1>4, <3>4 DEF RuntimeObserves
      <4>2. /\ Shows(status) \in Statuses
            /\ turn.kind = "success" => Shows(status).state = "ready" /\ Shows(status).session = cur
            /\ turn.kind # "success" => Shows(status).state # "ready"
        <5>1. CASE turn.kind = "start"
          BY <1>0, <5>1 DEF Shows, Statuses
        <5>2. CASE turn.kind = "success"
          BY <1>0, <3>2, <5>2 DEF Shows, Statuses
        <5>3. CASE turn.kind = "failed"
          BY <1>0, <5>3 DEF Shows, Statuses
        <5>4. CASE turn.kind = "invalidated"
          BY <1>0, <5>4 DEF Shows, Statuses
        <5> QED
          BY <3>2, <5>1, <5>2, <5>3, <5>4 DEF Kinds
      <4>3. status'.state = Shows(status).state /\ status'.session = Shows(status).session
        BY <1>p, <4>1, <4>2
      <4> QED
        BY <2>1, <3>2, <4>2, <4>3 DEF StatusInv
    <3> QED
      BY <3>3, <3>4
  <2> QED
    BY <2>1, <2>2 DEF StatusInv
<1>5. CASE RuntimeIgnores
  BY <1>5 DEF RuntimeIgnores, runtime, StatusInv
<1>6. CASE ProviderClose
  BY <1>6 DEF ProviderClose, StatusInv
<1> QED
  BY <1>1, <1>2, <1>3, <1>4, <1>5, <1>6, StepKinds

-----------------------------------------------------------------------------
(* The Hub and the readers *)

\* The steps that leave the Hub, its stream, the queue and the turn alone.
Aside ==
  \/ CredentialLeads \/ LeaderLeaves \/ Restores \/ BeginFails \/ LoginEnds \/ FinishSilently
  \/ RuntimeLooks \/ ConnectGiven \/ ConnectLooks \/ ConnectReady \/ RuntimeClose \/ Subscribe
  \/ FeedReads

LEMMA AsideKeeps ==
  ASSUME Aside
  PROVE  UNCHANGED <<hub, stream, queue, turn, cur, issued, closed>>
BY DEF Aside, CredentialLeads, LeaderLeaves, Restores, BeginFails, LoginEnds, AcqEnds, FinishSilently,
       RuntimeLooks, ConnectGiven, ConnectLooks, ConnectReady, RuntimeClose, Subscribe, FeedReads,
       RuntimeOnly, ProviderOnly, provider, hubs

LEMMA HubKinds ==
  ASSUME EventsNext
  PROVE  \/ Aside \/ Emits \/ Dequeue \/ HubObserves \/ StreamOpens \/ StreamReads
         \/ RuntimeObserves \/ RuntimeIgnores \/ ProviderClose
BY DEF EventsNext, Steps, Acquisition, Drainer, Connecting, Aside, Emits

\* What the Hub shows after each kind of event.
LEMMA HubShown ==
  ASSUME EventTypes, HolderInv, HubObserves
  PROVE  /\ turn.at = "hub" /\ turn'.at = "runtime"
         /\ turn'.kind = turn.kind /\ turn'.gen = turn.gen /\ turn.kind \in Kinds
         /\ UNCHANGED <<queue, provider>>
         /\ hub'.count = hub.count + 1 /\ Broadcast(hub.count + 1)
         /\ turn.kind = "start" => UNCHANGED <<hub.active, hub.user, hub.gen>>
         /\ turn.kind = "success" => /\ hub'.active = TRUE /\ hub'.acquiring = FALSE
                                     /\ hub'.user = turn.gen /\ hub'.gen = turn.gen
         /\ turn.kind = "failed" => /\ hub'.active = FALSE /\ hub'.acquiring = FALSE
                                    /\ hub'.user = 0 /\ hub'.gen = hub.gen
         /\ turn.kind = "invalidated" => /\ hub'.active = FALSE /\ hub'.acquiring = hub.acquiring
                                         /\ hub'.user = 0 /\ hub'.gen = hub.gen
<1>1. /\ turn.at = "hub" /\ turn' = [turn EXCEPT !.at = "runtime"] /\ turn \in Turns
      /\ UNCHANGED <<queue, provider>> /\ Broadcast(hub.count + 1)
      /\ hub' = [HubShows(turn) EXCEPT !.count = @ + 1] /\ hub \in Panels
  BY DEF HubObserves, EventTypes
<1>2. turn'.at = "runtime" /\ turn'.kind = turn.kind /\ turn'.gen = turn.gen
  BY <1>1 DEF Turns
<1>3. turn.kind \in Kinds
  BY <1>1 DEF HolderInv
<1>4. CASE turn.kind = "start"
  <2>1. hub' = [hub EXCEPT !.acquiring = TRUE, !.error = FALSE, !.count = hub.count + 1]
    BY <1>1, <1>4 DEF HubShows, Panels
  <2> QED
    BY <1>1, <1>2, <1>3, <1>4, <2>1 DEF Panels
<1>5. CASE turn.kind = "success"
  <2>1. hub' = [hub EXCEPT !.acquiring = FALSE, !.active = TRUE, !.error = FALSE,
                           !.gen = turn.gen, !.user = turn.gen, !.count = hub.count + 1]
    BY <1>1, <1>5 DEF HubShows, Panels
  <2> QED
    BY <1>1, <1>2, <1>3, <1>5, <2>1 DEF Panels
<1>6. CASE turn.kind = "failed"
  <2>1. hub' = [hub EXCEPT !.acquiring = FALSE, !.active = FALSE, !.error = TRUE,
                           !.user = 0, !.count = hub.count + 1]
    BY <1>1, <1>6 DEF HubShows, Panels
  <2> QED
    BY <1>1, <1>2, <1>3, <1>6, <2>1 DEF Panels
<1>7. CASE turn.kind = "invalidated"
  <2>1. hub' = [hub EXCEPT !.active = FALSE, !.user = 0, !.count = hub.count + 1]
    BY <1>1, <1>7 DEF HubShows, Panels
  <2> QED
    BY <1>1, <1>2, <1>3, <1>7, <2>1 DEF Panels
<1> QED
  BY <1>3, <1>4, <1>5, <1>6, <1>7 DEF Kinds

LEMMA HubStep ==
  ASSUME EventTypes, EventsBounded, HolderInv, HubInv, EventsNext
  PROVE  HubInv'
<1>0. queue \in Seq(Events) /\ issued \in Nat
  BY DEF EventTypes
<1>1. CASE Aside
  BY <1>1, AsideKeeps DEF HubInv
<1>2. CASE Emits
  <2>1. UNCHANGED <<hub, turn>>
    BY <1>2 DEF Emits, ForcedLeads, Forget, InvalidateIfCurrent, LoginStarts, LoginRestarts,
                FinishPublishes, FinishFails, ProviderOnly, hubs
  <2>2. \/ Emit("invalidated", 0) /\ issued' = issued
        \/ Emit("start", 0) /\ issued' = issued
        \/ Emit("failed", 0) /\ issued' = issued
        \/ Emit("success", issued + 1) /\ issued' = issued + 1
    BY <1>2 DEF Emits, ForcedLeads, Forget, InvalidateIfCurrent, LoginStarts, LoginRestarts,
                FinishPublishes, FinishFails, Clears
  <2>3. \A i \in 1..Len(queue') : queue'[i].kind = "success" => queue'[i].gen # 0
    BY <1>0, <2>2, EmitKeeps DEF Kinds
  <2> QED
    BY <2>1, <2>3 DEF HubInv
<1>3. CASE Dequeue
  <2>1. queue # <<>> /\ queue' = Tail(queue) /\ hub' = hub
    BY <1>3 DEF Dequeue, hubs
  <2>2. /\ Head(queue) = queue[1] /\ 1 \in 1..Len(queue)
        /\ \A i \in 1..Len(queue') : i + 1 \in 1..Len(queue) /\ queue'[i] = queue[i + 1]
    BY <1>0, <2>1, DequeueShifts
  <2>3. turn'.kind = queue[1].kind /\ turn'.gen = queue[1].gen
    BY <1>3, <2>2 DEF Dequeue
  <2> QED
    BY <2>1, <2>2, <2>3 DEF HubInv
<1>4. CASE HubObserves
  <2>1. hub.active = (hub.user # 0) /\ hub.user \in {0, hub.gen}
        /\ (turn.kind = "success" => turn.gen # 0)
    BY DEF HubInv
  <2>2. hub'.active = (hub'.user # 0) /\ hub'.user \in {0, hub'.gen}
    BY <1>4, <2>1, HubShown DEF Kinds
  <2>3. UNCHANGED queue /\ turn'.kind = turn.kind /\ turn'.gen = turn.gen
    BY <1>4, HubShown
  <2> QED
    BY <2>2, <2>3 DEF HubInv
<1>5. CASE StreamOpens \/ StreamReads
  BY <1>5 DEF StreamOpens, StreamReads, HubInv
<1>6. CASE RuntimeObserves \/ RuntimeIgnores
  <2>1. UNCHANGED <<queue, hub>> /\ turn'.kind = "none"
    BY <1>6, TurnEnds DEF hubs, Rest
  <2> QED
    BY <2>1 DEF HubInv
<1>7. CASE ProviderClose
  <2>1. UNCHANGED <<hub, turn>> /\ queue' = <<>> /\ Len(<<>>) = 0
    BY <1>7, EmptySeq DEF ProviderClose, ProviderOnly, hubs
  <2> QED
    BY <2>1 DEF HubInv
<1> QED
  BY <1>1, <1>2, <1>3, <1>4, <1>5, <1>6, <1>7, HubKinds

\* Where the queue has room for two events the Hub can tell, between
\* acquisitions, that the last one is over.
LEMMA HubToldStep ==
  ASSUME MaxQueue > 1, EventTypes, EventsBounded, AcquisitionInv, NewestInv, HolderInv,
         HubTold, EventsNext
  PROVE  HubTold'
<1> SUFFICES ASSUME mode = "panel", ~closed', acq' = NoAcq
             PROVE  HubTold'
  BY DEF EventsNext, HubTold
<1>0. /\ mode' = mode /\ ~closed /\ NoAcq.phase = "none" /\ queue \in Seq(Events)
      /\ Len(queue) \in Nat /\ (queue = <<>> <=> Len(queue) = 0)
  <2>1. mode' = mode /\ NoAcq.phase = "none" /\ queue \in Seq(Events)
    BY DEF EventsNext, EventTypes, NoAcq
  <2>2. ~closed
    BY DEF EventsNext, Steps, Acquisition, Drainer, Connecting, CredentialLeads, ForcedLeads,
      LeaderLeaves, Restores, BeginFails, LoginStarts, LoginRestarts, LoginEnds, AcqEnds,
      FinishPublishes, FinishFails, FinishSilently, Forget, InvalidateIfCurrent, ProviderClose,
      Dequeue, HubObserves, RuntimeLooks, RuntimeObserves, RuntimeIgnores, StreamOpens,
      StreamReads, ConnectGiven, ConnectLooks, ConnectReady, RuntimeClose, Subscribe, FeedReads,
      RuntimeOnly, provider
  <2> QED
    BY <2>1, <2>2, EmptySeq, LenProperties
<1>a. ASSUME acq'.phase # "none" PROVE FALSE
  BY <1>0, <1>a
<1>l. ASSUME Leads(FALSE) \/ Leads(TRUE) PROVE FALSE
  <2>1. acq'.phase = "begun"
    BY <1>l DEF Leads, NoAcq
  <2> QED
    BY <1>a, <2>1
<1>1. CASE Aside
  <2>1. UNCHANGED <<hub, queue, turn, cur, closed>>
    BY <1>1, AsideKeeps
  <2>2. acq = NoAcq
    <3>1. CASE CredentialLeads
      BY <1>l, <3>1 DEF CredentialLeads
    <3>2. CASE LeaderLeaves \/ Restores \/ BeginFails \/ LoginEnds
      <4>1. acq'.phase # "none"
        BY <3>2 DEF LeaderLeaves, Restores, BeginFails, LoginEnds, AcqEnds, EventTypes, Acqs
      <4> QED
        BY <1>a, <4>1
    <3>3. CASE FinishSilently
      BY <1>0, <3>3 DEF FinishSilently, AcquisitionInv
    <3>4. CASE RuntimeLooks \/ ConnectGiven \/ ConnectLooks \/ ConnectReady \/ RuntimeClose
               \/ Subscribe \/ FeedReads
      BY <3>4 DEF RuntimeLooks, ConnectGiven, ConnectLooks, ConnectReady, RuntimeClose, Subscribe,
                  FeedReads, RuntimeOnly, provider
    <3> QED
      BY <1>1, <3>1, <3>2, <3>3, <3>4 DEF Aside
  <2> QED
    BY <1>0, <2>1, <2>2 DEF HubTold, Newest
<1>2. CASE Emits
  <2>1. CASE ForcedLeads
    BY <1>l, <2>1 DEF ForcedLeads
  <2>2. CASE Forget
    BY <2>2 DEF Forget
  <2>3. CASE LoginStarts \/ LoginRestarts
    <3>1. acq'.phase # "none"
      BY <2>3 DEF LoginStarts, LoginRestarts, EventTypes, Acqs
    <3> QED
      BY <1>a, <3>1
  <2>4. CASE FinishPublishes \/ FinishFails
    <3>1. queue' # <<>> /\ Newest'.kind \in {"success", "failed"}
      BY <1>0, <2>4, EmitIsNewest DEF FinishPublishes, FinishFails, Kinds, EventTypes
    <3> QED
      BY <3>1 DEF HubTold
  <2>5. CASE InvalidateIfCurrent
    <3>1. /\ cur # 0 /\ Emit("invalidated", 0) /\ acq = NoAcq /\ UNCHANGED <<turn, hub>>
      BY <2>5 DEF InvalidateIfCurrent, Clears, ProviderOnly, hubs
    <3>2. /\ queue' # <<>> /\ Newest'.kind = "invalidated"
          /\ queue = <<>> => Len(queue') = 1
          /\ queue # <<>> => Len(queue') > 1 /\ queue'[Len(queue') - 1] = queue[Len(queue)]
      BY <1>0, <3>1, EmitIsNewest, EmitAppends DEF Kinds, EventsBounded
    <3>3. Pending => Newest.kind = "success"
      BY <1>0, <3>1 DEF NewestInv
    <3>4. CASE queue # <<>>
      BY <3>2, <3>3, <3>4 DEF HubTold, Pending, Newest
    <3>5. CASE queue = <<>> /\ turn.at = "hub"
      <4>1. turn'.kind = "success" /\ turn'.at = "hub"
        BY <3>1, <3>3, <3>5 DEF Pending, Newest
      <4>2. Len(queue') = 1
        BY <3>2, <3>5
      <4> QED
        BY <3>2, <4>1, <4>2 DEF HubTold
    <3>6. CASE queue = <<>> /\ turn.at # "hub"
      <4>1. ~hub'.acquiring
        BY <1>0, <3>1, <3>6 DEF HubTold
      <4>2. Len(queue') = 1 /\ turn'.at # "hub"
        BY <3>1, <3>2, <3>6
      <4> QED
        BY <3>2, <4>1, <4>2 DEF HubTold
    <3> QED
      BY <3>4, <3>5, <3>6
  <2> QED
    BY <1>2, <2>1, <2>2, <2>3, <2>4, <2>5 DEF Emits
<1>3. CASE Dequeue
  <2>1. /\ turn.at = "rest" /\ queue # <<>> /\ queue' = Tail(queue) /\ turn'.at = "hub"
        /\ turn'.kind = Head(queue).kind /\ acq = NoAcq /\ hub' = hub
    BY <1>3 DEF Dequeue, provider, hubs
  <2>2. /\ Head(queue) = queue[1] /\ Len(queue') = Len(queue) - 1
        /\ \A i \in 1..Len(queue') : queue'[i] = queue[i + 1]
        /\ queue' = <<>> <=> Len(queue) = 1
    BY <1>0, <2>1, DequeueShifts
  <2>3. Newest'.kind = Newest.kind
    BY <1>3, DequeueKeeps
  <2>4. /\ Newest.kind # "start"
        /\ Newest.kind = "invalidated" =>
             IF Len(queue) > 1 THEN queue[Len(queue) - 1].kind = "success" ELSE ~hub.acquiring
    BY <1>0, <2>1 DEF HubTold
  <2>5. CASE Len(queue) = 1
    BY <1>0, <2>1, <2>2, <2>3, <2>4, <2>5 DEF HubTold
  <2>6. CASE Len(queue) = 2
    BY <1>0, <2>1, <2>2, <2>3, <2>4, <2>6 DEF HubTold
  <2>7. CASE Len(queue) > 2
    <3>1. queue'[Len(queue') - 1] = queue[Len(queue) - 1] /\ Len(queue') > 1 /\ queue' # <<>>
      BY <1>0, <2>2, <2>7
    <3> QED
      BY <2>3, <2>4, <2>7, <3>1 DEF HubTold
  <2>8. Len(queue) \in Nat \ {0}
    BY <1>0, <2>1
  <2>9. \A n \in Nat \ {0} : n = 1 \/ n = 2 \/ n > 2
    OBVIOUS
  <2> QED
    BY <2>5, <2>6, <2>7, <2>8, <2>9
<1>4. CASE HubObserves
  <2>1. acq = NoAcq /\ cur' = cur
    BY <1>4 DEF HubObserves, provider
  <2>2. /\ turn.at = "hub" /\ turn'.at = "runtime" /\ turn.kind \in Kinds /\ queue' = queue
        /\ turn.kind = "success" => hub'.acquiring = FALSE /\ hub'.user = turn.gen
        /\ turn.kind = "failed" => hub'.acquiring = FALSE /\ hub'.user = 0
        /\ turn.kind = "invalidated" => hub'.acquiring = hub.acquiring /\ hub'.user = 0
    BY <1>4, HubShown
  <2>3. /\ Newest.kind # "start"
        /\ Newest.kind = "invalidated" =>
             IF Len(queue) > 1 THEN queue[Len(queue) - 1].kind = "success"
             ELSE IF queue # <<>> THEN turn.kind = "success" ELSE ~hub.acquiring
    BY <1>0, <2>1, <2>2 DEF HubTold
  <2>4. CASE queue = <<>>
    <3>1. Newest = turn /\ Pending
      BY <2>2, <2>4 DEF Newest, Pending
    <3>2. /\ turn.kind = "success" <=> cur # 0
          /\ turn.kind = "success" => turn.gen = cur
      BY <1>0, <3>1 DEF NewestInv
    <3>3. Len(queue) = 0
      BY <1>0, <2>4
    <3>4. hub'.user = cur /\ ~hub'.acquiring
      BY <2>2, <2>3, <2>4, <3>1, <3>2, <3>3 DEF Kinds
    <3> QED
      BY <2>1, <2>2, <2>4, <3>4 DEF HubTold
  <2>5. CASE queue # <<>>
    <3>1. Newest' = Newest
      BY <2>2, <2>5 DEF Newest
    <3> QED
      BY <2>2, <2>3, <2>5, <3>1 DEF HubTold
  <2> QED
    BY <2>4, <2>5
<1>5. CASE StreamOpens \/ StreamReads
  <2>1. UNCHANGED <<acq, cur, queue, turn, hub>>
    BY <1>5 DEF StreamOpens, StreamReads, provider
  <2> QED
    BY <1>0, <2>1 DEF HubTold, Newest
<1>6. CASE RuntimeObserves \/ RuntimeIgnores
  <2>1. /\ UNCHANGED <<acq, cur, queue, hub>> /\ turn.at = "runtime" /\ turn'.at = "rest"
        /\ queue # <<>> => Newest' = Newest
    BY <1>6, TurnEnds DEF provider, hubs, Rest
  <2> QED
    BY <1>0, <2>1 DEF HubTold
<1>7. CASE ProviderClose
  BY <1>7 DEF ProviderClose
<1> QED
  BY <1>1, <1>2, <1>3, <1>4, <1>5, <1>6, <1>7, HubKinds

\* What a reader who has seen snapshot n has to come, up to snapshot count.
Counts(buf, n, count) ==
  n + Len(buf) = count /\ \A i \in 1..Len(buf) : buf[i] = n + i

LEMMA AppendCounts ==
  ASSUME NEW buf \in Seq(Nat), NEW n \in Nat, NEW count \in Nat, Counts(buf, n, count)
  PROVE  Counts(Append(buf, count + 1), n, count + 1)
<1> DEFINE new == Append(buf, count + 1)
<1>1. /\ Len(buf) \in Nat /\ Len(new) = Len(buf) + 1 /\ new[Len(buf) + 1] = count + 1
      /\ \A i \in 1..Len(buf) : new[i] = buf[i]
  BY AppendProperties, LenProperties
<1>2. n + Len(new) = count + 1
  BY <1>1 DEF Counts
<1>3. ASSUME NEW i \in 1..Len(new) PROVE new[i] = n + i
  <2>1. CASE i = Len(buf) + 1
    BY <1>1, <2>1 DEF Counts
  <2>2. CASE i # Len(buf) + 1
    <3>1. i \in 1..Len(buf)
      BY <1>1, <2>2
    <3> QED
      BY <1>1, <3>1 DEF Counts
  <2> QED
    BY <2>1, <2>2
<1> HIDE DEF new
<1>4. Counts(new, n, count + 1)
  BY <1>2, <1>3 DEF Counts
<1> QED
  BY <1>4 DEF new

LEMMA TailCounts ==
  ASSUME NEW buf \in Seq(Nat), buf # <<>>, NEW n \in Nat, NEW count \in Nat, Counts(buf, n, count)
  PROVE  Counts(Tail(buf), Head(buf), count)
<1> DEFINE rest == Tail(buf)
<1>1. Len(buf) \in Nat \ {0}
  BY EmptySeq
<1>2. Len(rest) = Len(buf) - 1 /\ \A i \in 1..Len(rest) : rest[i] = buf[i + 1]
  BY HeadTailProperties
<1>3. Head(buf) = n + 1
  BY <1>1 DEF Counts
<1>4. Head(buf) + Len(rest) = count
  BY <1>1, <1>2, <1>3 DEF Counts
<1>5. ASSUME NEW i \in 1..Len(rest) PROVE rest[i] = Head(buf) + i
  <2>1. i + 1 \in 1..Len(buf) /\ rest[i] = buf[i + 1] /\ i \in Nat
    BY <1>1, <1>2
  <2>2. buf[i + 1] = n + (i + 1)
    BY <2>1 DEF Counts
  <2> QED
    BY <1>3, <2>1, <2>2
<1> HIDE DEF rest
<1>6. Counts(rest, Head(buf), count)
  BY <1>4, <1>5 DEF Counts
<1> QED
  BY <1>6 DEF rest

\* A stream that stays open is sent every snapshot, in order.
LEMMA StreamStep ==
  ASSUME EventTypes, HolderInv, StreamInv, EventsNext
  PROVE  StreamInv'
<1>0. /\ stream \in Readers /\ stream.buf \in Seq(Nat) /\ stream.seen \in Nat
      /\ Len(stream.buf) \in Nat /\ hub.count \in Nat /\ <<>> \in Seq(Nat) /\ Len(<<>>) = 0
  <2>1. stream \in Readers /\ hub \in Panels
    BY DEF EventTypes
  <2> QED
    BY <2>1, LenProperties, EmptySeq DEF Readers, Panels
<1>1. CASE Aside
  BY <1>1, AsideKeeps DEF StreamInv
<1>2. CASE Emits \/ Dequeue \/ RuntimeObserves \/ RuntimeIgnores \/ ProviderClose
  <2>1. UNCHANGED <<hub, stream>>
    BY <1>2 DEF Emits, ForcedLeads, Forget, InvalidateIfCurrent, LoginStarts, LoginRestarts,
                FinishPublishes, FinishFails, ProviderClose, ProviderOnly, Dequeue,
                RuntimeObserves, RuntimeIgnores, RuntimeOnly, hubs
  <2> QED
    BY <2>1 DEF StreamInv
<1>3. CASE HubObserves
  <2>1. hub'.count = hub.count + 1 /\ Broadcast(hub.count + 1)
    BY <1>3, HubShown
  <2>2. CASE stream.open /\ Len(stream.buf) < StreamSize
    <3>1. stream'.buf = Append(stream.buf, hub.count + 1) /\ stream'.seen = stream.seen
      BY <1>0, <2>1, <2>2 DEF Broadcast, Readers
    <3>2. Counts(stream.buf, stream.seen, hub.count)
      BY <2>2 DEF StreamInv, Counts
    <3>3. Counts(Append(stream.buf, hub.count + 1), stream.seen, hub.count + 1)
      BY <1>0, <3>2, AppendCounts
    <3> QED
      BY <2>1, <3>1, <3>3 DEF StreamInv, Counts
  <2>3. CASE ~(stream.open /\ Len(stream.buf) < StreamSize)
    <3>1. ~stream'.open
      BY <1>0, <2>1, <2>3 DEF Broadcast, Readers
    <3> QED
      BY <3>1 DEF StreamInv
  <2> QED
    BY <2>2, <2>3
<1>4. CASE StreamOpens
  <2>1. stream'.buf = <<>> /\ stream'.seen = hub.count /\ hub' = hub
    BY <1>4 DEF StreamOpens
  <2> QED
    BY <1>0, <2>1 DEF StreamInv
<1>5. CASE StreamReads
  <2>1. /\ stream.buf # <<>> /\ hub' = hub
        /\ stream' = [stream EXCEPT !.buf = Tail(stream.buf), !.seen = Head(stream.buf)]
    BY <1>5 DEF StreamReads
  <2>2. /\ stream'.buf = Tail(stream.buf) /\ stream'.seen = Head(stream.buf)
        /\ stream'.open = stream.open
    BY <1>0, <2>1 DEF Readers
  <2>3. ASSUME stream.open
        PROVE  Counts(Tail(stream.buf), Head(stream.buf), hub.count)
    <3>1. Counts(stream.buf, stream.seen, hub.count)
      BY <2>3 DEF StreamInv, Counts
    <3> QED
      BY <1>0, <2>1, <3>1, TailCounts
  <2> QED
    BY <2>1, <2>2, <2>3 DEF StreamInv, Counts
<1> QED
  BY <1>1, <1>2, <1>3, <1>4, <1>5, HubKinds

\* What waits for a subscriber of the Runtime is its newest status.
LEMMA FeedStep ==
  ASSUME EventTypes, HolderInv, FeedCurrent, EventsNext
  PROVE  FeedCurrent'
<1>0. feed \in Readers /\ status \in Statuses /\ status.rev + 1 \in Nat
  BY DEF EventTypes, Statuses
<1>p. ASSUME NEW st \in Statuses, Publish(st)
      PROVE  FeedCurrent'
  <2>1. status'.rev = status.rev + 1
    BY <1>0, <1>p DEF Publish, Statuses
  <2>2. feed' = IF feed.open THEN [feed EXCEPT !.buf = <<status.rev + 1>>] ELSE feed
    BY <1>0, <1>p DEF Publish, Statuses
  <2>3. feed'.open => feed'.buf = <<status'.rev>>
    BY <1>0, <2>1, <2>2 DEF Readers
  <2>4. feed'.open => feed'.buf # <<>> /\ Head(feed'.buf) = status'.rev
    BY <2>3
  <2> QED
    BY <2>4 DEF FeedCurrent
<1>1. CASE RuntimeObserves /\ ~Stale
  <2>1. Publish(Shows(status))
    BY <1>1 DEF RuntimeObserves
  <2>2. turn.kind \in Kinds
    BY <1>1 DEF RuntimeObserves, HolderInv
  <2>3. Shows(status) \in Statuses
    <3>1. lock.saw \in Nat /\ status.session \in Nat /\ status.rev \in Nat
      BY <1>0 DEF EventTypes, Holders, Statuses
    <3> QED
      BY <1>0, <2>2, <3>1 DEF Shows, Statuses, Kinds
  <2> QED
    BY <1>p, <2>1, <2>3
<1>2. CASE ConnectReady
  <2>1. lock.saw \in Nat
    BY DEF EventTypes, Holders
  <2>2. [status EXCEPT !.state = "ready", !.session = lock.saw] \in Statuses
    BY <1>0, <2>1 DEF Statuses
  <2> QED
    BY <1>2, <1>p, <2>2 DEF ConnectReady
<1>3. CASE RuntimeClose
  <2>1. [status EXCEPT !.state = "closed"] \in Statuses
    BY <1>0 DEF Statuses
  <2> QED
    BY <1>3, <1>p, <2>1 DEF RuntimeClose
<1>4. CASE Subscribe
  <2>1. feed'.buf = <<status.rev>> /\ status' = status
    BY <1>4 DEF Subscribe
  <2> QED
    BY <2>1 DEF FeedCurrent
<1>5. CASE FeedReads
  <2>1. /\ feed'.buf = <<>> /\ feed'.seen = Head(feed.buf) /\ feed'.open = feed.open
        /\ feed.buf # <<>> /\ status' = status
    BY <1>0, <1>5 DEF FeedReads, Readers
  <2> QED
    BY <2>1 DEF FeedCurrent
<1>6. CASE ~(RuntimeObserves /\ ~Stale) /\ ~ConnectReady /\ ~RuntimeClose /\ ~Subscribe /\ ~FeedReads
  <2>1. UNCHANGED <<status, feed>>
    BY <1>6 DEF EventsNext, Steps, Acquisition, Drainer, Connecting, CredentialLeads, ForcedLeads,
      LeaderLeaves, Restores, BeginFails, LoginStarts, LoginRestarts, LoginEnds, AcqEnds,
      FinishPublishes, FinishFails, FinishSilently, Forget, InvalidateIfCurrent, ProviderClose,
      Dequeue, HubObserves, RuntimeLooks, RuntimeObserves, RuntimeIgnores, StreamOpens,
      StreamReads, ConnectGiven, ConnectLooks, ProviderOnly, runtime
  <2> QED
    BY <2>1 DEF FeedCurrent
<1> QED
  BY <1>1, <1>2, <1>3, <1>4, <1>5, <1>6

-----------------------------------------------------------------------------
(* The invariant of SessionEvents and what follows from it *)

LEMMA EventsInitial == EventsInit => EventsInv
<1> SUFFICES ASSUME EventsInit PROVE EventsInv
  OBVIOUS
<1> USE DEF EventsInit
<1>0. \A S : <<>> \in Seq(S) /\ Len(<<>>) = 0
  BY EmptySeq
<1>1. EventTypes
  <2>1. acq \in Acqs
    BY DEF NoAcq, Acqs
  <2>2. queue \in Seq(Events) /\ turn \in Turns
    BY <1>0 DEF Rest, Turns
  <2>3. hub \in Panels /\ status \in Statuses /\ lock \in Holders
    BY DEF Panels, Statuses, Holders, Unlocked
  <2>4. stream \in Readers /\ feed \in Readers
    BY <1>0 DEF Readers
  <2> QED
    BY <2>1, <2>2, <2>3, <2>4 DEF EventTypes
<1>2. EventsBounded
  BY <1>0, EventsAssumption DEF EventsBounded, NoAcq, Rest, Unlocked
<1>3. AcquisitionInv /\ NewestInv /\ HolderInv /\ StatusInv
  BY DEF AcquisitionInv, NewestInv, HolderInv, StatusInv, Pending, Rest, Unlocked
<1>4. HubInv /\ HubTold
  <2>1. Len(queue) = 0 /\ hub.user = 0 /\ hub.active = FALSE /\ ~hub.acquiring /\ hub.gen = 0
    BY <1>0
  <2>2. queue = <<>> /\ turn.at = "rest" /\ turn.kind = "none" /\ cur = 0
    BY DEF Rest
  <2> HIDE DEF EventsInit
  <2>3. hub.active = (hub.user # 0)
    BY <2>1
  <2>4. HubInv
    BY <2>1, <2>2, <2>3 DEF HubInv
  <2>5. HubTold
    BY <2>1, <2>2 DEF HubTold
  <2> QED
    BY <2>4, <2>5
<1>5. StreamInv /\ FeedCurrent
  BY DEF StreamInv, FeedCurrent
<1> QED
  BY <1>1, <1>2, <1>3, <1>4, <1>5 DEF EventsInv

LEMMA EventsStutter == EventsInv /\ UNCHANGED eventsVars => EventsInv'
<1> SUFFICES ASSUME EventsInv, UNCHANGED eventsVars PROVE EventsInv'
  OBVIOUS
<1> USE DEF eventsVars, provider, hubs, runtime, EventsInv
<1>1. EventTypes' /\ EventsBounded' /\ AcquisitionInv'
  BY DEF EventTypes, EventsBounded, AcquisitionInv
<1>2. NewestInv' /\ HolderInv' /\ StatusInv'
  BY DEF NewestInv, HolderInv, StatusInv, Pending, Newest
<1>3. HubInv' /\ (MaxQueue > 1 => HubTold')
  BY DEF HubInv, HubTold, Newest
<1>4. StreamInv' /\ FeedCurrent'
  BY DEF StreamInv, FeedCurrent
<1> QED
  BY <1>1, <1>2, <1>3, <1>4

\* The inductive invariant: the newest event on its way tells the truth, and
\* without one on its way the status, the Hub and the readers do.
THEOREM EventsInvariant == EventsSpec => []EventsInv
<1>1. EventsInv /\ [EventsNext]_eventsVars => EventsInv'
  <2>1. ASSUME EventsInv, EventsNext PROVE EventsInv'
    <3>1. EventTypes' /\ EventsBounded'
      BY <2>1, TypedStep DEF EventsInv
    <3>2. AcquisitionInv' /\ NewestInv' /\ HolderInv' /\ StatusInv'
      BY <2>1, AcquisitionStep, NewestStep, HolderStep, StatusStep DEF EventsInv
    <3>3. HubInv' /\ StreamInv' /\ FeedCurrent'
      BY <2>1, HubStep, StreamStep, FeedStep DEF EventsInv
    <3>4. MaxQueue > 1 => HubTold'
      BY <2>1, HubToldStep DEF EventsInv
    <3> QED
      BY <3>1, <3>2, <3>3, <3>4 DEF EventsInv
  <2> QED
    BY <2>1, EventsStutter
<1> QED
  BY <1>1, EventsInitial, PTL DEF EventsSpec

\* StatusAgrees: once its events are delivered the Runtime (OnSessionEvent,
\* Connect) is ready exactly while the provider serves a session, and names it.
THEOREM StatusIsTrue == EventsSpec => []StatusAgrees
<1>1. EventsInv => StatusAgrees
  BY DEF EventsInv, StatusInv, StatusAgrees, Drained, Pending, Rest
<1> QED
  BY <1>1, EventsInvariant, PTL

\* PanelAgrees: with room for two events or more, as in the code's 256, the panel
\* (Hub.OnSessionEvent) ends up with the session that is served and is never
\* left "connecting", whatever the queue had to drop.
THEOREM PanelIsTrue ==
  ASSUME MaxQueue > 1
  PROVE  EventsSpec => []PanelAgrees
<1>1. EventsInv => PanelAgrees
  <2> SUFFICES ASSUME EventsInv, mode = "panel", Drained, acq = NoAcq
               PROVE  hub.active = (cur # 0) /\ hub.user = cur /\ ~hub.acquiring
    BY DEF PanelAgrees
  <2>1. hub.user = cur /\ ~hub.acquiring
    BY DEF EventsInv, HubTold, Drained, Rest
  <2>2. hub.active = (hub.user # 0)
    BY DEF EventsInv, HubInv
  <2> QED
    BY <2>1, <2>2
<1> QED
  BY <1>1, EventsInvariant, PTL

\* ReadersCurrent: a panel stream that stays open (Hub.Subscribe,
\* broadcastLocked) misses no snapshot, and a subscriber of the Runtime
\* (publishLocked) has its newest status or finds it waiting.
THEOREM ReadersAreCurrent == EventsSpec => []ReadersCurrent
<1>1. EventsInv => ReadersCurrent
  <2> SUFFICES ASSUME EventsInv PROVE ReadersCurrent
    OBVIOUS
  <2>1. EventsTyped
    <3>1. /\ cur \in {0, issued} /\ issued \in Nat /\ rev \in Nat /\ closed \in BOOLEAN
          /\ acq \in Acqs /\ turn \in Turns /\ hub \in Panels /\ status \in Statuses
          /\ shut \in BOOLEAN /\ lock \in Holders /\ conn \in Nat
      BY DEF EventsInv, EventTypes
    <3>2. DOMAIN acq = DOMAIN NoAcq
      BY <3>1 DEF Acqs, NoAcq
    <3>3. acq.phase \in {"none", "begun", "login", "ended"} /\ acq.rev \in 0..rev
      BY <3>1 DEF EventsInv, EventsBounded, Acqs
    <3>4. hub.gen \in 0..issued /\ status.session \in 0..issued /\ conn \in 0..issued
      BY <3>1 DEF EventsInv, EventsBounded, Panels, Statuses
    <3>5. /\ turn.at \in {"rest", "hub", "runtime"}
          /\ status.state \in {"idle", "authenticating", "ready", "failed", "closed"}
          /\ lock.by \in {"nobody", "observer", "connect"}
      BY <3>1 DEF Turns, Statuses, Holders
    <3> QED
      BY <3>1, <3>2, <3>3, <3>4, <3>5 DEF EventsTyped, EventsInv, EventsBounded, HubInv
  <2>2. StreamCurrent
    <3>1. stream.buf \in Seq(Nat) /\ stream.seen \in Nat
      BY DEF EventsInv, EventTypes, Readers
    <3>2. stream.buf = <<>> => Len(stream.buf) = 0
      OBVIOUS
    <3> QED
      BY <3>1, <3>2 DEF EventsInv, StreamInv, StreamCurrent
  <2> QED
    BY <2>1, <2>2 DEF EventsInv, ReadersCurrent
<1> QED
  BY <1>1, EventsInvariant, PTL

=============================================================================
