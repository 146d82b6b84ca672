---------------------------- MODULE WorkerProofs ----------------------------
(***************************************************************************)
(* Type correctness of a worker's run, and that its success is earned, for *)
(* every number of domains and every choice of the timeouts.               *)
(***************************************************************************)
EXTENDS Worker, TLAPS

(* Every domain is one of the things that may work on a node.              *)
LEMMA DomainIsItem ==
  ASSUME NEW d \in 1 .. Domains
  PROVE  <<"dns", d>> \in Items
  BY DEF Items

(* So are the subjects of the other requests.                              *)
LEMMA OtherIsItem ==
  /\ <<"api", 0>> \in Items
  /\ <<"tcp", 0>> \in Items
  /\ <<"service", 0>> \in Items
  /\ <<"endpoints", 0>> \in Items
  BY DEF Items, Requests

-----------------------------------------------------------------------------
(* The order in which the requests are sent.                               *)
Order(request) ==
  CASE request = "dns" -> 1
    [] request = "api" -> 2
    [] request = "tcp" -> 3
    [] request = "service" -> 4
    [] request = "endpoints" -> 5

(* What has been answered when a request is under way.                     *)
Done(i) ==
  \/ Order(i[1]) < Order(stage)
  \/ i[1] = "dns" /\ stage = "dns" /\ i[2] < domain

(* What has been answered has worked; only a run with a client reaches the *)
(* requests that need one.                                                 *)
EarnedInv ==
  /\ Checking => works \subseteq worked
  /\ Checking => \A i \in Checked : Done(i) => i \in worked
  /\ stage \in {"api", "service", "endpoints"} => client
  /\ SuccessIsEarned

WorkerInv == WorkerTypeOK /\ EarnedInv

(* The invariant holds before the configuration is read.                   *)
LEMMA WorkerInit == Init => WorkerInv
  <1> SUFFICES ASSUME Init PROVE WorkerInv
    OBVIOUS
  <1>1. WorkerTypeOK
    <2>1. /\ dryRun \in BOOLEAN /\ client \in BOOLEAN
          /\ signal \in BOOLEAN /\ sentLive \in BOOLEAN
      BY DEF Init
    <2>2. domain \in 0 .. Domains /\ total \in 0 .. RunTimeout /\ elapsed \in Nat
      BY TimeoutsAssumption, DomainsAssumption DEF Init
    <2>3. breaks \in 0 .. MaxBreaks
      BY BreaksAssumption DEF Init
    <2>4. works \subseteq Items /\ worked \subseteq Items
      BY DEF Init
    <2>5. ~Checking
      BY DEF Init, Checking, Requests
    <2>6. stage \in Requests \cup {"config", "client", "exited"}
      BY DEF Init
    <2>7. exit \in ExitCodes \cup {"none"} /\ (exit = "none" <=> stage # "exited")
      BY DEF Init
    <2>8. ctx \in {"none", "live", "over"}
      BY DEF Init
    <2> QED
      BY <2>1, <2>2, <2>3, <2>4, <2>5, <2>6, <2>7, <2>8 DEF WorkerTypeOK
  <1>2. EarnedInv
    BY DEF Init, EarnedInv, Checking, Requests, SuccessIsEarned
  <1> QED
    BY <1>1, <1>2 DEF WorkerInv

(* Nothing that exits goes out of its range.                               *)
LEMMA ExitTypeOK ==
  ASSUME WorkerTypeOK, NEW code \in ExitCodes, Exit(code),
         UNCHANGED <<dryRun, signal, ctx, elapsed, total, environment>>
  PROVE  WorkerTypeOK'
  <1>1. /\ dryRun' \in BOOLEAN /\ client' \in BOOLEAN
        /\ signal' \in BOOLEAN /\ sentLive' \in BOOLEAN
    BY DEF WorkerTypeOK, Exit
  <1>2. /\ ctx' \in {"none", "live", "over"} /\ elapsed' \in Nat
        /\ total' \in 0 .. RunTimeout /\ breaks' \in 0 .. MaxBreaks
        /\ works' \subseteq Items /\ worked' \subseteq Items
    BY DEF WorkerTypeOK, environment
  <1>3. domain' \in 0 .. Domains
    BY DomainsAssumption DEF Exit
  <1>4. /\ stage' \in Requests \cup {"config", "client", "exited"}
        /\ ~Checking'
    BY DEF Exit, Checking, Requests
  <1>5. exit' \in ExitCodes \cup {"none"} /\ (exit' = "none" <=> stage' # "exited")
    BY DEF Exit, ExitCodes
  <1> QED
    BY <1>1, <1>2, <1>3, <1>4, <1>5 DEF WorkerTypeOK

(* A run that exits without success keeps the invariant.                   *)
LEMMA ExitKeepsInv ==
  ASSUME WorkerInv, NEW code \in ExitCodes \ {"success"}, stage # "exited",
         Exit(code),
         UNCHANGED <<dryRun, signal, ctx, elapsed, total, environment>>
  PROVE  WorkerInv'
  <1>1. WorkerTypeOK'
    BY ExitTypeOK DEF WorkerInv
  <1>2. EarnedInv'
    BY DEF WorkerInv, EarnedInv, Exit, Checking, Requests, SuccessIsEarned, environment
  <1> QED
    BY <1>1, <1>2 DEF WorkerInv

(* A run that exits with success keeps it when only the last request was   *)
(* left.                                                                   *)
LEMMA SuccessKeepsInv ==
  ASSUME WorkerInv, Checking, Current \in works,
         stage = IF client THEN "endpoints" ELSE "tcp",
         Exit("success"),
         UNCHANGED <<dryRun, signal, ctx, elapsed, total, environment>>
  PROVE  WorkerInv'
  <1>1. WorkerTypeOK'
    BY ExitTypeOK DEF WorkerInv, ExitCodes
  <1>2. domain = 0
    BY DEF WorkerInv, WorkerTypeOK, Checking, Current, Items, Requests
  <1>3. ASSUME NEW i \in Checked
        PROVE  i \in worked
    <2>1. CASE Done(i)
      BY <1>3, <2>1 DEF WorkerInv, EarnedInv
    <2>2. CASE ~Done(i)
      <3>1. i[1] = stage /\ i[2] = 0
        BY <1>3, <2>2 DEF Done, Order, Checked, Items, Requests, WorkerInv, WorkerTypeOK
      <3>2. i = Current
        BY <1>2, <1>3, <3>1 DEF Current, Checked, Items
      <3> QED
        BY <3>2 DEF WorkerInv, EarnedInv
    <2> QED
      BY <2>1, <2>2
  <1>4. EarnedInv'
    BY <1>3 DEF Exit, EarnedInv, Checking, Requests, SuccessIsEarned, Checked,
                environment
  <1> QED
    BY <1>1, <1>4 DEF WorkerInv

(* A positive answer leads to the next request.                            *)
LEMMA SendKeepsInv ==
  ASSUME WorkerInv, Checking, Current \in works,
         NEW request \in Requests, NEW d, <<request, d>> \in Items,
         Send(request, d),
         \/ request = "dns" /\ stage = "dns" /\ d = domain + 1
         \/ request = "api" /\ stage = "dns" /\ domain = Domains /\ client
         \/ request = "tcp" /\ stage = "dns" /\ domain = Domains /\ ~client
         \/ request = "tcp" /\ stage = "api"
         \/ request = "service" /\ stage = "tcp" /\ client
         \/ request = "endpoints" /\ stage = "service",
         elapsed' \in {0, elapsed},
         UNCHANGED <<dryRun, signal, ctx, total, environment>>
  PROVE  WorkerInv'
  <1>1. d \in 0 .. Domains
    BY DomainsAssumption DEF Items
  <1>2. WorkerTypeOK'
    BY <1>1 DEF WorkerInv, WorkerTypeOK, Send, Checking, Current, Requests, environment
  <1>3. Checking' => \A i \in Checked' : Done(i)' => i \in worked'
    <2> SUFFICES ASSUME NEW i \in Checked, Done(i)'
                 PROVE  i \in worked
      BY DEF Send, Checked, environment
    <2>1. CASE Done(i)
      BY <2>1 DEF WorkerInv, EarnedInv
    <2>2. CASE ~Done(i)
      <3>1. stage = "dns" => i[2] = domain
        BY <2>2, DomainsAssumption
        DEF Done, Order, Checked, Items, Requests, Send, WorkerInv, WorkerTypeOK
      <3>2. stage # "dns" => i[2] = 0 /\ domain = 0
        BY <2>2 DEF Done, Order, Checked, Items, Requests, Send, WorkerInv,
                    WorkerTypeOK, Checking, Current
      <3>3. i[1] = stage
        BY <2>2 DEF Done, Order, Checked, Items, Requests, Send, WorkerInv,
                    WorkerTypeOK, EarnedInv
      <3>4. i = Current
        BY <3>1, <3>2, <3>3 DEF Current, Checked, Items
      <3> QED
        BY <3>4 DEF WorkerInv, EarnedInv
    <2> QED
      BY <2>1, <2>2
  <1>4. EarnedInv'
    BY <1>3 DEF WorkerInv, WorkerTypeOK, EarnedInv, Send, Checking, Requests,
                SuccessIsEarned, environment
  <1> QED
    BY <1>2, <1>4 DEF WorkerInv

-----------------------------------------------------------------------------
(* Every step keeps the invariant.                                         *)
LEMMA WorkerNext == WorkerInv /\ [Next]_vars => WorkerInv'
  <1> SUFFICES ASSUME WorkerInv, [Next]_vars PROVE WorkerInv'
    OBVIOUS
  <1>1. CASE ConfigFileMissing \/ ConfigInvalid \/ ClientFails
              \/ SignalBeforeNotify \/ Killed \/ CheckFailed
    BY <1>1, ExitKeepsInv
    DEF ConfigFileMissing, ConfigInvalid, ClientFails, SignalBeforeNotify, Killed,
        CheckFailed, ExitCodes, Checking, Requests
  <1>2. CASE ConfigLoaded
    <2>1. WorkerTypeOK'
      BY <1>2 DEF ConfigLoaded, WorkerInv, WorkerTypeOK, Checking, Requests, environment
    <2>2. EarnedInv'
      BY <1>2 DEF ConfigLoaded, WorkerInv, EarnedInv, Checking, Requests,
                  SuccessIsEarned, Checked, environment
    <2> QED
      BY <2>1, <2>2 DEF WorkerInv
  <1>3. CASE CreateClient
    <2>1. <<"dns", 1>> \in Items /\ 1 \in 0 .. Domains
      BY DomainIsItem, DomainsAssumption
    <2>2. WorkerTypeOK'
      BY <1>3, <2>1 DEF CreateClient, WorkerInv, WorkerTypeOK, Checking, Current, Requests
    <2>3. \A i \in Checked' : ~Done(i)'
      BY <1>3 DEF CreateClient, Checked, Items, Requests, Done, Order
    <2>4. exit # "success"
      BY <1>3 DEF CreateClient, WorkerInv, WorkerTypeOK
    <2>5. EarnedInv'
      BY <1>3, <2>3, <2>4 DEF CreateClient, EarnedInv, SuccessIsEarned
    <2> QED
      BY <2>2, <2>5 DEF WorkerInv
  <1>4. CASE DomainResolved
    <2>1. domain \in 1 .. Domains
      BY <1>4 DEF DomainResolved, Current, Items, Requests, WorkerInv, WorkerTypeOK
    <2>2. CASE domain < Domains
      <3>1. <<"dns", domain + 1>> \in Items
        BY <2>1, <2>2, DomainIsItem, DomainsAssumption
      <3> QED
        BY <1>4, <2>2, <3>1, SendKeepsInv
        DEF DomainResolved, CheckAll, Start, Checking, Requests
    <2>3. CASE ~(domain < Domains)
      <3>1. domain = Domains
        BY <2>1, <2>3, DomainsAssumption
      <3> QED
        BY <1>4, <2>3, <3>1, SendKeepsInv, OtherIsItem
        DEF DomainResolved, CheckAll, AfterDNS, Start, Checking, Requests
    <2> QED
      BY <2>2, <2>3
  <1>5. CASE APIAnswered
    BY <1>5, SendKeepsInv, OtherIsItem DEF APIAnswered, Start, Checking, Requests
  <1>6. CASE TCPConnected
    <2>1. CASE client
      BY <1>6, <2>1, SendKeepsInv, OtherIsItem
      DEF TCPConnected, AfterTCP, Start, Checking, Requests
    <2>2. CASE ~client
      BY <1>6, <2>2, SuccessKeepsInv DEF TCPConnected, AfterTCP, Checking, Requests
    <2> QED
      BY <2>1, <2>2
  <1>7. CASE ServiceFound
    BY <1>7, SendKeepsInv, OtherIsItem DEF ServiceFound, Checking, Requests
  <1>8. CASE EndpointsFound
    <2>1. client
      BY <1>8 DEF EndpointsFound, WorkerInv, EarnedInv
    <2> QED
      BY <1>8, <2>1, SuccessKeepsInv DEF EndpointsFound, Checking, Requests
  <1>9. CASE SignalArrives \/ CancelOnSignal \/ DeadlineExceeded \/ Tick \/ UNCHANGED vars
    <2>1. UNCHANGED <<process, dryRun, environment>>
      BY <1>9 DEF SignalArrives, CancelOnSignal, DeadlineExceeded, Tick, vars
    <2>2. signal' \in BOOLEAN
      BY <1>9
      DEF SignalArrives, CancelOnSignal, DeadlineExceeded, Tick, vars, WorkerInv,
          WorkerTypeOK
    <2>3. ctx' \in {"none", "live", "over"}
      BY <1>9
      DEF SignalArrives, CancelOnSignal, DeadlineExceeded, Tick, vars, WorkerInv,
          WorkerTypeOK
    <2>4. elapsed' \in Nat /\ total' \in 0 .. RunTimeout
      BY <1>9, TimeoutsAssumption
      DEF SignalArrives, CancelOnSignal, DeadlineExceeded, Tick, vars, WorkerInv,
          WorkerTypeOK
    <2>5. WorkerTypeOK'
      BY <2>1, <2>2, <2>3, <2>4
      DEF WorkerInv, WorkerTypeOK, process, environment, Checking, Current
    <2>6. EarnedInv'
      BY <2>1 DEF WorkerInv, EarnedInv, process, environment, Checking, Done,
                  SuccessIsEarned, Checked
    <2> QED
      BY <2>5, <2>6 DEF WorkerInv
  <1>10. ASSUME NEW i \in Items, ComesUp(i) \/ Breaks(i)
         PROVE  WorkerInv'
    <2>1. /\ UNCHANGED <<process, dryRun, signal, ctx, elapsed, total>>
          /\ works' \subseteq works \cup {i} /\ worked \subseteq worked'
          /\ i \in works' \ works => i \in worked'
          /\ worked' \subseteq Items /\ breaks' \in 0 .. MaxBreaks
      BY <1>10, BreaksAssumption DEF ComesUp, Breaks, WorkerInv, WorkerTypeOK
    <2>2. WorkerTypeOK'
      BY <2>1 DEF WorkerInv, WorkerTypeOK, process, Checking, Current
    <2>3. EarnedInv'
      BY <2>1 DEF WorkerInv, EarnedInv, process, Checking, Done, SuccessIsEarned, Checked
    <2> QED
      BY <2>2, <2>3 DEF WorkerInv
  <1> QED
    BY <1>1, <1>2, <1>3, <1>4, <1>5, <1>6, <1>7, <1>8, <1>9, <1>10
    DEF Next, Answered

(* A worker's run is type-correct, and when it exits with success all that *)
(* it checks has worked: WorkerTypeOK and SuccessIsEarned, for any number  *)
(* of domains and any timeouts.                                            *)
THEOREM SuccessEarned == Spec => [](WorkerTypeOK /\ SuccessIsEarned)
  <1>1. WorkerInv => WorkerTypeOK /\ SuccessIsEarned
    BY DEF WorkerInv, EarnedInv
  <1> QED
    BY WorkerInit, WorkerNext, <1>1, PTL DEF Spec

-----------------------------------------------------------------------------
Cancelled == ctx = "over" /\ stage \in {"dns", "api"}

(* What becomes of a cancelled run: a request sent from now on is not      *)
(* live, the answer of the API is not accepted, and a context never comes  *)
(* back to life.                                                           *)
Doomed ==
  /\ ctx = "over"
  /\ exit # "success"
  /\ \/ stage \in {"dns", "api", "exited"}
     \/ stage = "tcp" /\ ~sentLive

(* Nothing has been exited with yet while a check is under way.            *)
LEMMA CancelledIsDoomed == WorkerInv /\ Cancelled => Doomed
  BY DEF Cancelled, Doomed, WorkerInv, WorkerTypeOK

(* No answer, signal or change of the node saves a doomed run.             *)
LEMMA DoomedStays == Doomed /\ [Next]_vars => Doomed'
  <1> SUFFICES ASSUME Doomed, [Next]_vars PROVE Doomed'
    OBVIOUS
  <1> USE DEF Doomed
  <1>1. CASE ConfigFileMissing \/ ConfigInvalid \/ ConfigLoaded \/ ClientFails
              \/ CreateClient \/ SignalBeforeNotify
    BY <1>1 DEF ConfigFileMissing, ConfigInvalid, ConfigLoaded, ClientFails, CreateClient,
                SignalBeforeNotify
  <1>2. CASE CheckFailed \/ Killed
    BY <1>2 DEF CheckFailed, Killed, Exit
  <1>3. CASE DomainResolved
    BY <1>3 DEF DomainResolved, CheckAll, AfterDNS, Start, Send
  <1>4. CASE APIAnswered \/ TCPConnected \/ ServiceFound \/ EndpointsFound
    BY <1>4 DEF APIAnswered, TCPConnected, ServiceFound, EndpointsFound
  <1>5. CASE SignalArrives \/ CancelOnSignal \/ DeadlineExceeded \/ Tick
    BY <1>5 DEF SignalArrives, CancelOnSignal, DeadlineExceeded, Tick, process
  <1>6. ASSUME NEW i \in Items, ComesUp(i) \/ Breaks(i)
        PROVE  Doomed'
    BY <1>6 DEF ComesUp, Breaks, process
  <1>7. CASE UNCHANGED vars
    BY <1>7 DEF vars, process
  <1> QED
    BY <1>1, <1>2, <1>3, <1>4, <1>5, <1>6, <1>7 DEF Next, Answered

(* The safety half of CancelledRunFails: a run whose context is over before*)
(* the TCP check begins never exits with success, whatever answers are     *)
(* still on their way.                                                     *)
THEOREM CancelledRunsNeverSucceed == Spec => [](Cancelled => [](exit # "success"))
  <1>1. Doomed => exit # "success"
    BY DEF Doomed
  <1> QED
    BY WorkerInit, WorkerNext, CancelledIsDoomed, DoomedStays, <1>1, PTL DEF Spec
=============================================================================
