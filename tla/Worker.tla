------------------------------- MODULE Worker -------------------------------
(***************************************************************************)
(* One run of the worker program on the node it verifies: configuration,   *)
(* client, then the checks one after the other under a context that ends   *)
(* at a deadline or after a signal, and the code it exits with.  The code  *)
(* is what the Job, and through it the controller, learns of the node.     *)
(***************************************************************************)
EXTENDS Naturals

CONSTANTS
  Domains,           \* dnsTestDomains, by their number
  CheckTimeout,      \* checkTimeoutSeconds
  DiscoveryTimeout,  \* what the client library allows the version request
  RunTimeout,        \* the five minutes of the context in main.go
  MaxBreaks          \* bound: things that worked on the node and broke

\* WorkerConfig.Validate refuses no domain and a timeout below a second.
ASSUME DomainsAssumption == Domains \in Nat \ {0}
ASSUME TimeoutsAssumption ==
  /\ CheckTimeout \in Nat \ {0}
  /\ DiscoveryTimeout \in Nat \ {0}
  /\ RunTimeout \in Nat \ {0}
ASSUME BreaksAssumption == MaxBreaks \in Nat

VARIABLES
  stage,     \* where run() is: reading the configuration, or a request
  domain,    \* the domain being looked up, 0 outside the DNS check
  dryRun,    \* dryRun of the configuration file, until the client is created
  client,    \* a clientset was created
  signal,    \* sigChan holds a signal the goroutine has not received
  ctx,       \* the context of the checks
  sentLive,  \* the request under way was sent before the context was over
  elapsed,   \* time since the check began
  total,     \* time for which the context has been live
  exit,      \* the exit code
  works,     \* what works on the node
  worked,    \* what has worked at some time since the checks began
  breaks     \* breaks left

process == <<stage, domain, client, sentLive, exit>>
environment == <<works, worked, breaks>>
vars == <<process, dryRun, signal, ctx, elapsed, total, environment>>

Requests == {"dns", "api", "tcp", "service", "endpoints"}
\* What the requests depend on: each domain, and the four others.
Items == ({"dns"} \X (1 .. Domains)) \cup ((Requests \ {"dns"}) \X {0})

ExitCodes == {"success", "checks_failed", "config_error", "client_error", "killed"}

Checking == stage \in Requests
Current == <<stage, domain>>

-----------------------------------------------------------------------------
Init ==
  /\ stage = "config"
  /\ domain = 0
  /\ dryRun = FALSE
  /\ client = FALSE
  /\ signal = FALSE
  /\ ctx = "none"
  /\ sentLive = FALSE
  /\ elapsed = 0
  /\ total = 0
  /\ exit = "none"
  /\ works \in SUBSET Items
  /\ worked = {}
  /\ breaks = MaxBreaks

(* run() returns and the process exits with its code.                      *)
Exit(code) ==
  /\ stage' = "exited"
  /\ domain' = 0
  /\ exit' = code
  /\ UNCHANGED <<client, sentLive>>

Send(request, d) ==
  /\ stage' = request
  /\ domain' = d
  /\ sentLive' = (ctx = "live")
  /\ UNCHANGED <<client, exit>>

(* A request under a timeout of its own.                                   *)
Start(request, d) == Send(request, d) /\ elapsed' = 0

-----------------------------------------------------------------------------
(* Configuration and client.                                               *)

ConfigFileMissing ==
  /\ stage = "config"
  /\ Exit("client_error")
  /\ UNCHANGED <<dryRun, signal, ctx, elapsed, total, environment>>

\* The file does not parse, or Validate refuses it.
ConfigInvalid ==
  /\ stage = "config"
  /\ Exit("config_error")
  /\ UNCHANGED <<dryRun, signal, ctx, elapsed, total, environment>>

ConfigLoaded ==
  /\ stage = "config"
  /\ stage' = "client"
  /\ dryRun' \in BOOLEAN
  /\ UNCHANGED <<domain, client, sentLive, exit, signal, ctx, elapsed, total,
                 environment>>

ClientFails ==
  /\ stage = "client"
  /\ ~dryRun
  /\ Exit("client_error")
  /\ UNCHANGED <<dryRun, signal, ctx, elapsed, total, environment>>

(* CreateClient, which may return no client in a dry run (and nothing else *)
(* looks at dryRun); then the context and the first request.               *)
CreateClient ==
  /\ stage = "client"
  /\ client' \in (IF dryRun THEN BOOLEAN ELSE {TRUE})
  /\ ctx' = "live"
  /\ stage' = "dns"
  /\ domain' = 1
  /\ sentLive' = TRUE
  /\ worked' = works
  /\ dryRun' = FALSE
  /\ UNCHANGED <<exit, signal, elapsed, total, works, breaks>>

-----------------------------------------------------------------------------
(* The answers.  A request that is given the context may still answer when *)
(* the context is over, if it was sent before; one sent after fails.  A    *)
(* name in the hosts file resolves in any case.                            *)

AfterDNS == IF client THEN Start("api", 0) ELSE Start("tcp", 0)

CheckAll_FirstDomainOnly == AfterDNS

CheckAll_PastTheLast == Start("dns", domain + 1)

CheckAll == IF domain < Domains THEN Start("dns", domain + 1) ELSE AfterDNS

DomainResolved ==
  /\ stage = "dns"
  /\ Current \in works
  /\ CheckAll
  /\ UNCHANGED <<dryRun, signal, ctx, total, environment>>

(* The version request is sent without the context, which is looked at     *)
(* after the answer.                                                       *)
APIAnswered ==
  /\ stage = "api"
  /\ Current \in works
  /\ ctx = "live" /\ elapsed <= CheckTimeout
  /\ Start("tcp", 0)
  /\ UNCHANGED <<dryRun, signal, ctx, total, environment>>

AfterTCP ==
  IF client THEN Start("service", 0) ELSE Exit("success") /\ UNCHANGED elapsed

TCPConnected_WithoutContext ==
  /\ stage = "tcp"
  /\ Current \in works
  /\ AfterTCP
  /\ UNCHANGED <<dryRun, signal, ctx, total, environment>>

TCPConnected ==
  /\ stage = "tcp"
  /\ Current \in works
  /\ sentLive
  /\ AfterTCP
  /\ UNCHANGED <<dryRun, signal, ctx, total, environment>>

(* The two requests of the service check share a timeout.                  *)
ServiceFound ==
  /\ stage = "service"
  /\ Current \in works
  /\ sentLive
  /\ Send("endpoints", 0)
  /\ UNCHANGED <<dryRun, signal, ctx, elapsed, total, environment>>

EndpointsFound ==
  /\ stage = "endpoints"
  /\ Current \in works
  /\ sentLive
  /\ Exit("success")
  /\ UNCHANGED <<dryRun, signal, ctx, elapsed, total, environment>>

\* The time after which a request ends by itself.
Limit == IF stage = "api" THEN DiscoveryTimeout ELSE CheckTimeout

(* RunAllChecks returns the first error.                                   *)
CheckFailed ==
  /\ Checking
  /\ \/ Current \notin works
     \/ ctx = "over"
     \/ elapsed >= CheckTimeout
     \/ elapsed >= Limit
  /\ Exit("checks_failed")
  /\ UNCHANGED <<dryRun, signal, ctx, elapsed, total, environment>>

Answered ==
  \/ DomainResolved
  \/ APIAnswered
  \/ TCPConnected
  \/ ServiceFound
  \/ EndpointsFound
  \/ CheckFailed

-----------------------------------------------------------------------------
(* The context, time and the node.                                         *)

(* SIGTERM or SIGINT: without a handler yet, the process dies.             *)
SignalBeforeNotify ==
  /\ stage \in {"config", "client"}
  /\ Exit("killed")
  /\ UNCHANGED <<dryRun, signal, ctx, elapsed, total, environment>>

\* One that finds the context over changes nothing.
SignalArrives ==
  /\ Checking
  /\ ctx = "live"
  /\ signal' = TRUE
  /\ UNCHANGED <<process, dryRun, ctx, elapsed, total, environment>>

(* The goroutine receives one signal and cancels; later ones do nothing.   *)
CancelOnSignal ==
  /\ Checking
  /\ signal
  /\ signal' = FALSE
  /\ ctx' = "over"
  /\ UNCHANGED <<process, dryRun, elapsed, total, environment>>

(* SIGKILL: the grace period of the pod, or the node, is over.             *)
Killed ==
  /\ stage # "exited"
  /\ Exit("killed")
  /\ UNCHANGED <<dryRun, signal, ctx, elapsed, total, environment>>

DeadlineExceeded ==
  /\ Checking
  /\ ctx = "live" /\ total = RunTimeout
  /\ ctx' = "over"
  /\ UNCHANGED <<process, dryRun, signal, elapsed, total, environment>>

(* Time passes while a request waits.  A request ends no later than its    *)
(* limit, and, when it was given the context, as soon as that is over.     *)
Tick ==
  /\ Checking
  /\ elapsed < Limit
  /\ stage = "api" \/ ctx = "live"
  /\ total < RunTimeout \/ ctx = "over"
  /\ elapsed' = elapsed + 1
  /\ total' = IF ctx = "live" THEN total + 1 ELSE total
  /\ UNCHANGED <<process, dryRun, signal, ctx, environment>>

ComesUp(i) ==
  /\ Checking
  /\ i \notin works
  /\ works' = works \cup {i}
  /\ worked' = worked \cup {i}
  /\ UNCHANGED <<process, dryRun, signal, ctx, elapsed, total, breaks>>

Breaks(i) ==
  /\ Checking
  /\ breaks > 0
  /\ i \in works
  /\ works' = works \ {i}
  /\ breaks' = breaks - 1
  /\ UNCHANGED <<process, dryRun, signal, ctx, elapsed, total, worked>>

Next ==
  \/ ConfigFileMissing
  \/ ConfigInvalid
  \/ ConfigLoaded
  \/ ClientFails
  \/ CreateClient
  \/ Answered
  \/ SignalBeforeNotify
  \/ SignalArrives
  \/ CancelOnSignal
  \/ Killed
  \/ DeadlineExceeded
  \/ Tick
  \/ \E i \in Items : ComesUp(i) \/ Breaks(i)

(* Every request is answered, or ended by its timeout.                     *)
Spec == Init /\ [][Next]_vars /\ WF_vars(Answered)

-----------------------------------------------------------------------------
(* The process, its context and its timers stay within their ranges.       *)
WorkerTypeOK ==
  /\ stage \in Requests \cup {"config", "client", "exited"}
  /\ domain \in 0 .. Domains
  /\ Checking => Current \in Items
  /\ dryRun \in BOOLEAN /\ client \in BOOLEAN
  /\ signal \in BOOLEAN /\ sentLive \in BOOLEAN
  /\ ctx \in {"none", "live", "over"}
  /\ elapsed \in Nat
  /\ total \in 0 .. RunTimeout
  /\ exit \in ExitCodes \cup {"none"}
  /\ exit = "none" <=> stage # "exited"
  /\ works \subseteq Items
  /\ worked \subseteq Items
  /\ breaks \in 0 .. MaxBreaks

\* Without a client the two checks of the Kubernetes API are skipped.
Checked == IF client THEN Items
           ELSE {i \in Items : i[1] \in {"dns", "tcp"}}

(* The exit code 0, on which the controller takes the taints off the node, *)
(* is given only when everything that is checked (every domain, and with a *)
(* client the API, the service and its endpoints) worked on the node at    *)
(* some time after the checks began, however the node changed meanwhile.   *)
SuccessIsEarned == exit = "success" => Checked \subseteq worked

(* A run whose context ends, by a signal or at the deadline, before the TCP*)
(* check still exits, and never with success: an answer that comes in late *)
(* lets one check pass, but not the rest of them.                          *)
CancelledRunFails ==
  ctx = "over" /\ stage \in {"dns", "api"} ~> exit \in {"checks_failed", "killed"}
=============================================================================
