---------------------------- MODULE HttpTransport -----------------------------
(***************************************************************************)
(* What the data planes send and receive with: the cached HTTP clients,    *)
(* the waits between retries, and the servers.                             *)
(***************************************************************************)
EXTENDS Optional, Integers, Sequences, FiniteSetsExt

-----------------------------------------------------------------------------
(***************************************************************************)
(* The cache of HTTP clients (pkg/kncloudevents/http_client.go), keyed by  *)
(* URL: a client keeps the CA certificates of the address for which it was *)
(* created.  The broker filter keeps it up to date from the Triggers that  *)
(* its informer sees, while requests that are already dispatched look up   *)
(* the client of the address they read before.  Two Triggers may share a   *)
(* subscriber.                                                             *)
(***************************************************************************)

CONSTANTS
  Subscribers,    \* The URLs of subscribers.
  TriggerNames,   \* The Triggers.
  MaxCertChanges  \* Bound on new certificates, on new and deleted Triggers.

VARIABLES
  certs,       \* The certificates of each URL: how often they were changed.
  addressed,   \* The Triggers: the address in the status, url and certs.
  told,        \* What the informer's handlers still have to be told.
  clients,     \* The client of each URL: the certificates it trusts.
  configured,  \* Was ConfigureConnectionArgs called?
  dispatching, \* The address that a dispatch has read, if one is under way.
  certChanges

clientVars == <<certs, addressed, told, clients, configured, dispatching, certChanges>>

ClientsInit ==
  /\ certs = [u \in Subscribers |-> 0]
  /\ addressed = [t \in TriggerNames |-> None]
  /\ told = <<>>
  /\ clients = [u \in Subscribers |-> None]
  /\ configured = FALSE
  /\ dispatching = None
  /\ certChanges = 0

CertChange ==
  /\ certChanges < MaxCertChanges
  /\ certChanges' = certChanges + 1

(* The subscriber gets a new certificate, signed by a new CA.              *)
Rotate(u) ==
  /\ CertChange
  /\ certs' = [certs EXCEPT ![u] = @ + 1]
  /\ UNCHANGED <<addressed, told, clients, configured, dispatching>>

Address(u) == [url |-> u, certs |-> certs[u]]

SetAddress(t, address) ==
  /\ addressed' = [addressed EXCEPT ![t] = address]
  /\ told' = Append(told, [what |-> "update", address |-> address])
  /\ UNCHANGED <<certs, clients, configured, dispatching>>

(* A Trigger is new or gets another subscriber.                            *)
Subscribe(t) ==
  /\ CertChange
  /\ \E u \in Subscribers :
       /\ addressed[t] # None => addressed[t].url # u
       /\ SetAddress(t, Address(u))

(* The reconciler finds other certificates at the subscriber of a Trigger. *)
Resolve(t) ==
  /\ addressed[t] # None
  /\ addressed[t] # Address(addressed[t].url)
  /\ SetAddress(t, Address(addressed[t].url))
  /\ UNCHANGED certChanges

DeleteTrigger(t) ==
  /\ CertChange
  /\ addressed[t] # None
  /\ addressed' = [addressed EXCEPT ![t] = None]
  /\ told' = Append(told, [what |-> "delete", address |-> addressed[t]])
  /\ UNCHANGED <<certs, clients, configured, dispatching>>

Present == {t \in TriggerNames : addressed[t] # None}

(* The informer's resync tells the handlers of every Trigger again.        *)
Resync ==
  /\ told = <<>>
  /\ told' = FoldSet(LAMBDA a, calls : Append(calls, [what |-> "update", address |-> a]),
                     <<>>, {addressed[t] : t \in Present})
  /\ UNCHANGED <<certs, addressed, clients, configured, dispatching, certChanges>>

(* NewHandler: the connection arguments come before any client.            *)
ConfigureConnectionArgs ==
  /\ ~configured
  /\ configured' = TRUE
  /\ clients' = [u \in Subscribers |-> None]
  /\ UNCHANGED <<certs, addressed, told, dispatching, certChanges>>

createNewClient(address) == address.certs

AddOrUpdateAddressableHandlerOnce(address) ==
  clients' = IF clients[address.url] # None THEN clients
             ELSE [clients EXCEPT ![address.url] = createNewClient(address)]

AddOrUpdateAddressableHandler(address) ==
  clients' = [clients EXCEPT ![address.url] = createNewClient(address)]

DeleteAddressableHandler(address) ==
  clients' = [clients EXCEPT ![address.url] = None]

(* The handlers of the informer, one notification after the other.         *)
Handle ==
  /\ configured
  /\ told # <<>>
  /\ IF Head(told).what = "update" THEN AddOrUpdateAddressableHandler(Head(told).address)
     ELSE DeleteAddressableHandler(Head(told).address)
  /\ told' = Tail(told)
  /\ UNCHANGED <<certs, addressed, configured, dispatching, certChanges>>

(* A dispatch reads the Trigger from the lister ...                        *)
ReadTrigger(t) ==
  /\ configured
  /\ dispatching = None
  /\ addressed[t] # None
  /\ dispatching' = addressed[t]
  /\ UNCHANGED <<certs, addressed, told, clients, configured, certChanges>>

(* ... and later looks up the client, which it creates when there is none. *)
getClientForAddressable ==
  /\ dispatching # None
  /\ clients' = IF clients[dispatching.url] # None THEN clients
                ELSE [clients EXCEPT ![dispatching.url] = createNewClient(dispatching)]
  /\ dispatching' = None
  /\ UNCHANGED <<certs, addressed, told, configured, certChanges>>

ClientsNext ==
  \/ \E u \in Subscribers : Rotate(u)
  \/ \E t \in TriggerNames :
       Subscribe(t) \/ Resolve(t) \/ DeleteTrigger(t) \/ ReadTrigger(t)
  \/ Resync
  \/ ConfigureConnectionArgs
  \/ Handle
  \/ getClientForAddressable

(* The reconciler resolves again after a change, the handlers are called,  *)
(* the informer resyncs, and a dispatch goes on.              *)
ClientsProgress == ConfigureConnectionArgs \/ \E t \in TriggerNames : Resolve(t)

ClientsSpec ==
  /\ ClientsInit /\ [][ClientsNext]_clientVars
  /\ WF_clientVars(ClientsProgress)
  /\ WF_clientVars(Resync)
  /\ WF_clientVars(Handle)
  /\ WF_clientVars(getClientForAddressable)

-----------------------------------------------------------------------------
Used == {addressed[t].url : t \in Present}

\* The clients of the subscribers of all Triggers trust the current
\* certificates.
CaughtUp == \A u \in Used : clients[u] \in {None, certs[u]}

-----------------------------------------------------------------------------
(***************************************************************************)
(* How long a delivery waits before it tries again                         *)
(* (pkg/kncloudevents/retries.go): the linear and the exponential backoff  *)
(* of a delivery specification, with its limit, and the Retry-After header *)
(* of an answer.  Durations are signed integers of a fixed width: the      *)
(* largest is MaxDuration, and products wrap.                              *)
(***************************************************************************)

CONSTANTS
  MaxDuration,  \* maxBackoffDuration, the largest duration: 2^(w-1) - 1.
  Day, Second,  \* A day and a second, as durations.
  BackoffPeriods,      \* The periods that a specification may name, beyond MaxDuration too.
  RetryAfters,  \* The numbers of seconds in Retry-After headers.
  MaxAttempts   \* Bound on the number of attempts.

VARIABLES
  delivery,  \* The delivery specification.
  retryConfig,    \* RetryConfigFromDeliverySpec of it.
  attempt,   \* The number of the attempt that failed last.
  answer,    \* Its answer: is it a 429 or 503, and its Retry-After header.
  wait       \* The wait that follows it.

backoffVars == <<delivery, retryConfig, attempt, answer, wait>>

(* The value that an integer of the width of a duration takes.             *)
Wrap(n) == LET w == 2 * (MaxDuration + 1)
           IN  ((n + MaxDuration + 1) % w) - (MaxDuration + 1)

saturatingPeriodDurationByDays(p) ==
  IF p \div Day > MaxDuration \div Day THEN MaxDuration ELSE Wrap(p)

(* The approximate days exclude what is far too long; what is too long by  *)
(* less than a day turns negative.                                         *)
saturatingPeriodDuration(p) ==
  IF p \div Day > MaxDuration \div Day THEN MaxDuration
  ELSE IF Wrap(p) < 0 THEN MaxDuration ELSE Wrap(p)

Limit(max) == IF max = None THEN MaxDuration ELSE max

linearBackoff(delay, n, max) ==
  IF delay <= 0 THEN 0
  ELSE IF delay >= Limit(max) THEN Limit(max)
  ELSE IF n >= Limit(max) \div delay THEN Limit(max)
  ELSE Wrap(delay * (n + 1))

(* The doubling of a duration, n times; past half the limit it stays.      *)
Doubled(delay, limit) ==
  LET f[n \in Nat] == IF n = 0 THEN delay
                      ELSE IF f[n - 1] > limit \div 2 THEN limit ELSE Wrap(2 * f[n - 1])
  IN  f

exponentialBackoff(delay, n, max) ==
  IF delay <= 0 THEN 0
  ELSE IF delay >= Limit(max) THEN Limit(max)
  ELSE Doubled(delay, Limit(max))[n]

(* noRetries waits 0; without a policy or a delay that stays.              *)
RetryConfigFromDeliverySpec(spec) ==
  [policy        |-> IF spec.delay = None THEN None ELSE spec.policy,
   delay         |-> IF spec.delay = None THEN 0 ELSE saturatingPeriodDuration(spec.delay),
   max           |-> IF spec.max = None THEN None ELSE saturatingPeriodDuration(spec.max),
   retryAfterMax |-> IF spec.retryAfterMax = None THEN None ELSE Wrap(spec.retryAfterMax)]

ConfiguredBackoff(c, n) ==
  CASE c.policy = "linear" -> linearBackoff(c.delay, n, c.max)
    [] c.policy = "exponential" -> exponentialBackoff(c.delay, n, c.max)
    [] c.policy = None -> 0

(* Seconds are multiplied without a check; a header that is no number and  *)
(* no date is as none.                                                     *)
parseRetryAfterDuration(header) == IF header = None THEN 0 ELSE Wrap(header * Second)

RetryAfter(c, resp) ==
  IF c.retryAfterMax = None \/ ~resp.busy THEN 0
  ELSE Min({c.retryAfterMax, parseRetryAfterDuration(resp.header)})

generateBackoffFn(c, n, resp) ==
  IF RetryAfter(c, resp) > ConfiguredBackoff(c, n) THEN RetryAfter(c, resp)
  ELSE ConfiguredBackoff(c, n)

NoAnswer == [busy |-> FALSE, header |-> None]

BackoffInit ==
  /\ delivery \in [policy : {"linear", "exponential", None}, delay : BackoffPeriods \cup {None},
                   max : (BackoffPeriods \ {0}) \cup {None}, retryAfterMax : BackoffPeriods \cup {None}]
  /\ retryConfig = RetryConfigFromDeliverySpec(delivery)
  /\ attempt = -1
  /\ answer = NoAnswer
  /\ wait = 0

(* An attempt fails, and its answer decides on the wait.                   *)
Attempt ==
  /\ attempt < MaxAttempts
  /\ attempt' = attempt + 1
  /\ answer' \in {NoAnswer} \cup [busy : {TRUE}, header : RetryAfters \cup {None}]
  /\ wait' = generateBackoffFn(retryConfig, attempt', answer')
  /\ UNCHANGED <<delivery, retryConfig>>

GivesUp == attempt = MaxAttempts /\ UNCHANGED backoffVars

BackoffNext == Attempt \/ GivesUp

BackoffSpec == BackoffInit /\ [][BackoffNext]_backoffVars

-----------------------------------------------------------------------------
(* The wait that the specification asks for, in integers without a width.  *)
Asked(spec, n) ==
  LET limit == Min({MaxDuration} \cup ({spec.max} \ {None}))
  IN  IF spec.delay = None \/ spec.policy = None THEN 0
      ELSE Min({limit, spec.delay * (IF spec.policy = "linear" THEN n + 1 ELSE 2^n)})

(* However long the delay, the limit and the number of attempts, a wait is *)
(* what the specification asks for, cut at its limit or at the longest     *)
(* duration: no product or doubling overflows into a short or a negative   *)
(* wait.  Retry-After only makes it longer, up to its own limit.           *)
WaitsAsAsked ==
  attempt >= 0 =>
    /\ wait >= Asked(delivery, attempt)
    /\ wait <= Max({Asked(delivery, attempt)} \cup
                   (IF delivery.retryAfterMax = None \/ ~answer.busy THEN {}
                    ELSE {delivery.retryAfterMax}))

-----------------------------------------------------------------------------
(***************************************************************************)
(* The HTTP and the HTTPS server of a data plane process: ServerManager    *)
(* (pkg/eventingtls/servermanager.go) runs two HTTPEventReceivers          *)
(* (pkg/kncloudevents/event_receiver.go) that drain when the process is    *)
(* told to stop, and the HTTPS server takes its certificate from a Secret  *)
(* that an informer follows (pkg/eventingtls/eventingtls.go).              *)
(***************************************************************************)

CONSTANTS
  MaxOpen,          \* Bound on the requests that one server serves at once.
  MaxServerChanges  \* Bound on changes of the feature and of the Secret.

Servers == {"http", "https"}

VARIABLES
  encryption,  \* The transport-encryption feature in the feature store.
  secret,      \* The Secret's contents in the API server, one per write.
  secretSeen,  \* How many of the writes the informer's handler was told of.
  certificate, \* certHolder: the write that it holds a key pair of.
  informed,    \* Were the informers started?
  server,      \* How far StartListen of each server is.
  open,        \* The requests that each server is serving.
  stop,        \* Was the context of the process cancelled?
  errCh,       \* The servers whose StartListen ended with an error.
  process,        \* "starting", "serving", "returned" or "failed".
  serverChanges

serverVars == <<encryption, secret, secretSeen, certificate, informed, server, open,
                stop, errCh, process, serverChanges>>

UnchangedCertificate == UNCHANGED <<secret, secretSeen, certificate, informed>>

UnchangedServers == UNCHANGED <<server, open, stop, errCh, process>>

ServersInit ==
  /\ encryption \in {"disabled", "permissive", "strict"}
  /\ secret = <<"absent">>
  /\ secretSeen = 0
  /\ certificate = None
  /\ informed = FALSE
  /\ server = [s \in Servers |-> "new"]
  /\ open = [s \in Servers |-> 0]
  /\ stop = FALSE
  /\ errCh = {}
  /\ process = "starting"
  /\ serverChanges = 0

ServerChange ==
  /\ process \in {"starting", "serving"}
  /\ serverChanges < MaxServerChanges
  /\ serverChanges' = serverChanges + 1

ServersFeatureChanges ==
  /\ ServerChange
  /\ encryption' \in {"disabled", "permissive", "strict"} \ {encryption}
  /\ UnchangedCertificate /\ UnchangedServers

(* cert-manager writes the Secret, or someone writes it without a key pair *)
(* or deletes it.                                                          *)
WriteSecret ==
  /\ ServerChange
  /\ \E c \in {"pair", "broken", "absent"} : secret' = Append(secret, c)
  /\ UNCHANGED <<encryption, secretSeen, certificate, informed>> /\ UnchangedServers

(* What store keeps of the write n of the Secret.                          *)
Stored(n) == IF secret[n] = "pair" THEN n ELSE certificate

(* GetCertificateFromSecret, as the process starts: the lister is empty    *)
(* and the first value comes from the API server.                          *)
GetCertificateFromSecret ==
  /\ process = "starting" /\ ~informed
  /\ certificate' = Stored(Len(secret))
  /\ informed' = TRUE
  /\ secretSeen' = Len(secret) - 1
  /\ UNCHANGED <<encryption, secret, serverChanges>> /\ UnchangedServers

SecretHandlerAddOnly ==
  /\ informed
  /\ secretSeen < Len(secret)
  /\ secretSeen' = secretSeen + 1
  /\ certificate' = IF secretSeen > 0 /\ secret[secretSeen] # "absent" THEN certificate
                    ELSE Stored(secretSeen + 1)
  /\ UNCHANGED <<encryption, secret, informed, serverChanges>> /\ UnchangedServers

(* The informer tells of the writes in their order; a deletion keeps the   *)
(* certificate.                                                            *)
SecretHandler ==
  /\ informed
  /\ secretSeen < Len(secret)
  /\ secretSeen' = secretSeen + 1
  /\ certificate' = Stored(secretSeen + 1)
  /\ UNCHANGED <<encryption, secret, informed, serverChanges>> /\ UnchangedServers

(* StartServers: the two receivers start to listen, each in a goroutine.   *)
StartServers ==
  /\ process = "starting" /\ informed
  /\ process' = "serving"
  /\ UNCHANGED <<encryption, server, open, stop, errCh, serverChanges>>
  /\ UnchangedCertificate

Listen(s) ==
  /\ process = "serving" /\ server[s] = "new"
  /\ \/ server' = [server EXCEPT ![s] = "listening"] /\ UNCHANGED errCh
     \/ server' = [server EXCEPT ![s] = "down"] /\ errCh' = errCh \cup {s}
  /\ UNCHANGED <<encryption, open, stop, process, serverChanges>>
  /\ UnchangedCertificate

(* httpHandler and httpsHandler answer 404 when the feature excludes them, *)
(* which ends the request at once.                                         *)
Excluded(s) == encryption = IF s = "http" THEN "strict" ELSE "disabled"

Request(s) ==
  /\ server[s] \in {"listening", "draining"} /\ process = "serving"
  /\ open[s] < MaxOpen
  /\ ~Excluded(s)
  /\ open' = [open EXCEPT ![s] = @ + 1]
  /\ UNCHANGED <<encryption, server, stop, errCh, process, serverChanges>>
  /\ UnchangedCertificate

Respond(s) ==
  /\ open[s] > 0 /\ process = "serving"
  /\ open' = [open EXCEPT ![s] = @ - 1]
  /\ UNCHANGED <<encryption, server, stop, errCh, process, serverChanges>>
  /\ UnchangedCertificate

(* SIGTERM.                                                                *)
Terminate ==
  /\ ~stop /\ process \in {"starting", "serving"}
  /\ stop' = TRUE
  /\ UNCHANGED <<encryption, server, open, errCh, process, serverChanges>>
  /\ UnchangedCertificate

(* The listener breaks and Serve returns its error.                        *)
ServeFails(s) ==
  /\ server[s] = "listening" /\ process = "serving"
  /\ server' = [server EXCEPT ![s] = "down"]
  /\ errCh' = errCh \cup {s}
  /\ UNCHANGED <<encryption, open, stop, process, serverChanges>>
  /\ UnchangedCertificate

(* StartListen once its context is done: it drains until no request came   *)
(* for a quiet period, shuts down, which waits for the requests that are   *)
(* open, and returns.  A shutdown that times out is an error.              *)
Drain(s) ==
  /\ process = "serving"
  /\ \/ /\ server[s] = "listening" /\ stop
        /\ server' = [server EXCEPT ![s] = "draining"]
        /\ UNCHANGED errCh
     \/ /\ server[s] = "draining"
        /\ server' = [server EXCEPT ![s] = "closing"]
        /\ UNCHANGED errCh
     \/ /\ server[s] = "closing" /\ open[s] = 0
        /\ server' = [server EXCEPT ![s] = "down"]
        /\ UNCHANGED errCh
     \/ /\ server[s] = "closing" /\ open[s] > 0
        /\ server' = [server EXCEPT ![s] = "down"]
        /\ errCh' = errCh \cup {s}
  /\ UNCHANGED <<encryption, open, stop, process, serverChanges>>
  /\ UnchangedCertificate

ReturnOnDone ==
  /\ process = "serving" /\ stop
  /\ process' = "returned"

(* StartServers returns with the first error, or as soon as the context is *)
(* done, and the process ends with the requests that are open.             *)
StartServersReturns ==
  /\ \/ ReturnOnDone
     \/ process = "serving" /\ errCh # {} /\ process' = "failed"
  /\ open' = [s \in Servers |-> 0]
  /\ UNCHANGED <<encryption, server, stop, errCh, serverChanges>>
  /\ UnchangedCertificate

ProcessEnded == process \in {"returned", "failed"} /\ UNCHANGED serverVars

ServersNext ==
  \/ ServersFeatureChanges \/ WriteSecret \/ GetCertificateFromSecret \/ SecretHandler
  \/ StartServers \/ Terminate \/ StartServersReturns \/ ProcessEnded
  \/ \E s \in Servers :
       Listen(s) \/ Request(s) \/ Respond(s) \/ ServeFails(s) \/ Drain(s)

ServersSpec == ServersInit /\ [][ServersNext]_serverVars

-----------------------------------------------------------------------------
(* Once its handler was told of every write, the HTTPS server presents the *)
(* last key pair that was ever written since the start, whatever came      *)
(* after it without a key pair.                                            *)
PresentsLastPair ==
  informed /\ secretSeen = Len(secret) =>
    LET pairs == {n \in 1..Len(secret) : secret[n] = "pair"}
    IN  \A n \in pairs : (\A k \in pairs : k <= n) /\ certificate # None => certificate = n

===============================================================================
