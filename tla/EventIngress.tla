----------------------------- MODULE EventIngress -----------------------------
(***************************************************************************)
(* Where events come in: the ingress of JobSinks, and the creation of      *)
(* EventTypes for events that pass.                                        *)
(***************************************************************************)
EXTENDS Optional, Integers, Sequences, FiniteSets

-----------------------------------------------------------------------------
(***************************************************************************)
(* The JobSink ingress (cmd/jobsink/main.go): one HTTP server for every    *)
(* JobSink.  A POST of an event creates a Job named after the event and    *)
(* then a Secret that holds the event, which the Job's Pods mount; a GET   *)
(* of the Location that the POST answered with reports on the Job.  Two    *)
(* requests may be served at once, a sender sends an event again until it  *)
(* is accepted, API calls fail and the server may die between two calls.   *)
(***************************************************************************)

CONSTANTS
  JobEvents,   \* The events that are sent: records of a source and an id, texts.
  Requests,    \* The requests that can be in flight at once.
  MaxPosts,    \* Bound on the number of POSTs.
  MaxJobFaults \* Bound on failing API calls and deaths of the server.

VARIABLES
  sink,     \* The JobSink: "absent", "unaddressed" or "ready".
  request,  \* The requests in flight: how far each one is and its event.
  jobs,     \* The Jobs by name: "running", "complete" or "failed".
  secrets,  \* The Secrets by name: the event that each one holds.
  accepted, \* The events that were answered with 202.
  polled,   \* The last poll of an accepted event: its event and its answer.
  posts,    \* How many POSTs were made.
  jobFaults,\* How many calls failed.
  cut       \* The names whose Job was created by a request that did not
            \* come to create the Secret.

jobVars == <<sink, request, jobs, secrets, accepted, polled, posts, jobFaults, cut>>

Put(f, k, v) == [x \in DOMAIN f \cup {k} |-> IF x = k THEN v ELSE f[x]]

(* md5 is taken to be injective: the name of a Job is the text it hashes,  *)
(* the source and the id one after the other.                              *)
toJobName(e) == e.source \o e.id

JobNames == {toJobName(e) : e \in JobEvents}

(* A text takes one segment of a path once its slashes are escaped.        *)
PathEscapeNot(text) ==
  [i \in 1..(1 + Cardinality({j \in DOMAIN text : text[j] = "/"})) |-> text]

PathEscape(text) == <<text>>

locationHeader(e) ==
  <<"", "namespaces", "ns", "name", "sink", "sources">>
    \o PathEscape(e.source) \o <<"ids">> \o PathEscape(e.id)

parseLocation(path) ==
  IF Len(path) # 9 THEN None ELSE [source |-> path[7], id |-> path[9]]

JobInit ==
  /\ sink = "absent"
  /\ request = [r \in Requests |-> None]
  /\ jobs = <<>>
  /\ secrets = <<>>
  /\ accepted = {}
  /\ polled = None
  /\ posts = 0
  /\ jobFaults = 0
  /\ cut = {}

(* The informer sees the JobSink, and then its address.                    *)
SinkChanges ==
  /\ sink' = CASE sink = "absent" -> "unaddressed"
               [] sink = "unaddressed" -> "ready"
               [] sink = "ready" -> sink
  /\ sink # "ready"
  /\ UNCHANGED <<request, jobs, secrets, accepted, polled, posts, jobFaults, cut>>

(* ServeHTTP up to the first call: a JobSink that the lister misses is a   *)
(* bad request, one without an address panics (the server ends that        *)
(* connection only); the verifier and the event's validation refuse by     *)
(* themselves, without touching anything.                                  *)
JobSinkServeHTTP(r) ==
  /\ posts < MaxPosts
  /\ request[r] = None
  /\ posts' = posts + 1
  /\ \E e \in JobEvents, refused \in BOOLEAN :
       request' = IF sink # "ready" \/ refused THEN request
                  ELSE [request EXCEPT ![r] = [at |-> "list", event |-> e]]
  /\ UNCHANGED <<sink, jobs, secrets, accepted, polled, jobFaults, cut>>

Accept(r) ==
  /\ accepted' = accepted \cup {request[r].event}
  /\ request' = [request EXCEPT ![r] = None]

Fail(r) ==
  /\ jobFaults < MaxJobFaults
  /\ jobFaults' = jobFaults + 1
  /\ request' = [request EXCEPT ![r] = None]

(* A Job is selected by the label with its identifier.                     *)
jobLabelSelectorAny(name) == DOMAIN jobs

jobLabelSelector(name) == DOMAIN jobs \cap {name}

ListJobs(r) ==
  /\ request[r] # None /\ request[r].at = "list"
  /\ IF jobLabelSelector(toJobName(request[r].event)) # {}
       THEN Accept(r)
       ELSE /\ request' = [request EXCEPT ![r].at = "create"]
            /\ UNCHANGED accepted
  /\ UNCHANGED <<sink, jobs, secrets, polled, posts, jobFaults, cut>>

(* A Job that another request has just created is no error, but then the   *)
(* object that Create returns is empty.                                    *)
CreateJob(r) ==
  /\ request[r] # None /\ request[r].at = "create"
  /\ LET name == toJobName(request[r].event) IN
       IF name \in DOMAIN jobs
         THEN /\ request' = [request EXCEPT ![r].at = "secret without owner"]
              /\ UNCHANGED jobs
         ELSE /\ request' = [request EXCEPT ![r].at = "secret"]
              /\ jobs' = Put(jobs, name, "running")
  /\ UNCHANGED <<sink, secrets, accepted, polled, posts, jobFaults, cut>>

(* The Secret is owned by the Job that Create returned; the API server     *)
(* refuses an owner without a name, and the request then fails.  A Secret  *)
(* of that name is no error and keeps its event.                           *)
JobSinkCreateSecret(r) ==
  /\ request[r] # None /\ request[r].at \in {"secret", "secret without owner"}
  /\ LET name == toJobName(request[r].event) IN
       IF request[r].at = "secret"
         THEN /\ Accept(r)
              /\ secrets' = IF name \in DOMAIN secrets THEN secrets
                            ELSE Put(secrets, name, request[r].event)
         ELSE /\ request' = [request EXCEPT ![r] = None]
              /\ UNCHANGED <<accepted, secrets>>
  /\ UNCHANGED <<sink, jobs, polled, posts, jobFaults, cut>>

(* Any of the three calls fails: the answer is 500 and nothing is undone.  *)
CallFails(r) ==
  /\ request[r] # None
  /\ Fail(r)
  /\ cut' = IF request[r].at = "secret" THEN cut \cup {toJobName(request[r].event)} ELSE cut
  /\ UNCHANGED <<sink, jobs, secrets, accepted, polled, posts>>

(* The server dies with its requests.                                      *)
ServerDies ==
  /\ jobFaults < MaxJobFaults
  /\ jobFaults' = jobFaults + 1
  /\ \E r \in Requests : request[r] # None
  /\ request' = [r \in Requests |-> None]
  /\ cut' = cut \cup {toJobName(request[r].event) :
                        r \in {q \in Requests : request[q] # None /\ request[q].at = "secret"}}
  /\ UNCHANGED <<sink, jobs, secrets, accepted, polled, posts>>

(* The Job controller: a Pod starts once the Secret can be mounted.        *)
JobRuns(name) ==
  /\ name \in DOMAIN jobs \cap DOMAIN secrets
  /\ jobs[name] = "running"
  /\ \E outcome \in {"complete", "failed"} : jobs' = [jobs EXCEPT ![name] = outcome]
  /\ polled' = None
  /\ UNCHANGED <<sink, request, secrets, accepted, posts, jobFaults, cut>>

(* A GET of the Location that a POST of the event answered with.           *)
handleGet(e) ==
  /\ e \in accepted
  /\ polled' = [event |-> e,
                answer |-> LET found == parseLocation(locationHeader(e)) IN
                  IF found = None THEN "malformed"
                  ELSE IF toJobName(found) \notin DOMAIN jobs THEN "missing"
                  ELSE jobs[toJobName(found)]]
  /\ UNCHANGED <<sink, request, jobs, secrets, accepted, posts, jobFaults, cut>>

JobIdle ==
  /\ posts = MaxPosts
  /\ \A r \in Requests : request[r] = None
  /\ UNCHANGED jobVars

JobNext ==
  \/ SinkChanges
  \/ \E r \in Requests :
       JobSinkServeHTTP(r) \/ ListJobs(r) \/ CreateJob(r) \/ JobSinkCreateSecret(r) \/ CallFails(r)
  \/ ServerDies
  \/ \E name \in JobNames : JobRuns(name)
  \/ \E e \in JobEvents : handleGet(e)
  \/ JobIdle

JobSpec == JobInit /\ [][JobNext]_jobVars

-----------------------------------------------------------------------------
(* The Secret of a Job is there, or the request that created the Job is    *)
(* still on its way to it.                                                 *)
SecretComes(name) ==
  \/ name \in DOMAIN secrets
  \/ \E r \in Requests :
       request[r] # None /\ request[r].at = "secret" /\ toJobName(request[r].event) = name

(* An event is acknowledged (202) only when a Job is there for it and the  *)
(* Secret that the Job waits for is there or coming: two requests for the  *)
(* same event never both leave the Secret to the other.  It fails where    *)
(* the request that created the Job ended before the Secret (cut): the     *)
(* next request finds the Job and acknowledges.                            *)
AcceptedIsMounted ==
  \A e \in accepted :
    /\ toJobName(e) \in DOMAIN jobs
    /\ SecretComes(toJobName(e)) \/ toJobName(e) \in cut

(* The Location of an accepted event leads back to the Job of that event,  *)
(* whatever its source and id contain, and reports the state of that Job.  *)
PollFindsJob ==
  polled # None => /\ toJobName(polled.event) \in DOMAIN jobs
                   /\ polled.answer = jobs[toJobName(polled.event)]

-----------------------------------------------------------------------------
(***************************************************************************)
(* The creation of EventTypes from the events that pass an ingress, a      *)
(* channel or a dispatcher (pkg/eventtype): each event starts a goroutine  *)
(* that looks the EventType up in the lister of its process and creates it *)
(* if it is not there.  All processes write to one API server.             *)
(***************************************************************************)

CONSTANTS
  TypedEvents,    \* The events: records of a type and a source, texts.
  Goroutines,     \* The goroutines that can run at once, in any process.
  MaxTypeFaults,  \* Bound on failing calls, deletions and changes of the feature.
  MaxTyped        \* Bound on the number of events.

VARIABLES
  autoCreate,   \* The feature eventtype-auto-create.
  eventTypes,   \* The EventTypes in the API server: by name, the event of each.
  typeLister,   \* The names that the listers have.
  creating,     \* The goroutines: how far each one is, and its event.
  recorded,   \* The events whose goroutine ended without an error since their
                \* EventType was last deleted.
  typed,        \* How many events there were.
  typeFaults

eventTypeVars == <<autoCreate, eventTypes, typeLister, creating, recorded, typed, typeFaults>>

(* The hash is taken of the parts without anything between them.           *)
generateEventTypeName(e) == e.type \o e.source

EventTypeInit ==
  /\ autoCreate \in BOOLEAN
  /\ eventTypes = [n \in {} |-> None]
  /\ typeLister = {}
  /\ creating = [g \in Goroutines |-> None]
  /\ recorded = {}
  /\ typed = 0 /\ typeFaults = 0

TypeFault == typeFaults < MaxTypeFaults /\ typeFaults' = typeFaults + 1

(* An event has been handled, and the goroutine is started.                *)
AutoCreateEventType(g, e) ==
  /\ autoCreate /\ creating[g] = None
  /\ typed < MaxTyped /\ typed' = typed + 1
  /\ creating' = [creating EXCEPT ![g] = [at |-> "get", event |-> e]]
  /\ UNCHANGED <<autoCreate, eventTypes, typeLister, recorded, typeFaults>>

TypesEnds(g) ==
  /\ creating' = [creating EXCEPT ![g] = None]
  /\ recorded' = recorded \cup {creating[g].event}

(* Mutant: an EventType that is not found is no error, and nothing is made. *)
getIgnoresNotFound(g) == TypesEnds(g)

(* What the lister answers: there is nothing to do, or it is not found.    *)
getOrNotFound(g) ==
  IF generateEventTypeName(creating[g].event) \in typeLister
  THEN TypesEnds(g)
  ELSE creating' = [creating EXCEPT ![g].at = "create"] /\ UNCHANGED recorded

Get(g) ==
  /\ creating[g] # None /\ creating[g].at = "get"
  /\ getOrNotFound(g)
  /\ UNCHANGED <<autoCreate, eventTypes, typeLister, typed, typeFaults>>

(* The EventType is created, unless it exists already, which is no error.  *)
Create(g) ==
  LET name == generateEventTypeName(creating[g].event)
  IN /\ creating[g] # None /\ creating[g].at = "create"
     /\ eventTypes' = IF name \in DOMAIN eventTypes THEN eventTypes
                      ELSE [n \in DOMAIN eventTypes \cup {name} |->
                              IF n = name THEN creating[g].event ELSE eventTypes[n]]
     /\ TypesEnds(g)
     /\ UNCHANGED <<autoCreate, typeLister, typed, typeFaults>>

(* The creation fails, or takes more than 30 seconds.                      *)
CreateFails(g) ==
  /\ creating[g] # None /\ creating[g].at = "create"
  /\ TypeFault
  /\ creating' = [creating EXCEPT ![g] = None]
  /\ UNCHANGED <<autoCreate, eventTypes, typeLister, recorded, typed>>

(* The informer catches up; an event that found its EventType in a lister  *)
(* that was behind is not recorded.                                        *)
ListerCatchesUp ==
  /\ typeLister # DOMAIN eventTypes
  /\ typeLister' = DOMAIN eventTypes
  /\ recorded' = {e \in recorded : generateEventTypeName(e) \in DOMAIN eventTypes}
  /\ UNCHANGED <<autoCreate, eventTypes, creating, typed, typeFaults>>

(* A user deletes an EventType.                                            *)
DeleteEventType(name) ==
  /\ TypeFault
  /\ eventTypes' = [n \in DOMAIN eventTypes \ {name} |-> eventTypes[n]]
  /\ recorded' = {e \in recorded : generateEventTypeName(e) # name}
  /\ UNCHANGED <<autoCreate, typeLister, creating, typed>>

TypesFeatureChanges ==
  /\ TypeFault
  /\ autoCreate' = ~ autoCreate
  /\ UNCHANGED <<eventTypes, typeLister, creating, recorded, typed>>

EventTypeIdle ==
  /\ \A g \in Goroutines : creating[g] = None
  /\ typeLister = DOMAIN eventTypes
  /\ UNCHANGED eventTypeVars

EventTypeNext ==
  \/ \E g \in Goroutines :
       \/ \E e \in TypedEvents : AutoCreateEventType(g, e)
       \/ Get(g) \/ Create(g) \/ CreateFails(g)
  \/ ListerCatchesUp
  \/ \E name \in DOMAIN eventTypes : DeleteEventType(name)
  \/ TypesFeatureChanges
  \/ EventTypeIdle

EventTypeSpec == EventTypeInit /\ [][EventTypeNext]_eventTypeVars

-----------------------------------------------------------------------------

(* Events of processes that do not know of each other have one EventType   *)
(* in the end: each whose goroutine saw no error is found under its name,  *)
(* once the lister has caught up (AutoCreateEventType).                    *)
EventsAreRegistered ==
  typeLister = DOMAIN eventTypes =>
    \A e \in recorded : generateEventTypeName(e) \in DOMAIN eventTypes

===============================================================================
