------------------------------- MODULE Provider -------------------------------
(***************************************************************************)
(* The configured connect classifier of user/internal/provider and its     *)
(* refresh (main.go:252-273): the urls of the configuration are resolved   *)
(* once at start and then again at every tick, by a goroutine that shares  *)
(* the result with the pipeline.                                           *)
(*                                                                         *)
(* A resolution asks for the hosts one after the other, while what their   *)
(* names stand for may change and a lookup may fail; it is used only when  *)
(* every lookup succeeded.  The name service is the environment.           *)
(***************************************************************************)
EXTENDS Naturals, Sequences

CONSTANTS
    Hosts,       \* host names
    Ips,         \* addresses
    Ports,       \* port numbers
    Configs,     \* the configurations to start from: [targets, known, refresh]
    MaxChanges   \* bound: changes of what a name stands for

(* Target, and Config after parsing, with the interval of main.go:268. *)
Target == [host : Hosts, port : Ports]

ASSUME ConfigsAssumption ==
    /\ 0 \notin Ports                  \* parseTarget's default is 443
    /\ \A c \in Configs : /\ c.targets \in Seq(Target)
                          /\ c.known \subseteq Ips
                          /\ c.refresh \in BOOLEAN
    /\ MaxChanges \in Nat

VARIABLES
    config,      \* the provider.Config of this run of the daemon
    names,       \* host -> what LookupIP answers for its name now
    changes,     \* changes of names so far
    at,          \* where the resolving goroutine is
    looked,      \* targets looked up in the pass under way
    out,         \* ResolveConfig's out.endpoints
    held,        \* host -> the answers that held since that pass began
    tick,        \* a tick waits in ticker.C, which has room for one
    classifier,  \* the Classifier that main gave to the pipeline, or nil
    source,      \* held, of the pass that the classifier's endpoints come from
    stopped      \* ctx is done: the daemon is going down

resolving == <<at, looked, out, held>>
installed == <<classifier, source>>
vars == <<config, names, changes, resolving, tick, installed, stopped>>

(* What LookupIP returns: addresses, perhaps none, or an error. *)
Fails == [err |-> TRUE, ips |-> {}]
Answers == {Fails} \cup [err : {FALSE}, ips : SUBSET Ips]

NoClassifier == [nil |-> TRUE, endpoints |-> {}]
NewClassifier(endpoints) == [nil |-> FALSE, endpoints |-> endpoints]

(* An address as text has two spellings, and Unmap removes the longer one. *)
Spellings == [ip : Ips, mapped : BOOLEAN]
Unmap(addr) == addr.ip

Endpoint == [ip : Ips, port : Ports]
EndpointsOf(answer, target) == {[ip |-> ip, port |-> target.port] : ip \in answer.ips}

Current == [h \in Hosts |-> {names[h]}]

(* configureConfiguredConnectClassifier: without targets and prefixes there is
   nothing to classify.                                                     *)
Init ==
    /\ config \in Configs
    /\ names \in [Hosts -> Answers]
    /\ changes = 0
    /\ at = IF config.targets = << >> /\ config.known = {} THEN "ended" ELSE "starting"
    /\ looked = 0
    /\ out = {}
    /\ held = Current
    /\ tick = FALSE
    /\ classifier = NoClassifier
    /\ source = [h \in Hosts |-> {}]
    /\ stopped = FALSE

-----------------------------------------------------------------------------
(* ResolveConfig, which runs at start ("starting") and in the refresh
   goroutine ("refreshing").                                                *)
Resolving == at \in {"starting", "refreshing"}
NextTarget == config.targets[looked + 1]

(* Mutant: a lookup that fails is skipped. *)
FailedLookupSkipped ==
    /\ Resolving /\ looked < Len(config.targets)
    /\ names[NextTarget.host] = Fails
    /\ looked' = looked + 1
    /\ UNCHANGED <<config, names, changes, at, out, held, tick, installed, stopped>>

(* An answer without addresses is no error: the target has no endpoint, and the
   pass goes on.                                                            *)
LookUp ==
    /\ Resolving /\ looked < Len(config.targets)
    /\ names[NextTarget.host] # Fails
    /\ out' = out \cup EndpointsOf(names[NextTarget.host], NextTarget)
    /\ looked' = looked + 1
    /\ UNCHANGED <<config, names, changes, at, held, tick, installed, stopped>>

(* Mutant: the refresh returns on an error instead of going on. *)
FailedLookupEndsRefresh ==
    /\ Resolving /\ looked < Len(config.targets)
    /\ names[NextTarget.host] = Fails
    /\ at' = "ended"
    /\ UNCHANGED <<config, names, changes, looked, out, held, tick, installed, stopped>>

(* One lookup fails and the whole pass with it.  At start that leaves a nil
   classifier for good; the refresh keeps what it had.  Under a context that
   is done every lookup may fail.                                           *)
FailedLookup ==
    /\ Resolving /\ looked < Len(config.targets)
    /\ \/ names[NextTarget.host] = Fails
       \/ stopped /\ at = "refreshing"
    /\ at' = IF at = "starting" THEN "ended" ELSE "waiting"
    /\ UNCHANGED <<config, names, changes, looked, out, held, tick, installed, stopped>>

(* Mutant: what is new is added to what was there. *)
ReplaceEndpointsMerges ==
    classifier' = NewClassifier(classifier.endpoints \cup out)

(* NewClassifier, or the refresh's ReplaceEndpoints: one write under mu. *)
ReplaceEndpoints == classifier' = NewClassifier(out)

(* The pass is complete.  A refresh goroutine is started only if there is an
   interval; each later pass ends back at the ticker.                       *)
Install ==
    /\ Resolving /\ looked = Len(config.targets)
    /\ ReplaceEndpoints
    /\ source' = held
    /\ at' = IF config.refresh THEN "waiting" ELSE "ended"
    /\ UNCHANGED <<config, names, changes, looked, out, held, tick, stopped>>

-----------------------------------------------------------------------------
(* StartBackgroundRefresh. *)
TickerFires ==
    /\ config.refresh /\ at \in {"waiting", "refreshing"}
    /\ tick' = TRUE
    /\ UNCHANGED <<config, names, changes, resolving, installed, stopped>>

(* Mutant: the pass goes on with what the last one found. *)
RefreshAccumulates ==
    /\ at = "waiting" /\ tick
    /\ at' = "refreshing" /\ looked' = 0 /\ held' = Current /\ tick' = FALSE
    /\ UNCHANGED <<config, names, changes, out, installed, stopped>>

(* Both cases of the select may be ready, and either is taken. *)
Refresh ==
    /\ at = "waiting" /\ tick
    /\ at' = "refreshing" /\ looked' = 0 /\ out' = {} /\ held' = Current
    /\ tick' = FALSE
    /\ UNCHANGED <<config, names, changes, installed, stopped>>

RefreshEnds ==
    /\ at = "waiting" /\ stopped
    /\ at' = "ended"
    /\ UNCHANGED <<config, names, changes, looked, out, held, tick, installed, stopped>>

Stop ==
    /\ at # "starting" /\ ~stopped
    /\ stopped' = TRUE
    /\ UNCHANGED <<config, names, changes, resolving, tick, installed>>

-----------------------------------------------------------------------------
(* The name service, at any time. *)
NameChanges ==
    /\ changes < MaxChanges
    /\ changes' = changes + 1
    /\ \E h \in Hosts, answer \in Answers :
          /\ answer # names[h]
          /\ names' = [names EXCEPT ![h] = answer]
          /\ held' = [held EXCEPT ![h] = @ \cup {answer}]
    /\ UNCHANGED <<config, at, looked, out, tick, installed, stopped>>

(* The daemon has no refresh, or none any more; only main goes on. *)
Idle == at = "ended" /\ UNCHANGED vars

Next ==
    \/ LookUp \/ FailedLookup \/ Install
    \/ TickerFires \/ Refresh \/ RefreshEnds
    \/ NameChanges \/ Stop \/ Idle

Spec == Init /\ [][Next]_vars

(* The lookups return, the ticker fires, and the goroutine takes its ticks; the
   names and the end of the daemon carry no fairness.                       *)
FairSpec ==
    /\ Spec
    /\ WF_vars(LookUp \/ FailedLookup \/ Install)
    /\ WF_vars(TickerFires)
    /\ WF_vars(Refresh)

-----------------------------------------------------------------------------
(* ContainsConnect, of the snapshot of endpoints that the pipeline copies under
   the read lock: the prefixes first, then the endpoints.                   *)
ContainsConnect(addr, port) ==
    /\ ~classifier.nil
    /\ \/ Unmap(addr) \in config.known
       \/ [ip |-> Unmap(addr), port |-> port] \in classifier.endpoints

(* The state is well formed. *)
TypeOK ==
    /\ config \in Configs
    /\ names \in [Hosts -> Answers]
    /\ changes \in 0 .. MaxChanges
    /\ at \in {"starting", "waiting", "refreshing", "ended"}
    /\ looked \in 0 .. Len(config.targets)
    /\ out \subseteq Endpoint
    /\ held \in [Hosts -> SUBSET Answers]
    /\ tick \in BOOLEAN /\ stopped \in BOOLEAN
    /\ classifier \in [nil : BOOLEAN, endpoints : SUBSET Endpoint]
    /\ source \in [Hosts -> SUBSET Answers]

(* The endpoints in force are those of one complete resolution: every target
   has all the addresses of one answer that its name gave during that very
   pass, and there are no others.  Names that change or fail between the
   lookups of a pass, and passes that failed before or since, leave neither
   a gap nor a remnant (resolver.go:35-52, 88-93).                          *)
EndpointsOfOnePass ==
    ~classifier.nil =>
        \E answer \in [DOMAIN config.targets -> Answers \ {Fails}] :
            /\ \A i \in DOMAIN config.targets :
                  answer[i] \in source[config.targets[i].host]
            /\ classifier.endpoints =
                  UNION {EndpointsOf(answer[i], config.targets[i]) :
                            i \in DOMAIN config.targets}

(* The classifier follows the names: once they stand for something and stay,
   and a refresh was started, a connect is a configured one exactly when its
   address is one that a configured name stands for now, at that port, or is
   in a known prefix, however many passes failed in between
   (REQUIREMENTS.md:43).                                                    *)
Agrees(answers, addr, port) ==
    ContainsConnect(addr, port) <=>
        \/ addr.ip \in config.known
        \/ \E i \in DOMAIN config.targets :
              /\ config.targets[i].port = port
              /\ addr.ip \in answers[config.targets[i].host].ips

EndpointsFollowNames ==
    \A answers \in [Hosts -> Answers \ {Fails}] :
        (names = answers /\ ~classifier.nil /\ config.refresh) ~>
            \/ \A addr \in Spellings, port \in Ports : Agrees(answers, addr, port)
            \/ names # answers \/ stopped

-----------------------------------------------------------------------------
(* What the documents say, and the code does not do. *)

(* REQUIREMENTS.md:43: CASA "resolves configured URLs at startup and refreshes
   them periodically".  Of the prefixes it says that they are "matched
   directly without DNS resolution".  When one name cannot be resolved at
   startup, there is no refresh that could, and no prefix is matched.       *)
StartupFailureHeals ==
    (config.refresh /\ config.targets # << >> /\ classifier.nil) ~>
        (~classifier.nil \/ stopped \/ \E h \in Hosts : names[h] = Fails)
=============================================================================
