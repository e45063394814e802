--------------------------- MODULE WorkloadHealth ---------------------------
(***************************************************************************)
(* The verdicts of Garund about workloads, as operators on what Kubernetes *)
(* reports: the health rules and the counting rules of server.go, the      *)
(* selectors of pkg/utils and the findings of pkg/analyzer.  Each place    *)
(* that shows the health of an object has a rule of its own, and the same  *)
(* object may pass through several.                                        *)
(*                                                                         *)
(* An object is a record with ns and name and the fields that the rules    *)
(* read.  A container is [ready, restarts, waiting], with waiting the      *)
(* reason it waits for or "none"; the order of containers matters to no    *)
(* rule, so a pod has a set of them.  The conditions Ready and Scheduled   *)
(* are "True", "False", "Unknown" or "none" when they are missing.         *)
(***************************************************************************)
EXTENDS Naturals, FiniteSets

Unready(pod)  == \E c \in pod.containers : ~c.ready
Flapping(pod) == \E c \in pod.containers : c.restarts >= 5

-----------------------------------------------------------------------------
(* The verdicts of the topology and of the search.                         *)

PodHealth(pod) ==
    CASE pod.phase = "Running" -> IF Unready(pod) \/ Flapping(pod)
                                  THEN "warning" ELSE "healthy"
      [] pod.phase \in {"Failed", "Unknown"} -> "critical"
      [] OTHER                               -> "warning"

DeploymentHealth(d) ==
    CASE d.unavailable > 0   -> "critical"
      [] d.unavailable = 0 /\ d.ready < d.desired -> "warning"
      [] OTHER               -> "healthy"

ReplicaSetHealth(rs)   == IF rs.ready < rs.desired THEN "warning" ELSE "healthy"
StatefulSetHealth(sts) == IF sts.ready < sts.desired THEN "warning" ELSE "healthy"

DaemonSetHealth(ds) ==
    IF ds.unavailable > 0 \/ ds.desired # ds.ready THEN "warning" ELSE "healthy"

NodeHealth(node) ==
    CASE node.ready = "True" -> "healthy"
      [] node.ready = "none" -> "warning"
      [] OTHER               -> "critical"

NamespaceHealth(ns) ==
    IF ns.phase = "Terminating" THEN "warning" ELSE "healthy"

(* A status search asks for a health or for a phase.                       *)
HealthMatches(health, status, query) ==
    \/ query \in {"healthy", "warning", "critical"} /\ health = query
    \/ query \in {"Running", "Pending", "Failed"} /\ status = query

-----------------------------------------------------------------------------
(* The counting rules of the overview, which the topology shares for       *)
(* everything but pods.                                                    *)

PodIsHealthy(pod) ==
    /\ pod.phase = "Running"
    /\ pod.containers # {}
    /\ ~Unready(pod)

DeploymentIsHealthy(d) ==
    /\ d.ready = d.desired
    /\ d.available = d.desired
    /\ d.unavailable = 0

ReplicaSetIsHealthy(rs) == rs.ready = rs.desired /\ rs.available >= rs.desired

NamespaceIsHealthy(ns) == ns.phase = "Active"

(* endpoints is the set of the endpoints objects of the service: one, or   *)
(* none, which counts as one without addresses.                            *)
ServiceIsHealthy(svc, endpoints) ==
    IF svc.type = "ExternalName" THEN svc.external
                                 ELSE \E e \in endpoints : e.addresses > 0

-----------------------------------------------------------------------------
(* Selectors.  A missing label reads as the empty string, and an empty     *)
(* selector selects nothing.                                               *)

Label(labels, key) == IF key \in DOMAIN labels THEN labels[key] ELSE ""

LabelsMatch(selector, labels) ==
    /\ DOMAIN selector # {}
    /\ \A key \in DOMAIN selector : Label(labels, key) = selector[key]

(* Mutant: a service selects pods of every namespace.                      *)
MatchPodsAnywhere(svc, pods) ==
    {pod \in pods : LabelsMatch(svc.selector, pod.labels)}

MatchServiceToPods(svc, pods) ==
    {pod \in pods : pod.ns = svc.ns /\ LabelsMatch(svc.selector, pod.labels)}

(* The deployments that FindDeploymentForReplicaSet may return: at most    *)
(* one, since a name is unique in a namespace.                             *)
DeploymentsOfReplicaSet(rs, deployments) ==
    {d \in deployments : d.name = rs.owner /\ d.ns = rs.ns}

-----------------------------------------------------------------------------
(* The analyzer.  A finding is its severity and reason.                    *)

Finding(severity, reason) == [severity |-> severity, reason |-> reason]

BadWaits == {"CrashLoopBackOff", "ImagePullBackOff", "ErrImagePull",
             "CreateContainerConfigError"}

When(condition, finding) == IF condition THEN {finding} ELSE {}

(* Mutant: the conditions of the pod are not looked at.                    *)
AnalyzeWithoutConditions(pod, events) ==
       When(pod.phase = "Failed", Finding("critical", "PodFailed"))
  \cup When(pod.phase = "Pending", Finding("warning", "PodPending"))
  \cup (UNION {When(c.restarts > 0, Finding("warning", "ContainerRestarts"))
               \cup When(c.waiting \in BadWaits, Finding("critical", c.waiting)) :
                 c \in pod.containers})
  \cup {Finding("warning", e.reason) : e \in {e \in events : e.type = "Warning"}}

AnalyzePod(pod, events) ==
       When(pod.phase = "Failed", Finding("critical", "PodFailed"))
  \cup When(pod.phase = "Pending", Finding("warning", "PodPending"))
  \cup (UNION {When(c.restarts > 0, Finding("warning", "ContainerRestarts"))
               \cup When(c.waiting \in BadWaits, Finding("critical", c.waiting)) :
                 c \in pod.containers})
  \cup When(pod.ready \notin {"True", "none"}, Finding("warning", "PodNotReady"))
  \cup When(pod.scheduled = "False", Finding("critical", "PodUnschedulable"))
  \cup {Finding("warning", e.reason) : e \in {e \in events : e.type = "Warning"}}

(* The replica findings of a deployment, and those of each of its pods,    *)
(* to every one of which all the events of the namespace are put down.     *)
AnalyzeDeployment(d, pods, events) ==
       When(d.available < d.desired, Finding("critical", "DeploymentUnavailable"))
  \cup When(d.ready < d.desired, Finding("warning", "InsufficientReadyReplicas"))
  \cup (UNION {AnalyzePod(pod, events) : pod \in pods})

-----------------------------------------------------------------------------
(* External: what Kubernetes guarantees of the reports it publishes.       *)

(* An available replica is a ready one that has stayed so for a while.     *)
DeploymentReport(d) == d.available <= d.ready

(* The kubelet reports a pod Ready only when it runs and every container   *)
(* is ready, and reports the containers and conditions of a pod that runs; *)
(* a pod without a Ready condition is new or was turned away.              *)
PodReport(pod) ==
    /\ pod.ready = "True" => pod.phase = "Running" /\ ~Unready(pod)
    /\ pod.phase = "Running" => pod.containers # {} /\ pod.ready # "none"
    /\ pod.ready = "none" => pod.phase \in {"Pending", "Failed"}

=============================================================================
