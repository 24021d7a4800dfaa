----------------------------- MODULE PreUpgrade -----------------------------
(***************************************************************************)
(* How the agent finds the objects of deprecated and deleted APIs           *)
(* (agent/kubviz/plugins/kubepreupgrade/kubePreUpgrade.go): the definitions *)
(* of the downloaded swagger file against the resources the cluster serves. *)
(*                                                                         *)
(* A cluster w has                                                          *)
(*   w.definitions  the definitions of the swagger file: the API each is of, *)
(*                  whether it has a description and whether that says       *)
(*                  "deprecated"                                            *)
(*   w.served       the APIs the cluster serves                              *)
(*   w.preferred    those of them that ServerPreferredResources lists        *)
(*   w.unseen       the groups whose discovery fails                         *)
(*   w.objects      the uids of the objects of every served API              *)
(*   w.listing      how the list call of a served API ends: "items",         *)
(*                  "notFound", or "error" (no list verb, an API error)      *)
(*   w.custom       the groups of custom resources, by the group that lists   *)
(*                  them: those of the CRDs, and those of aggregated APIs    *)
(***************************************************************************)
EXTENDS Integers, FiniteSets

\* The groups that list the CRDs and the aggregated APIs, and their resources.
CRDGroup == "apiextensions.k8s.io"
ServiceGroup == "apiregistration.k8s.io"
Directories == {CRDGroup, ServiceGroup}

API(group, version, kind) == [group |-> group, version |-> version, kind |-> kind]

(***************************************************************************)
(* The swagger file.                                                         *)
(***************************************************************************)
\* A definition without a description is not an API of the map.
getKubeAPIValues(d) == d.described
PopulateKubeAPIMap(w) == {d.api : d \in {e \in w.definitions : getKubeAPIValues(e)}}
DeprecatedAPIs(w) == {d.api : d \in {e \in w.definitions : getKubeAPIValues(e) /\ e.deprecated}}

(***************************************************************************)
(* The cluster, as the dynamic client answers.  List gives no list with an   *)
(* error, and the code reads the items of that list.                         *)
(***************************************************************************)
ServerPreferredResources(w) == {a \in w.preferred : a.group \notin w.unseen}
List(w, a) == IF a \in w.served THEN w.listing[a] ELSE "notFound"

\* Every entry is listed under its own group and version: the "preferred"
\* resource that getResults compares with is the resource itself.
\* (Mutant: the key of an API of the core group starts with a slash.)
DiscoverNamedGroups(w) == {a \in ServerPreferredResources(w) : a.group # ""}
DiscoverResourceNameAndPreferredGV(w) == ServerPreferredResources(w)

\* populateCRDGroups and populateAPIService, each with a list call of its own for
\* the discovered of its group.
GroupLists(w, g) == {a \in ServerPreferredResources(w) : a.group = g}
IgnoredGroups(w) ==
  UNION {w.custom[g] : g \in {h \in Directories :
                                \E a \in GroupLists(w, h) : List(w, a) = "items"}}

deletedApiReplacements ==
  [a \in {API("extensions", "v1beta1", "Ingress")} |-> API("networking.k8s.io", "v1", "Ingress")]

\* What of the objects of a does not live on under the replacement of a.
\* (Mutant: the objects under the replacement are not looked at.)
KeepOldItems(w, a) == w.objects[a]
fixDeletedItemsList(w, a) ==
  IF a \in DOMAIN deletedApiReplacements
  THEN w.objects[a] \ w.objects[deletedApiReplacements[a]]
  ELSE w.objects[a]

(***************************************************************************)
(* getResults.                                                               *)
(***************************************************************************)
DeprecatedToList(w) == DeprecatedAPIs(w) \cap DiscoverResourceNameAndPreferredGV(w)
DeletedToList(w) == {a \in ServerPreferredResources(w) :
                       a.group \notin IgnoredGroups(w) /\ a \notin PopulateKubeAPIMap(w)}
ReplacementsToList(w) == {deletedApiReplacements[a] : a \in DeletedToList(w) \cap DOMAIN deletedApiReplacements}

\* The items of the list of a failed call are read, and the run panics; a call
\* that ends in NotFound is skipped, but not for a deleted API.
Panics(w) ==
  \/ \E a \in DeprecatedToList(w) : List(w, a) = "error"
  \/ \E g \in Directories : \E a \in GroupLists(w, g) : List(w, a) = "error"
  \/ \E a \in DeletedToList(w) \cup ReplacementsToList(w) : List(w, a) # "items"

getResults(w) ==
  [deprecated |-> {a \in DeprecatedToList(w) : List(w, a) = "items" /\ w.objects[a] # {}},
   deleted    |-> {a \in DeletedToList(w) : fixDeletedItemsList(w, a) # {}}]
=============================================================================
