--------------------------- MODULE ConfigBuilder ---------------------------
(***************************************************************************)
(* ConfigRootBuilder: the external files that the parts of a configuration *)
(* refer to, in the order in which it makes objects of them, and where it  *)
(* stops at a tag with a comma.  The parts are records whose fields are    *)
(* sequences of paths: empty, or of one path, but for headers.             *)
(***************************************************************************)
EXTENDS Integers, Sequences, SequencesExt

CONSTANT Refused     \* stands where CommaInTagIsForbidden is raised

Each(Build(_), list) == FlattenSeq([i \in DOMAIN list |-> Build(list[i])])
RaisedIf(condition) == IF condition THEN <<Refused>> ELSE <<>>

\* A dataset is a file or rows, whose tags are looked at.
DatasetFiles(dataset) == dataset.file \o RaisedIf(dataset.comma)

\* A response of a list may be a plain string instead, a text or a file.
ResponseFiles(response) == response.headers \o response.body

\* forbid_comma_in_tag looks no further than the first plain string.
Forbidden(list) ==
  \E i \in DOMAIN list : list[i].comma /\ \A j \in 1..i : ~list[j].plain
ResponsesFiles(list) == Each(ResponseFiles, list) \o RaisedIf(Forbidden(list))

EndpointFiles(endpoint) ==
  (IF endpoint.multi THEN ResponsesFiles(endpoint.responses)
                     ELSE Each(ResponseFiles, endpoint.responses))
  \o endpoint.schema \o endpoint.query \o DatasetFiles(endpoint.dataset)

ProduceFiles(produce) == produce.value \o produce.headers
ActorFiles(actor) ==
  Each(ProduceFiles, actor.produce) \o DatasetFiles(actor.dataset)
  \o actor.schema \o actor.headers

\* A service has endpoints or actors; only the former may have an OAS document.
ServiceFiles(service) ==
  service.oas \o Each(EndpointFiles, service.endpoints) \o Each(ActorFiles, service.actors)

OwnedBy(owner, list) == [i \in DOMAIN list |-> [owner |-> owner, path |-> list[i]]]

\* The headers of the globals come after every service.
RootFiles(config, globals) ==
  FlattenSeq([s \in DOMAIN config.services |-> OwnedBy(s, ServiceFiles(config.services[s]))])
  \o OwnedBy(globals, config.globals)

=============================================================================
