----------------------------- MODULE Connectors -----------------------------
(***************************************************************************)
(* A connector instance (libs/common/sovereign/connectors) of type s3 or   *)
(* github: connect, list_resources of a container, ingest and aclose, as   *)
(* coroutines of one event loop.  Where a call awaits an answer, another   *)
(* coroutine, or a writer of the source, may go first.  health_check       *)
(* changes nothing, and a bucket or a repository is no resource to ingest. *)
(*                                                                         *)
(* A resource is a location <<container, path>>: bucket and key, or        *)
(* repository and path, each the sequence of the segments that slashes     *)
(* separate.  A content is told apart by its size.                         *)
(***************************************************************************)
EXTENDS Integers, Sequences, FiniteSets, TLC

CONSTANTS
    Locations,      \* <<container, path>>
    DestinationPrefix,  \* of the options every ingest is given: its segments
    Coroutines,     \* ingests in progress at the same time
    MaxSize,        \* bound: sizes of contents are 1..MaxSize
    BlobSize,       \* contents from this size on come without base64 content (GitHub)
    SizeLimit,      \* the max_size_bytes a caller may give
    ListPage,       \* resources one listing returns
    MaxChanges      \* bound: writes to the source

ASSUME ConnectorsAssumption == MaxSize \in Nat \ {0} /\ SizeLimit \in Nat /\ MaxChanges \in Nat

Containers == {l[1] : l \in Locations}
Sizes == 0..MaxSize
NoLimit == MaxSize

VARIABLES
    connectorType,
    source,     \* the source: size of the content of each location, 0 if absent
    changes,
    session,    \* [client, ok, asking]: _client is set; the last connect() answered ok;
                \* a connect() awaits its answer
    listed,     \* descriptors of the caller's last listing: [loc, size]
    ingests,    \* per coroutine [pc, loc, size (of the descriptor), limit, body]
    staged      \* the staging bucket: key (its segments) -> location it was read from

connectorVars == <<connectorType, source, changes, session, listed, ingests, staged>>

NoIngest == [pc |-> "none", loc |-> <<>>, size |-> 0, limit |-> 0, body |-> 0]
Nothing == [p \in {} |-> 0]

ConnectorsInit ==
    /\ connectorType \in {"s3", "github"}
    /\ source = [l \in Locations |-> 1]
    /\ changes = 0
    /\ session = [client |-> FALSE, ok |-> FALSE, asking |-> FALSE]
    /\ listed = {} /\ staged = Nothing
    /\ ingests = [c \in Coroutines |-> NoIngest]

\* Someone writes or deletes a resource at the source.
change(loc, size) ==
    /\ changes < MaxChanges /\ size # source[loc]
    /\ changes' = changes + 1
    /\ source' = [source EXCEPT ![loc] = size]
    /\ UNCHANGED <<connectorType, session, listed, ingests, staged>>

-----------------------------------------------------------------------------
(* S3Connector.  connect() calls boto3 without awaiting; the other methods   *)
(* await a thread.                                                           *)

\* Credentials of an unsupported kind leave the client as it is.  Otherwise it is
\* set and then tried (STS, list_buckets); it stays when the trial fails.
connect_s3 ==
    /\ connectorType = "s3"
    /\ \/ session' = [session EXCEPT !.ok = FALSE]
       \/ \E ok \in BOOLEAN : session' = [session EXCEPT !.client = TRUE, !.ok = ok]
    /\ UNCHANGED <<connectorType, source, changes, listed, ingests, staged>>

Descriptors(locations) == {[loc |-> l, size |-> source[l]] : l \in locations}

There(container) == {l \in Locations : l[1] = container /\ source[l] # 0}

\* One page of list_objects_v2; a listing that fails is an empty list.
list_objects(container) ==
    /\ connectorType = "s3" /\ session.client
    /\ \/ \E page \in SUBSET There(container) :
            /\ Cardinality(page) = ListPage \/ page = There(container)
            /\ Cardinality(page) <= ListPage
            /\ listed' = Descriptors(page)
       \/ listed' = {}
    /\ UNCHANGED <<connectorType, source, changes, session, ingests, staged>>

\* ingest() of either connector checks that there is a client, and asks the source.
ingest(c, resource, limit) ==
    /\ session.client
    /\ ingests[c].pc \in {"none", "ok", "failed"}
    /\ ingests' = [ingests EXCEPT ![c] = [pc |-> "fetch", loc |-> resource.loc,
                                          size |-> resource.size, limit |-> limit, body |-> 0]]
    /\ UNCHANGED <<connectorType, source, changes, session, listed, staged>>

\* Mutant: the size in the caller's descriptor is measured.
too_large_listed(job, body) == job.size > job.limit

too_large(job, body) == body > job.limit

\* What the location holds now arrives, or an error.
fetched(c, usable) ==
    LET body == source[ingests[c].loc]
    IN /\ ingests[c].pc = "fetch"
       /\ \/ /\ body # 0 /\ usable /\ ~too_large(ingests[c], body)
             /\ ingests' = [ingests EXCEPT ![c].pc = "put", ![c].body = body]
          \/ ingests' = [ingests EXCEPT ![c].pc = "failed"]
       /\ UNCHANGED <<connectorType, source, changes, session, listed, staged>>

get_object(c) == connectorType = "s3" /\ fetched(c, TRUE)

\* Prefix, repository (with GitHub only) and path, joined by slashes; a prefix that is
\* empty adds none.
staged_key(loc) ==
    DestinationPrefix \o (IF connectorType = "github" THEN loc[1] ELSE <<>>) \o loc[2]

put_object(c) ==
    /\ ingests[c].pc = "put"
    /\ \/ /\ LET key == staged_key(ingests[c].loc)
             IN staged' = [k \in DOMAIN staged \cup {key} |->
                              IF k = key THEN ingests[c].loc ELSE staged[k]]
          /\ ingests' = [ingests EXCEPT ![c].pc = "ok"]
       \/ /\ ingests' = [ingests EXCEPT ![c].pc = "failed"]
          /\ UNCHANGED staged
    /\ UNCHANGED <<connectorType, source, changes, session, listed>>

-----------------------------------------------------------------------------
(* GitHubConnector.  Every request to GitHub is awaited; the write to the    *)
(* staging bucket is not, and put_object may here come later than it does.   *)

\* The client is set before /user is asked; without a token, or with another kind
\* of credentials, nothing is.
connect_github ==
    /\ connectorType = "github"
    /\ session' \in {[session EXCEPT !.ok = FALSE],
                     [client |-> TRUE, ok |-> FALSE, asking |-> TRUE]}
    /\ UNCHANGED <<connectorType, source, changes, listed, ingests, staged>>

\* aclose() meanwhile fails the request.
user_answered ==
    /\ session.asking
    /\ \E ok \in IF session.client THEN BOOLEAN ELSE {FALSE} :
         session' = [session EXCEPT !.ok = ok, !.asking = FALSE]
    /\ UNCHANGED <<connectorType, source, changes, listed, ingests, staged>>

\* The contents of a directory; a status other than 200 is an empty list.
list_contents(container) ==
    /\ connectorType = "github" /\ session.client
    /\ listed' \in {Descriptors(There(container)), {}}
    /\ UNCHANGED <<connectorType, source, changes, session, ingests, staged>>

\* A large file comes without its content.
get_contents(c) ==
    connectorType = "github" /\ fetched(c, source[ingests[c].loc] < BlobSize)

\* One step: a connect() during its await is left out.
aclose ==
    /\ connectorType = "github" /\ session.client
    /\ session' = [session EXCEPT !.client = FALSE, !.ok = FALSE]
    /\ UNCHANGED <<connectorType, source, changes, listed, ingests, staged>>

ConnectorsNext ==
    \/ \E l \in Locations, size \in Sizes : change(l, size)
    \/ connect_s3 \/ connect_github \/ user_answered \/ aclose
    \/ \E container \in Containers : list_objects(container) \/ list_contents(container)
    \/ \E c \in Coroutines :
         \/ \E resource \in listed, limit \in {SizeLimit, NoLimit} : ingest(c, resource, limit)
         \/ get_object(c) \/ get_contents(c) \/ put_object(c)

ConnectorsSpec == ConnectorsInit /\ [][ConnectorsNext]_connectorVars

-----------------------------------------------------------------------------
(* Properties.                                                               *)

\* Part of the type invariant of the run.
ConnectorsTypeOK ==
    /\ source \in [Locations -> Sizes] /\ changes \in 0..MaxChanges
    /\ session \in [client : BOOLEAN, ok : BOOLEAN, asking : BOOLEAN]
    /\ listed \subseteq [loc : Locations, size : Sizes \ {0}]
    /\ \A c \in Coroutines : ingests[c].pc \in {"none", "fetch", "put", "ok", "failed"}

\* max_size_bytes is kept by what an ingest stages, though a resource may grow between its
\* listing and its ingest: the bytes that arrived are measured (s3.py:216,
\* github.py:217), not those its descriptor tells of.
WithinMaxSize ==
    \A c \in Coroutines : ingests[c].pc = "ok" => ingests[c].body <= ingests[c].limit

\* Violated by the code.  What an ingest reports as staged stays what it read: the staged
\* key of S3 leaves out the bucket (s3.py:222), and two buckets' objects of one key take
\* each other's place.
ObjectsKeptApart ==
    \A c \in Coroutines :
       ingests[c].pc = "ok" => staged[staged_key(ingests[c].loc)] = ingests[c].loc

\* Violated by the code.  types.py:46-47 says of resource_id that it is "stable across
\* calls" and that "the connector uses it as the lookup key in `ingest()`"; GitHub's
\* names a content by its sha, and ingest asks for the path.
IngestsWhatWasListed ==
    \A c \in Coroutines : ingests[c].pc = "ok" => ingests[c].body = ingests[c].size

\* Violated by the code.  base.py:44-45: "Subsequent method calls assume connect() ran
\* successfully"; the guard is the client, which a connect that fails has set.
ConnectedBeforeUse == [][ \A c \in Coroutines :
                            ingests[c].pc # "fetch" /\ ingests'[c].pc = "fetch" => session.ok
                        ]_connectorVars
=============================================================================
