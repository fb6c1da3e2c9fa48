----------------------------- MODULE Discovery -----------------------------
(* The parameter and source registries and their discovery: the firmware   *)
(* composes its parameter groups and validates them, the broker asks for   *)
(* them page by page over one connection, and from then on addresses       *)
(* parameters by the index it has counted, as do its clients.              *)
(*                                                                         *)
(* A text is a name, its length and whether a NUL is in it; a page is the  *)
(* definitions it carries.                                                 *)
(* The connection and the device may fail and the device may come back     *)
(* with other firmware until calm holds.                                   *)
EXTENDS Integers, SequencesExt

CONSTANTS
    Compositions,   \* firmware images: groups, programme domains, sources
    Width,          \* Width[name]: its length
    WithNul,        \* the names that have a NUL character
    MaxPayload,     \* MAX_PAYLOAD
    MaxNameLen,     \* MAX_PARAM_NAME_LEN
    MaxGroups,      \* MAX_GROUPS
    MaxSources      \* MAX_SOURCES

PARAM_PAGE_HEADER_LEN == 4
DOMAIN_RIG == 0
Core0 == -1             \* CommandTarget; Program(d) is d
ToRig == -2
None == [type |-> "none"]

(* Images as the compiler lets them be built; MAX_SOURCES fits the status  *)
(* reply's byte.                                                           *)
Names == DOMAIN Width
Param == [name : Names, ty : STRING, count : Nat, maximum : Nat, writable : BOOLEAN]
ASSUME DiscoveryAssumption ==
    /\ Width \in [Names -> Nat] /\ WithNul \subseteq Names
    /\ \A image \in Compositions :
          /\ image.groups \in Seq([target : Nat \cup {Core0, ToRig}, params : Seq(Param)])
          /\ image.domains \in Seq(Nat) /\ image.sources \in Seq(Names)
    /\ MaxPayload \in Nat /\ MaxNameLen \in Nat /\ MaxGroups \in Nat /\ MaxSources \in 0..255

VARIABLES
    firmware,       \* the image the device runs, of Compositions
    entries, mode,  \* ParamStore: the groups pushed; "booting", "panicked" or "serving"
    link, wire,     \* the connection, and the request or reply on it
    pc, known,      \* the broker's next step, and what it has discovered
    held,           \* the registry a client, or a disarm under way, has its indices from,
                    \* and whether this connection gave it
    routed,         \* the last write: the name wanted, those it reaches, held.current
    calm            \* nothing fails any more

device == <<firmware, entries, mode>>
vars == <<device, link, wire, pc, known, held, routed, calm>>

Nothing == [count |-> 0, n_sources |-> 0, start |-> 0, params |-> <<>>, sources |-> <<>>,
            identity |-> <<>>]
Unheld == [params |-> <<>>, current |-> FALSE]

Init ==
    /\ firmware \in Compositions /\ entries = <<>> /\ mode = "booting"
    /\ link = "down" /\ wire = None /\ pc = "connect" /\ known = Nothing
    /\ held = Unheld /\ routed = None /\ calm = FALSE

----------------------------------------------------------------------------
(* The registry *)

(* ParamStore::locate: the walk over the groups, from 0. *)
Total(lengths) == FoldLeft(LAMBDA n, len : n + len, 0, lengths)
Base(g) == Total([k \in 1..(g - 1) |-> Len(entries[k].params)])
Count == Base(Len(entries) + 1)
Group(index) == CHOOSE g \in DOMAIN entries : index >= Base(g) /\ index < Base(g + 1)
LocalId(index) == index - Base(Group(index))
Definition(index) == entries[Group(index)].params[LocalId(index) + 1]

(* ParamStore::push.  (Mutant: the capacity is not looked at.)             *)
PushUnbounded ==
    /\ mode = "booting" /\ Len(entries) < Len(firmware.groups)
    /\ entries' = Append(entries, firmware.groups[Len(entries) + 1])
    /\ UNCHANGED <<firmware, mode, link, wire, pc, known, held, routed, calm>>

Push ==
    /\ mode = "booting" /\ Len(entries) < Len(firmware.groups)
    /\ IF Len(entries) < MaxGroups
       THEN entries' = Append(entries, firmware.groups[Len(entries) + 1]) /\ UNCHANGED mode
       ELSE mode' = "panicked" /\ UNCHANGED entries
    /\ UNCHANGED <<firmware, link, wire, pc, known, held, routed, calm>>

(* ParamStore::validate, one operator per kind of assertion; neither the   *)
(* count nor a NUL in the name is looked at.  (Mutant: the page header is  *)
(* forgotten.)                                                             *)
MAX_U16 == 65535
EncodedLen(def) == Width[def.name] + 5
FitsPageBare(def) == Width[def.name] <= MaxNameLen /\ EncodedLen(def) <= MaxPayload
FitsPage(def) ==
    /\ Width[def.name] <= MaxNameLen
    /\ EncodedLen(def) <= MaxPayload - PARAM_PAGE_HEADER_LEN
    /\ def.maximum <= MAX_U16

NamesUnique ==
    \A i, j \in 0..(Count - 1) : Definition(i).name = Definition(j).name => i = j

(* (Mutant: a domain may be claimed twice.)                                *)
Claims(domain) == {g \in DOMAIN entries : entries[g].target = domain}
DomainsClaimed(domains) ==
    /\ DOMAIN_RIG \notin Range(domains)
    /\ \A domain \in Range(domains) : Claims(domain) # {}
DomainsClaimedOnce(domains) ==
    /\ DOMAIN_RIG \notin Range(domains) /\ IsInjective(domains)
    /\ \A domain \in Range(domains) : Cardinality(Claims(domain)) = 1
DomainsKnown(domains) ==
    \A g \in DOMAIN entries : entries[g].target \in Range(domains) \cup {Core0, ToRig}

(* validate_sources *)
SourcesLen(sources) ==
    Total([k \in DOMAIN sources |-> Width[sources[k]] + 2])
ValidSources ==
    /\ Len(firmware.sources) <= MaxSources /\ firmware.fits
    /\ IsInjective(firmware.sources)
    /\ SourcesLen(firmware.sources) <= (MaxPayload * 3) \div 4

Validate ==
    /\ mode = "booting" /\ Len(entries) = Len(firmware.groups)
    /\ UNCHANGED <<firmware, entries, link, wire, pc, known, held, routed, calm>>
    /\ LET valid == /\ Count <= MAX_U16
                    /\ \A i \in 0..(Count - 1) : FitsPage(Definition(i))
                    /\ NamesUnique
                    /\ DomainsClaimedOnce(firmware.domains) /\ DomainsKnown(firmware.domains)
                    /\ Cardinality(Claims(ToRig)) <= 1
                    /\ ValidSources
       IN  mode' = IF valid THEN "serving" ELSE "panicked"

----------------------------------------------------------------------------
(* The device's handlers *)

Error == [type |-> "Error"]

(* encode_param_page: whole definitions from start on, as many as fit. *)
PageLen(start, next) ==
    PARAM_PAGE_HEADER_LEN
        + Total([k \in 1..(next - start) |-> EncodedLen(Definition(start + k - 1))])
PageEnd(start) ==
    CHOOSE next \in start..Count :
        /\ next = start \/ PageLen(start, next) <= MaxPayload
        /\ next = Count \/ PageLen(start, next + 1) > MaxPayload

GetParams(start) ==
    IF start > Count \/ (start < Count /\ PageEnd(start) = start)
    THEN Error
    ELSE [type |-> "GetParams", start |-> start, next |-> PageEnd(start),
          params |-> [k \in 1..(PageEnd(start) - start) |-> Definition(start + k - 1)]]

GetSources ==
    IF SourcesLen(firmware.sources) > MaxPayload
    THEN Error ELSE [type |-> "GetSources", sources |-> firmware.sources]

Status ==
    [type |-> "Status", count |-> Count, n_sources |-> Len(firmware.sources) % 256]

(* The value of a parameter is told by its name and the image. *)
Value(name) == <<firmware, name>>
GetPar(index) ==
    IF index >= Count
    THEN Error ELSE [type |-> "GetPar", value |-> Value(Definition(index).name)]

(* ParamStore::set up to the command's address: what core 1, or the group  *)
(* itself, takes for its own.                                              *)
Domain(target) == IF target = ToRig THEN DOMAIN_RIG ELSE target
Reached(index) ==
    LET target == entries[Group(index)].target
    IN  IF target = Core0
        THEN {Definition(index).name}
        ELSE {Definition(i).name : i \in
                {i \in 0..(Count - 1) :
                    /\ entries[Group(i)].target # Core0
                    /\ Domain(entries[Group(i)].target) = Domain(target)
                    /\ LocalId(i) = LocalId(index)}}
Refused(index) == index >= Count \/ ~Definition(index).writable
SetPar(index) == IF Refused(index) THEN Error ELSE [type |-> "SetPar"]

Handle(request) ==
    CASE request.ask = "Status" -> Status
      [] request.ask = "GetParams" -> GetParams(request.arg)
      [] request.ask = "GetSources" -> GetSources
      [] request.ask = "GetPar" -> GetPar(request.arg)
      [] OTHER -> SetPar(request.arg)

Serve ==
    /\ mode = "serving" /\ link = "up" /\ wire.type = "request"
    /\ UNCHANGED <<device, link, pc, known, held, calm>>
    /\ wire' = Handle(wire)
    /\ routed' = IF wire.ask = "SetPar" /\ ~Refused(wire.arg)
                 THEN [type |-> "write", wanted |-> wire.wanted, reached |-> Reached(wire.arg),
                       current |-> held.current]
                 ELSE routed

----------------------------------------------------------------------------
(* The broker, discover_device *)

(* UpstreamControl::request: sends, and awaits the reply in step at. *)
Request(at, ask, arg, wanted) ==
    /\ wire' = [type |-> "request", ask |-> ask, arg |-> arg, wanted |-> wanted]
    /\ pc' = at /\ link' = "up"

Replied(at) == pc = at /\ link = "up" /\ wire.type \notin {"none", "request"}

(* bail! or mark_upstream_lost: the connection is dropped, and tried again *)
(* later.  The clients are told through the epoch, and go in their time.   *)
Drop ==
    /\ pc' = "connect" /\ known' = Nothing /\ link' = "down" /\ wire' = None /\ routed' = None
    /\ held' = [held EXCEPT !.current = FALSE]

Connect ==
    /\ pc = "connect" /\ mode = "serving"
    /\ Request("status", "Status", 0, "")
    /\ UNCHANGED <<device, known, held, routed, calm>>

NextPage(start, count) ==
    IF start < count
    THEN Request("params", "GetParams", start, "")
    ELSE Request("sources", "GetSources", 0, "")

OnStatus ==
    /\ Replied("status")
    /\ IF wire.type = "Status"
       THEN /\ known' = [known EXCEPT !.count = wire.count, !.n_sources = wire.n_sources]
            /\ NextPage(0, wire.count)
            /\ UNCHANGED <<held, routed>>
       ELSE Drop
    /\ UNCHANGED <<device, calm>>

(* discover_parameters.  (Mutant: the index is counted within the page.)   *)
NumberedInPage(start, params) ==
    [k \in DOMAIN params |-> [index |-> k - 1, name |-> params[k].name, ty |-> params[k].ty,
                              count |-> params[k].count]]
Numbered(start, params) ==
    [k \in DOMAIN params |-> [index |-> start + k - 1, name |-> params[k].name, ty |-> params[k].ty,
                              count |-> params[k].count]]

(* size() is not 0 and the name ends at the first NUL: a NUL within it     *)
(* shifts the fields that follow.                                          *)
Readable(def) == def.count > 0 /\ def.name \notin WithNul
PageSound ==
    /\ wire.type = "GetParams" /\ wire.start = known.start
    /\ wire.next > known.start /\ wire.next <= known.count
    /\ Len(wire.params) = wire.next - known.start
    /\ \A def \in Range(wire.params) : Readable(def)

NoDuplicates(params) == IsInjective([k \in DOMAIN params |-> params[k].name])

OnPage ==
    /\ Replied("params")
    /\ IF /\ PageSound
          /\ wire.next = known.count =>
                NoDuplicates(known.params \o Numbered(known.start, wire.params))
       THEN /\ known' = [known EXCEPT !.start = wire.next,
                            !.params = @ \o Numbered(known.start, wire.params)]
            /\ NextPage(wire.next, known.count)
            /\ UNCHANGED <<held, routed>>
       ELSE Drop
    /\ UNCHANGED <<device, calm>>

(* read_char_parameter *)
Chars(name) == {d \in Range(known.params) : d.name = name /\ d.ty = "char"}
ReadChars(at, name) ==
    IF Chars(name) = {} THEN Drop /\ UNCHANGED <<device, calm>>
    ELSE /\ Request(at, "GetPar", (CHOOSE d \in Chars(name) : TRUE).index, "")
         /\ UNCHANGED <<device, held, routed, calm>>

(* discover_sources; a NUL in a text makes one text too many of them. *)
SourcesSound ==
    /\ wire.type = "GetSources" /\ Len(wire.sources) = known.n_sources
    /\ Range(wire.sources) \cap WithNul = {}
OnSources ==
    /\ Replied("sources")
    /\ IF SourcesSound
       THEN /\ ReadChars("experiment", "experiment")
            /\ Chars("experiment") # {} => known' = [known EXCEPT !.sources = wire.sources]
       ELSE Drop /\ UNCHANGED <<device, calm>>

OnExperiment ==
    /\ Replied("experiment")
    /\ IF wire.type = "GetPar"
       THEN /\ ReadChars("firmware", "firmware")
            /\ Chars("firmware") # {} => known' = [known EXCEPT !.identity = <<wire.value>>]
       ELSE Drop /\ UNCHANGED <<device, calm>>

OnFirmware ==
    /\ Replied("firmware")
    /\ IF wire.type = "GetPar"
       THEN /\ known' = [known EXCEPT !.identity = Append(@, wire.value)]
            /\ pc' = "ready" /\ wire' = None
            /\ UNCHANGED <<link, held, routed>>
       ELSE Drop
    /\ UNCHANGED <<device, calm>>

(* A client that discovers the device through the broker counts the        *)
(* indices in the same way; disarm reads its index from the metadata.      *)
Learn ==
    /\ pc = "ready" /\ link = "up" /\ held # [params |-> known.params, current |-> TRUE]
    /\ held' = [params |-> known.params, current |-> TRUE]
    /\ UNCHANGED <<device, link, wire, pc, known, routed, calm>>

(* set_parameter, disarm: the index goes to the connection that is there   *)
(* when the upstream is locked, which may be a later one: serve_client's   *)
(* select! may take a request although the epoch has moved.                *)
Write(d) ==
    /\ pc = "ready" /\ link = "up"
    /\ Request("write", "SetPar", d.index, d.name)
    /\ UNCHANGED <<device, known, held, routed, calm>>

(* serve_client, with no request in hand, sees the epoch moved and returns. *)
Close ==
    /\ ~held.current /\ held # Unheld /\ pc # "write"
    /\ held' = Unheld
    /\ UNCHANGED <<device, link, wire, pc, known, routed, calm>>

OnWrite ==
    /\ Replied("write")
    /\ pc' = "ready" /\ wire' = None /\ routed' = None
    /\ UNCHANGED <<device, link, known, held, calm>>

(* A request or the heartbeat finds the connection gone. *)
Notice ==
    /\ pc # "connect" /\ link = "down" /\ Drop
    /\ UNCHANGED <<device, calm>>

Broker == Connect \/ OnStatus \/ OnPage \/ OnSources \/ OnExperiment \/ OnFirmware \/ OnWrite \/ Notice

----------------------------------------------------------------------------
(* Failures, until calm *)

TimesOut ==
    /\ ~calm /\ pc \notin {"connect", "ready"} /\ Drop
    /\ UNCHANGED <<device, calm>>

Disconnect ==
    /\ ~calm /\ link = "up"
    /\ link' = "down" /\ wire' = None /\ routed' = None
    /\ UNCHANGED <<device, pc, known, held, calm>>

(* A reboot, perhaps into other firmware. *)
Restart(image) ==
    /\ ~calm
    /\ firmware' = image /\ entries' = <<>> /\ mode' = "booting"
    /\ link' = "down" /\ wire' = None /\ routed' = None
    /\ UNCHANGED <<pc, known, held, calm>>

Settle == ~calm /\ calm' = TRUE /\ UNCHANGED <<device, link, wire, pc, known, held, routed>>

(* A panicked device is dead until it is flashed again. *)
Dead == calm /\ mode = "panicked" /\ pc = "connect" /\ UNCHANGED vars

Next ==
    \/ Push \/ Validate \/ Serve \/ Broker
    \/ Learn \/ Close
    \/ \E d \in Range(held.params) : Write(d)
    \/ TimesOut \/ Disconnect \/ Settle \/ Dead
    \/ \E image \in Compositions : Restart(image)

(* The device's control task and the broker's loop run whenever they can. *)
Spec == Init /\ [][Next]_vars /\ WF_vars(Serve) /\ WF_vars(Broker)

----------------------------------------------------------------------------
(* Properties *)

TypeOK ==
    /\ firmware \in Compositions /\ Len(entries) <= MaxGroups
    /\ mode \in {"booting", "panicked", "serving"} /\ link \in {"up", "down"}
    /\ pc \in {"connect", "status", "params", "sources", "experiment", "firmware", "ready", "write"}
    /\ known.start <= known.count /\ Len(known.params) = known.start
    /\ calm \in BOOLEAN

(* What the broker publishes as the device's metadata is the registry of   *)
(* the firmware that runs at the other end of this very connection: every  *)
(* index it counted over the pages is the index the store's walk over the  *)
(* groups gives that name, and identity and sources are that image's.      *)
DescribesDevice ==
    pc \in {"ready", "write"} /\ link = "up" =>
        /\ Len(known.params) = Count
        /\ \A k \in DOMAIN known.params :
              LET def == Definition(k - 1)
              IN  /\ known.params[k].index = k - 1
                  /\ known.params[k].name = def.name
                  /\ known.params[k].count = def.count
        /\ known.sources = firmware.sources
        /\ known.identity = <<Value("experiment"), Value("firmware")>>

(* A write by an index learnt over this connection reaches the parameter   *)
(* of that name and no other: indices, local identifiers and command       *)
(* domains never cross, for every composition the validation lets through. *)
WriteReaches ==
    routed.type = "write" /\ routed.current => routed.reached = {routed.wanted}

(* What the broker needs beyond the validation. *)
Describable ==
    /\ \A group \in Range(entries) : \A def \in Range(group.params) : Readable(def)
    /\ \A name \in {"experiment", "firmware"} :
          \E group \in Range(entries) : \E def \in Range(group.params) :
              def.name = name /\ def.ty = "char"
    /\ Range(firmware.sources) \cap WithNul = {}

(* A registry that passed validation and is describable is discovered:     *)
(* every page makes progress and no definition, name or source makes the   *)
(* broker bail out for ever.                                               *)
DiscoverySucceeds == calm /\ mode = "serving" /\ Describable ~> pc = "ready"
=============================================================================
