---------------------------- MODULE MCDiscovery ----------------------------
(* Firmware images for TLC: some valid, of one to four pages, one for      *)
(* every assertion of the validation, and one for everything the broker    *)
(* asks of a valid registry.                                               *)
EXTENDS Discovery

Read(name, ty) == [name |-> name, ty |-> ty, count |-> 1, maximum |-> 0, writable |-> FALSE]
Set(name) == [name |-> name, ty |-> "f32", count |-> 1, maximum |-> 0, writable |-> TRUE]
Of(target, params) == [target |-> target, params |-> params]

Platform == Of(Core0, <<Read("firmware", "char"), Read("experiment", "char"), Set("arm")>>)
Generator == Of(1, <<Set("freq"), Set("coeffs")>>)
Table == Of(2, <<Set("table"), Set("table_freq")>>)
Rig == Of(ToRig, <<Set("gain"), Set("offset")>>)
Telemetry == Of(Core0, <<Read("drops", "f32")>>)

MCWidth ==
    [name \in {"firmware", "experiment", "arm", "freq", "coeffs", "table", "table_freq", "gain",
               "offset", "drops", "page", "long", "in", "out", "nul"} |->
        CASE name \in {"arm", "freq", "gain", "in", "out"} -> 1
          [] name = "page" -> 11
          [] name = "long" -> 12
          [] OTHER -> 3]

Image(groups, domains, sources) ==
    [groups |-> groups, domains |-> domains, sources |-> sources, fits |-> TRUE]

Accepted ==
    {Image(<<Platform, Generator, Table, Rig>>, <<1, 2>>, <<"in", "out">>),
     Image(<<Rig, Platform>>, <<>>, <<"out">>),
     Image(<<Of(1, <<Set("page")>>), Platform, Telemetry>>, <<1>>, <<"in", "out", "gain">>)}
Undescribable ==
    {Image(<<Platform, Of(Core0, <<[Set("gain") EXCEPT !.count = 0]>>)>>, <<>>, <<"in">>),
     Image(<<Platform, Of(Core0, <<Set("nul")>>)>>, <<>>, <<"in">>),
     Image(<<Platform>>, <<>>, <<"nul">>),
     Image(<<Of(Core0, <<Read("experiment", "char"), Read("firmware", "f32")>>)>>, <<>>, <<"in">>)}
Panicking ==
    {Image(<<Of(Core0, <<[Set("table") EXCEPT !.maximum = MAX_U16 + 1]>>)>>, <<>>, <<"in">>),
     Image(<<Platform, Of(1, <<Set("long")>>)>>, <<1>>, <<"in">>),
     Image(<<Platform, Of(1, <<Set("arm")>>)>>, <<1>>, <<"in">>),
     Image(<<Platform, Generator, Of(1, <<Set("gain")>>)>>, <<1>>, <<"in">>),
     Image(<<Platform, Generator>>, <<1, 1>>, <<"in">>),
     Image(<<Platform, Generator>>, <<1, 2>>, <<"in">>),
     Image(<<Platform, Generator, Table>>, <<1>>, <<"in">>),
     Image(<<Platform, Rig, Of(0, <<Set("freq")>>)>>, <<0>>, <<"in">>),
     Image(<<Platform, Rig, Of(ToRig, <<Set("freq")>>)>>, <<>>, <<"in">>),
     Image(<<Platform, Generator, Table, Rig, Telemetry>>, <<1, 2>>, <<"in">>),
     Image(<<Platform>>, <<>>, <<"in", "in">>),
     Image(<<Platform>>, <<>>, <<"in", "out", "gain", "freq">>),
     Image(<<Platform>>, <<>>, <<"drops", "long">>),
     [Image(<<Platform>>, <<>>, <<"in">>) EXCEPT !.fits = FALSE]}

MCCompositions == Accepted \cup Undescribable \cup Panicking
MCWithNul == {"nul"}
=============================================================================
