------------------------------ MODULE MCConfig ------------------------------
\* An instance of Config for TLC.
EXTENDS Config, TLC

\* The two parts of an encoder's settings: extreme values in one, a value that
\* does not fit its field in the other.
Part1 == ("switch_midi_channel" :> 16) @@ ("active_color" :> 127) @@ ("has_detent" :> 1)
Part2 == ("encoder_midi_channel" :> 1) @@ ("movement" :> 5)

\* Both to the first encoder of the first page, one to the second page; the
\* other encoders of the pages are bystanders.
Transfers == {<<0, Part1>>, <<0, Part2>>, <<EncodersPerPage, Part1>>}

\* A whole table of extreme values, and one that leaves most tags out.
Tables ==
    {[tag \in Tags |->
        CASE tag \in {0, 34, 35} -> 16 [] tag = 36 -> 63 [] tag = 37 -> 3
          [] OTHER -> 127 - tag],
     (1 :> 1) @@ (37 :> 2) @@ (5 :> 8)}

=============================================================================
