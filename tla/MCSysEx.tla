------------------------------- MODULE MCSysEx -------------------------------
(***************************************************************************)
(* SysEx with a receive buffer of 5 bytes and messages of every kind:      *)
(* ours, an identity request on either channel, another manufacturer's,    *)
(* shorter than any header, a lone System Common byte, and payloads up to  *)
(* two bytes more than fit.                                                *)
(***************************************************************************)
EXTENDS SysEx

EOX == 247

Headers == {<<240, 0, 1, 121>>, <<240, 0, 1, 2>>, <<240, 126, 5>>,
            <<240, 126, 127>>, <<240, 65>>}
Bodies  == {<< >>, <<6>>, <<8>>, <<6, 1>>, <<6, 1, 1>>, <<6, 1, 1, 1>>,
            <<6, 1, 1, 1, 1>>}

MCMessages == {h \o b \o <<EOX>> : h \in Headers, b \in Bodies}
                \cup {<<240, EOX>>, <<240, 1, EOX>>, <<246>>}
MCByte == {0, 1, 2, 5, 6, 8, 65, 121, 126, 127, 240, 246, EOX}
=============================================================================
