------------------------------ MODULE MCRelay ------------------------------
EXTENDS Relay

\* From the default: a limit of one held send with a spin, and the other policies.
MCConfigs == {[policy |-> "queue", max |-> 1, spin |-> "some"],
              [policy |-> "fail",  max |-> 0, spin |-> "always"],
              [policy |-> "drop",  max |-> 0, spin |-> "none"]}
\* Two requests that chose the same id, and one send that wants no reply.
MCCorr == <<1, 1, 0>>

=============================================================================
