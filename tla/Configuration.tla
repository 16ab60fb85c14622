--------------------------- MODULE Configuration ---------------------------
(***************************************************************************)
(* One component, from its name to its session: the factory looks its name *)
(* up and makes a decoder or an encoder on a device; then the client's     *)
(* parameters, the stream or the pictures, and MPP's answers drive the     *)
(* half that was made.  The other half stays as it was at the start.       *)
(***************************************************************************)
EXTENDS EncConfig, DecConfig, ComponentTable

CONSTANT Requests   \* a component's name, and what its device says of itself

VARIABLE factory    \* what the component was made from

vars == <<factory, encVars, decVars>>

CodecOf(kind) == IF factory.kind = kind THEN getCodingTypeFromComponentName(factory.name)
                 ELSE "Unused"

\* A chip that is in none of the texts has no record, which the encoder reads.
KnowsItsChip(device) == getChipName(device) # NULL

\* The half that is not made takes part in nothing.
NoDecoder == /\ stream = CHOOSE s \in Streams : s.bits = 8
             /\ dmpp.align = CHOOSE a \in Strides : TRUE
             /\ dmpp.givesStrides

Init ==
    \E r \in Requests :
        /\ KnowsItsChip(r.device)
        /\ factory \in CreateRKCodec2Factory(r.name)
        /\ EncInit(CodecOf("encoder"), r.device)
        /\ DecInit(CodecOf("decoder"), r.device, BaseParams(factory).output.pool)
        /\ factory.kind = "encoder" => NoDecoder

Next ==
    \/ factory.kind = "encoder" /\ EncNext /\ UNCHANGED <<factory, decVars>>
    \/ factory.kind = "decoder" /\ DecNext /\ UNCHANGED <<factory, encVars>>

Spec == Init /\ [][Next]_vars
=============================================================================
