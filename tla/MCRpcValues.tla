---------------------------- MODULE MCRpcValues ----------------------------
(* Bounds for checking RpcValues, and what comes back of any double. *)
EXTENDS RpcValues

\* A number keeps six decimals; what is not a number becomes a text.
RoundedTo(d) == CASE d = "nan" -> Scalar("string", d)
                  [] d = "1.23456789" -> Scalar("double", "1.234568")
                  [] OTHER -> Scalar("double", d)

RECURSIVE Rounded(_)
Rounded(l) == [i \in DOMAIN l |-> CASE l[i].type = "double" -> RoundedTo(l[i].text)
                                   [] l[i].type = "array" -> Array(Rounded(l[i].items))
                                   [] OTHER -> l[i]]

\* What item_to_xml prints of doubles it cannot print in full changes nothing
\* else: parse_rpc_value makes of a list, nested to any depth, the list with its
\* doubles rounded to six decimals, and a string where there was no number.
OnlyDoublesChange == kind = "own" /\ Parsed => into = <<Rounded(own)>>
=============================================================================
