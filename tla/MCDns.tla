--------------------------------- MODULE MCDns ---------------------------------
(* Dns with two names, one of two labels, and an address.                  *)
EXTENDS Dns

ab == <<49, 50>>            \* "ab"
ba == <<50, 49, Dot, 49>>   \* "ba.a"
quad == <<7, Dot, 1, 0, Dot, 0, Dot, 2, 5, 5>>  \* "7.10.0.255"

MCAddresses == (ab :> <<10, 0, 0, 7>>) @@ (ba :> <<192, 168, 1, 1>>) @@ (quad :> <<7, 10, 0, 255>>)

(* "a" is a name too.                                                      *)
MCHostAddresses == MCAddresses @@ (<<49>> :> <<10, 0, 0, 8>>)


pointer == <<192, 12>>
labels == <<2, 97, 98, 0>>
mixed == <<1, 97, 192, 12>>
MCForms == {pointer, labels}

(* An alias, whose data is a name, and an address of another kind.         *)
alias == [name |-> pointer, type |-> 5, class |-> 1, data |-> mixed]
long == [name |-> labels, type |-> 28, class |-> 1, data |-> <<0, 1, 0, 1, 0>>]
MCSections == {<<>>, <<long, alias>>}

MCChanges == {[at |-> 9, by |-> 0], [at |-> 99, by |-> 255]}

ASSUME MessagesRight
===============================================================================
