-------------------------- MODULE MCConnectionStd --------------------------
(* The instance of ConnectionStd that TLC checks. *)
EXTENDS ConnectionStd

Message(type, data) == [type |-> type, data |-> data]

MCClosers == {Reader, Writer} \cup Users

\* A message with data and one with a type as well; an empty message before one
\* with data.
MCInputs ==
    {<<Message(<<>>, <<10>>), Message(<<11>>, <<12>>)>>,
     <<Message(<<>>, <<>>), Message(<<>>, <<10>>)>>}
MCSends == {<<20>>}
=============================================================================
