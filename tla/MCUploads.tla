----------------------------- MODULE MCUploads ------------------------------
(***************************************************************************)
(* Every combination of these options and these positional words.  A type  *)
(* of 32 bits is one of 64 values here, a kilobit has 4 bits.              *)
(***************************************************************************)
EXTENDS Uploads

MCV4 == {<<n>> : n \in 0 .. 255}
MCV6 == {<<32, 1>>}

Option(letter, n) == [opt |-> letter, addr |-> NoAddr, num |-> n, unit |-> ""]
Number(n, unit) ==
  [opt |-> NoOpt, addr |-> IF unit = "" THEN <<n>> ELSE NoAddr, num |-> n, unit |-> unit]
Host6 == [opt |-> NoOpt, addr |-> <<32, 1>>, num |-> 32, unit |-> ":"]
NoHost == [opt |-> NoOpt, addr |-> NoAddr, num |-> NoNum, unit |-> "?"]

Options ==
  {<<>>, <<Option("a", NoNum)>>, <<Option("n", NoNum)>>, <<Option("x", NoNum)>>,
   <<Option("S", NoNum)>>, <<Option("S", NoNum), Number(5, "")>>,
   <<Option("S", NoNum), Number(8, ""), Option("n", NoNum)>>,
   <<Option("a", NoNum), Option("S", NoNum), Number(5, "")>>,
   <<Option("S", 5)>>, <<Option("S", 5), Option("S", 6)>>,
   <<Option("S", NoNum), Option("S", 6)>>, <<Option("S", 999)>>}

Places ==
  {<<>>, <<Number(1, "")>>, <<Host6>>, <<NoHost>>, <<NoHost, Number(7, "")>>,
   <<Host6, Option("S", NoNum), Number(5, "")>>,
   <<Host6, Number(32, "")>>, <<Host6, Number(7, ""), Number(0, "")>>,
   <<Number(1, ""), Number(7, ""), Number(1, ""), Number(2, "")>>,
   <<Number(1, ""), Number(0, ""), Number(32, ""), Number(1, "K")>>,
   <<Number(1, ""), Number(7, ""), Number(1, ""), Number(2, "M"), Number(8, "K")>>,
   <<Number(1, ""), Number(7, ""), Number(1, ""), Number(0, ""), Number(0, "")>>,
   <<Number(1, ""), Number(7, ""), Number(1, ""), Number(3, ""), Number(60, "")>>,
   <<Number(1, ""), Number(7, ""), Number(1, ""), Number(3, ""), Number(61, "")>>,
   <<Number(1, ""), Number(7, ""), Number(1, ""), Number(3, ""), Number(4, "M")>>}

MCCommands ==
  {[proto |-> p, argv |-> o \o w] : p \in {"udp", "tcp"}, o \in Options, w \in Places}
=============================================================================
