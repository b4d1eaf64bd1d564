-------------------------- MODULE MCListenAddress --------------------------
(* Values for the constants of ListenAddress: octets of two bits and ports  *)
(* of three, so that 9 is out of range for both and 5 for octets.           *)
EXTENDS ListenAddress, TLC

MCValue == "n0" :> 0 @@ "n2" :> 2 @@ "n3" :> 3 @@ "n5" :> 5 @@ "n9" :> 9

MCChunks ==
  { <<c>> : c \in {"[", ":", " ", "s", "x", "."} }
    \cup { <<n>> : n \in {"n5", "n9"} }
    \cup { <<"]", ":">>, <<":", ":", "n2">>, <<"n3", ".", " ", "n2", ".">>,
           <<"n3", ".", "n0", ".", "n2", ".", "n3">>,
           <<"n2", ".", "n5", ".", "n3", ".", "n9">> }

==============================================================================
