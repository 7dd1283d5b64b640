---------------------------- MODULE MCSubmission ----------------------------
(* Small instances of Submission for TLC. *)
EXTENDS Submission

CONSTANTS RestMax, GrpcMax

MCMax == [c \in {"rest", "grpc"} |-> IF c = "rest" THEN RestMax ELSE GrpcMax]
=============================================================================
