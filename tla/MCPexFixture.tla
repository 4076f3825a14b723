---------------------------- MODULE MCPexFixture ----------------------------
(***************************************************************************)
(* The fixture at every length.  Nothing in it is left to be revealed.     *)
(***************************************************************************)
EXTENDS PexFixture, MCPexLoad

NoContents == [m \in DOMAIN Filler |-> {}]

EveryLength == 0..Bytes(Fixture)
WholeLength == {Bytes(Fixture)}
=============================================================================
