---------------------------- MODULE MCRoutedLane ----------------------------
(* Model-checking instance of RoutedLane.                                    *)
EXTENDS RoutedLane, TLC
=============================================================================
