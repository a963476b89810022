--------------------------- MODULE ArtifactStoreMC ---------------------------
(* A bundle of two wheels, the same as two bundles, and catalogs that end early. *)
EXTENDS ArtifactStore, TLC

CONSTANTS f1, f2

OneBundle == [valid |-> TRUE, bundles |-> <<<<f1, f2>>>>, unclear |-> {}]
TwoBundles == [valid |-> TRUE, bundles |-> <<<<f1>>, <<f2>>>>, unclear |-> {}]
SmallCatalogs == {OneBundle, TwoBundles, [TwoBundles EXCEPT !.unclear = {1}],
                  [OneBundle EXCEPT !.valid = FALSE]}
ProcSymmetry == Permutations(Procs)
=============================================================================
