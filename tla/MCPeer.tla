-------------------------------- MODULE MCPeer --------------------------------
EXTENDS Peer
MCPeInventories == {<<"nofilter", "missing", "found", "found">>, <<"found", "unknown">>,
                    <<"missing">>}
=============================================================================
