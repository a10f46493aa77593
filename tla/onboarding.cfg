SPECIFICATION FairSpec
CONSTANTS
    Gateways = {g1}
    Hosts = {h1, h2}
    Users = {u1, u2}
    Nobody = Nobody
    MaxMoves = 1
INVARIANTS TypeOK OneFlowPerGateway
PROPERTIES ScanHearsAll FollowsTheGateway GatewayOffered
