SPECIFICATION PairSpec
CONSTANTS
  NumAxes = 2
  Policies <- TwoPolicies
  Lower <- Lowest
  Upper <- Highest
  Keys <- StopKeys
  Messages <- StickMoves
  NavSpeeds <- FastNav
  MaxSpeed = 2
INVARIANTS CommandBounded
