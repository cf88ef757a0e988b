SPECIFICATION BlockSpec
CONSTANT Driver = {d1}
PROPERTY ExitHalts
