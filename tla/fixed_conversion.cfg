SPECIFICATION OperandsSpec
CONSTANTS
  Small = 12
  Fractions = {0, 4}
INVARIANT ConversionExact
