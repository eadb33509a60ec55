------------------------------ MODULE M5Board ------------------------------
(***************************************************************************)
(* The two board descriptors of pico_fido2_m5_board.c.  Names, sizes and   *)
(* clock rates, which no behaviour depends on, are left out.               *)
(***************************************************************************)
EXTENDS Integers

CONSTANT BoardId   (* The board the firmware is built for.                 *)

\* m5boards/CMakeLists.txt refuses a build for any other board.
ASSUME BoardAssumption == BoardId \in {"CARDPUTER_ADV", "STICK_S3"}

NC == -1           (* GPIO_NUM_NC *)
NoPm1Gpio == 255   (* 0xff in the PM1 fields of a board without a PM1      *)

(***************************************************************************)
(* The types of a descriptor.                                              *)
(***************************************************************************)
gpio_num_t == NC..48   \* The pins of an ESP32-S3.
I2cAddr    == 0..127

pf2_i2c_bus_desc_t == [sda : gpio_num_t, scl : gpio_num_t]

pf2_lcd_desc_t ==
  [ mosi : gpio_num_t, miso : gpio_num_t, sclk : gpio_num_t, cs : gpio_num_t,
    dc : gpio_num_t, rst : gpio_num_t, bl : gpio_num_t,
    width : 0..65535, height : 0..65535, invert_colors : BOOLEAN ]

pf2_es8311_desc_t ==
  [ mclk : gpio_num_t, dout : gpio_num_t, bclk : gpio_num_t,
    lrck : gpio_num_t, din : gpio_num_t, i2c_addr : I2cAddr ]

pf2_bmi270_desc_t == [i2c_addr : I2cAddr, int_gpio : gpio_num_t]

pf2_ir_desc_t ==
  [tx : gpio_num_t, rx : gpio_num_t, rx_requires_rmt : BOOLEAN]

\* An output of the PM1 is one of the five the driver accepts, or none.
pf2_m5pm1_desc_t ==
  LET output == 0..4 \cup {NoPm1Gpio}
  IN [ i2c_addr : I2cAddr, irq_gpio : gpio_num_t, gpio_l3b_power : output,
       gpio_speaker_amp : output, gpio_imu_int : output ]

pf2_user_input_desc_t ==
  [ type : {"GPIO", "TCA8418"}, gpio_a : gpio_num_t, gpio_b : gpio_num_t,
    active_low : BOOLEAN, tca8418_addr : I2cAddr, tca8418_int : gpio_num_t ]

pf2_m5_board_desc_t ==
  [ id : {"CARDPUTER_ADV", "STICK_S3"}, battery_adc : gpio_num_t,
    internal_i2c : pf2_i2c_bus_desc_t, lcd : pf2_lcd_desc_t,
    audio : pf2_es8311_desc_t, imu : pf2_bmi270_desc_t, ir : pf2_ir_desc_t,
    pm1 : pf2_m5pm1_desc_t, user_input : pf2_user_input_desc_t ]

(***************************************************************************)
(* The descriptors.                                                        *)
(***************************************************************************)

cardputer_adv_desc ==
  [ id           |-> "CARDPUTER_ADV",
    battery_adc  |-> 10,
    internal_i2c |-> [sda |-> 8, scl |-> 9],
    lcd          |-> [mosi |-> 35, miso |-> NC, sclk |-> 36, cs |-> 37,
                      dc |-> 34, rst |-> 33, bl |-> 38,
                      width |-> 240, height |-> 135, invert_colors |-> TRUE],
    audio        |-> [mclk |-> NC, dout |-> 46, bclk |-> 41, lrck |-> 43,
                      din |-> 42, i2c_addr |-> 24],
    imu          |-> [i2c_addr |-> 105, int_gpio |-> NC],
    ir           |-> [tx |-> 44, rx |-> NC, rx_requires_rmt |-> FALSE],
    pm1          |-> [i2c_addr |-> 0, irq_gpio |-> NC,
                      gpio_l3b_power |-> NoPm1Gpio,
                      gpio_speaker_amp |-> NoPm1Gpio,
                      gpio_imu_int |-> NoPm1Gpio],
    user_input   |-> [type |-> "TCA8418", gpio_a |-> NC, gpio_b |-> NC,
                      active_low |-> TRUE, tca8418_addr |-> 52,
                      tca8418_int |-> 11] ]

stick_s3_desc ==
  [ id           |-> "STICK_S3",
    battery_adc  |-> NC,
    internal_i2c |-> [sda |-> 47, scl |-> 48],
    lcd          |-> [mosi |-> 39, miso |-> NC, sclk |-> 40, cs |-> 41,
                      dc |-> 45, rst |-> 21, bl |-> 38,
                      width |-> 135, height |-> 240, invert_colors |-> TRUE],
    audio        |-> [mclk |-> 18, dout |-> 14, bclk |-> 17, lrck |-> 15,
                      din |-> 16, i2c_addr |-> 24],
    imu          |-> [i2c_addr |-> 104, int_gpio |-> NC],
    ir           |-> [tx |-> 46, rx |-> 42, rx_requires_rmt |-> TRUE],
    pm1          |-> [i2c_addr |-> 110, irq_gpio |-> NC,
                      gpio_l3b_power |-> 2, gpio_speaker_amp |-> 3,
                      gpio_imu_int |-> 4],
    user_input   |-> [type |-> "GPIO", gpio_a |-> 11, gpio_b |-> 12,
                      active_low |-> TRUE, tca8418_addr |-> 0,
                      tca8418_int |-> NC] ]

\* pf2_m5_board_get()
Board == IF BoardId = "STICK_S3" THEN stick_s3_desc ELSE cardputer_adv_desc

(***************************************************************************)
(* The pins of the board by the driver that uses them.  The drivers share  *)
(* no state but the pins, so no pin may be in two of them.                 *)
(***************************************************************************)
PinsOf ==
  LET i2c == Board.internal_i2c   lcd == Board.lcd   input == Board.user_input
  IN << {i2c.sda, i2c.scl},
        {lcd.mosi, lcd.miso, lcd.sclk, lcd.cs, lcd.dc, lcd.rst, lcd.bl},
        {input.gpio_a, input.gpio_b},
        {input.tca8418_int} >>

ASSUME DescriptorAssumption == Board \in pf2_m5_board_desc_t
ASSUME OnePinOneUserAssumption ==
  \A d, e \in DOMAIN PinsOf : d # e => PinsOf[d] \cap PinsOf[e] \subseteq {NC}
=============================================================================
